----------------------------- MODULE AccountsProofs -----------------------------
(***************************************************************************)
(* Proofs about Accounts for every set of names, providers, requests and   *)
(* logins, however they overlap: the records stay typed, and only a        *)
(* command that was computed from records another request has changed      *)
(* since can cost one of the four guarantees.                              *)
(***************************************************************************)
EXTENDS Accounts, FiniteSetTheorems, WellFoundedInduction, TLAPS

--------------------------------------------------------------------------------
(* The invariant                                                            *)

Records == [users : [Names -> User \cup {NoUser}], index : [Names -> Names \cup {NoName}],
            epoch : Nat, flag : {"unset", "on", "off"}, providers : Seq(Providers)]

Active == [pc : {"read", "again", "save", "count", "remove", "check", "apply", "epoch", "bump"},
           in : Input, cmd : Cmd, user : User \cup {NoUser}]

LoginState == {NoLogin} \cup [pc : {"lookup"}, name : Names]
                \cup [pc : {"mint"}, user : Names, name : Names]

TypeInv ==
  /\ db \in Records
  /\ req \in [Requests -> {Idle} \cup Active]
  /\ login \in [Logins -> LoginState]
  /\ sessions \subseteq Session /\ IsFiniteSet(sessions) /\ dead \subseteq sessions
  /\ stale \subseteq Requests /\ raced \subseteq {"users", "auth", "epoch"}
  /\ left \in 0 .. MaxRequests

\* The command is of the kind of the request and about the same user.
Carries(in, c) ==
  /\ in.kind = "create" => c.op = "create"
  /\ in.kind \in {"update", "bind"} => c.op = "update" /\ c.id = in.id
  /\ in.kind = "delete" => c.op = "delete" /\ c.id = in.id
  /\ in.kind = "flag" => c.op = "flag"
  /\ in.kind \in {"setall", "put", "drop"} => c.op = "oidc"
  /\ in.kind = "put" => c.list # <<>>

\* Where a request is tells what it is and what it carries.
Flow(q) ==
  /\ q.pc = "again" => q.in.kind = "bind"
  /\ q.pc = "save" => q.in.kind \in {"update", "bind"} /\ q.user \in User
  /\ q.pc \in {"count", "remove"} => q.in.kind = "delete"
  /\ q.pc = "check" => q.in.kind = "drop" /\ q.cmd.op = "oidc"
  /\ q.pc = "apply" => Carries(q.in, q.cmd)
  /\ q.pc = "bump" => q.cmd.op = "epoch"

FlowInv == \A r \in Requests : Flow(req[r])

MayDelete(d, id) == d.users[id].admin => OtherAdmins(d, id) # {}

\* The command was computed from the records it is applied to.
Fits(d, c) ==
  /\ c.op = "update" =>
       /\ d.users[c.id].admin => c.user.admin
       /\ c.old = IF d.users[c.id].name # c.user.name THEN d.users[c.id].name ELSE NoName
  /\ c.op = "delete" => MayDelete(d, c.id) /\ c.name = d.users[c.id].name
  /\ c.op = "flag" => c.on \/ d.providers # <<>>
  /\ c.op = "oidc" => MayStore(d, c.list)

\* What a request has found out holds of the records d.
Current(d, q) ==
  /\ q.pc = "again" => ~RemovesAdmin(d.users[q.in.id], q.in.role)
  /\ q.pc = "save" => (d.users[q.in.id].admin => q.user.admin)
  /\ q.pc = "remove" => MayDelete(d, q.in.id)
  /\ q.pc = "apply" => Fits(d, q.cmd)
  /\ q.pc = "bump" => q.cmd.epoch = d.epoch + 1

EpochInv ==
  /\ \A s \in sessions : s.epoch <= db.epoch
  /\ \A s \in dead : s.epoch < db.epoch

UsersInv == IndexSound /\ AdminRemains

\* As long as no stale request wrote a group of records, it is in order; and
\* what a request has found out is out of date only if it is stale.
RaceInv ==
  /\ "users" \in raced \/ UsersInv
  /\ "auth" \in raced \/ ProviderRemains
  /\ "epoch" \in raced \/ EpochInv
  /\ \A r \in Requests : r \in stale \/ Current(db, req[r])

AInv == TypeInv /\ FlowInv /\ RaceInv

--------------------------------------------------------------------------------
(* The loop that removes a provider                                         *)

\* Induction, from the well-foundedness of < on Nat.
LEMMA Induct ==
  ASSUME NEW T \in SUBSET Nat, 0 \in T, \A n \in T : n + 1 \in T
  PROVE  T = Nat
  <1> DEFINE R == OpToRel(<, Nat)
             U == Nat \ T
  <1> SUFFICES ASSUME U # {} PROVE FALSE
    OBVIOUS
  <1>1. IsWellFoundedOn(R, Nat)
    BY NatLessThanWellFounded
  <1>2. \E x \in U : \A y \in U : ~(<<y, x>> \in R)
    BY <1>1, WFMin
  <1>3. \A x, y \in Nat : <<y, x>> \in R <=> y < x
    BY DEF OpToRel
  <1> HIDE DEF R
  <1>4. PICK n \in U : \A m \in U : ~(<<m, n>> \in R)
    BY <1>2
  <1>5. n # 0 /\ n - 1 \in Nat /\ n - 1 < n
    OBVIOUS
  <1>6. n - 1 \in T
    BY <1>3, <1>4, <1>5
  <1> QED
    BY <1>5, <1>6

Keep(s, x, key) == IF x # key THEN Append(s, x) ELSE s

\* The recursion of Without over the first n providers, with values in f.
Keeps(f, list, key, n) == /\ DOMAIN f = 0 .. n /\ f[0] = <<>>
                          /\ \A i \in 1 .. n : f[i] = Keep(f[i - 1], list[i], key)

LEMMA KeepsExists ==
  ASSUME NEW list, NEW key
  PROVE  \A n \in Nat : \E f : Keeps(f, list, key, n) /\ f = [i \in 0 .. n |-> f[i]]
  <1> DEFINE P(f, n) == Keeps(f, list, key, n) /\ f = [i \in 0 .. n |-> f[i]]
             T == {n \in Nat : \E f : P(f, n)}
  <1>1. 0 \in T
    <2> DEFINE f == [i \in 0 .. 0 |-> <<>>]
    <2>1. P(f, 0)
      BY DEF Keeps
    <2> QED
      BY <2>1
  <1>2. ASSUME NEW n \in T PROVE n + 1 \in T
    <2>1. PICK f : Keeps(f, list, key, n)
      BY <1>2
    <2> DEFINE g == [i \in 0 .. n + 1 |-> IF i = n + 1 THEN Keep(f[n], list[i], key) ELSE f[i]]
    <2>2. ASSUME NEW i \in 1 .. n + 1 PROVE g[i] = Keep(g[i - 1], list[i], key)
      <3>1. CASE i = n + 1
        BY <3>1
      <3>2. CASE i \in 1 .. n
        <4>1. f[i] = Keep(f[i - 1], list[i], key)
          BY <2>1, <3>2 DEF Keeps
        <4> QED
          BY <3>2, <4>1
      <3> QED
        BY <3>1, <3>2
    <2>3. P(g, n + 1)
      BY <2>1, <2>2 DEF Keeps
    <2> HIDE DEF g, P
    <2>4. \E h : P(h, n + 1)
      BY <2>3
    <2> QED
      BY <2>4
  <1> HIDE DEF T
  <1>3. T = Nat
    BY <1>1, <1>2, Induct DEF T
  <1> QED
    BY <1>3 DEF T

LEMMA WithoutKeeps ==
  ASSUME NEW list \in Seq(Providers), NEW key
  PROVE  \E f : Keeps(f, list, key, Len(list)) /\ Without(list, key) = f[Len(list)]
  <1> DEFINE H(f) == [i \in 0 .. Len(list) |->
                        IF i = 0 THEN <<>>
                        ELSE IF list[i] # key THEN Append(f[i - 1], list[i]) ELSE f[i - 1]]
             g == CHOOSE f : f = H(f)
  <1>1. PICK f : Keeps(f, list, key, Len(list)) /\ f = [i \in 0 .. Len(list) |-> f[i]]
    <2>1. Len(list) \in Nat
      OBVIOUS
    <2> QED
      BY <2>1, KeepsExists, Zenon
  <1>2. \A h : DOMAIN H(h) = 0 .. Len(list) /\ H(h)[0] = <<>>
    OBVIOUS
  <1>3. \A h : \A i \in 1 .. Len(list) : H(h)[i] = Keep(h[i - 1], list[i], key)
    <2> TAKE h
    <2> TAKE i \in 1 .. Len(list)
    <2>1. i \in 0 .. Len(list) /\ i # 0
      OBVIOUS
    <2>2. CASE list[i] # key
      BY <2>1, <2>2 DEF Keep
    <2>3. CASE list[i] = key
      BY <2>1, <2>3 DEF Keep
    <2> QED
      BY <2>2, <2>3
  <1>4. H(f) = [i \in 0 .. Len(list) |-> H(f)[i]]
    OBVIOUS
  <1>5. Without(list, key) = g[Len(list)]
    BY Zenon DEF Without
  <1>6. (\E h : h = H(h)) => g = H(g)
    BY Zenon
  <1> HIDE DEF g, H
  <1>7. ASSUME NEW i \in 0 .. Len(list) PROVE H(f)[i] = f[i]
    <2>1. Keeps(f, list, key, Len(list))
      BY <1>1
    <2>2. i = 0 \/ i \in 1 .. Len(list)
      OBVIOUS
    <2> QED
      BY <1>2, <1>3, <2>1, <2>2 DEF Keeps
  <1>8. f = H(f)
    BY <1>1, <1>4, <1>7
  <1>9. g = H(g)
    BY <1>6, <1>8
  <1>10. Keeps(g, list, key, Len(list))
    <2>1. DOMAIN H(g) = 0 .. Len(list) /\ H(g)[0] = <<>>
      BY <1>2
    <2>2. \A i \in 1 .. Len(list) : H(g)[i] = Keep(g[i - 1], list[i], key)
      BY <1>3
    <2> QED
      BY <1>9, <2>1, <2>2, Zenon DEF Keeps
  <1> QED
    BY <1>5, <1>10

LEMMA WithoutType ==
  ASSUME NEW list \in Seq(Providers), NEW key
  PROVE  Without(list, key) \in Seq(Providers)
  <1>1. PICK f : Keeps(f, list, key, Len(list)) /\ Without(list, key) = f[Len(list)]
    BY WithoutKeeps
  <1> DEFINE T == {n \in Nat : n <= Len(list) => f[n] \in Seq(Providers)}
  <1>2. 0 \in T
    <2>1. f[0] = <<>> /\ <<>> \in Seq(Providers)
      BY <1>1 DEF Keeps
    <2> QED
      BY <2>1, Zenon
  <1>3. ASSUME NEW n \in T PROVE n + 1 \in T
    <2> SUFFICES ASSUME n + 1 <= Len(list) PROVE f[n + 1] \in Seq(Providers)
      OBVIOUS
    <2>1. n + 1 \in 1 .. Len(list) /\ f[n] \in Seq(Providers) /\ list[n + 1] \in Providers
      OBVIOUS
    <2>2. f[n + 1] = Keep(f[n], list[n + 1], key)
      BY <1>1, <2>1 DEF Keeps
    <2> QED
      BY <2>1, <2>2 DEF Keep
  <1> HIDE DEF T
  <1>4. T = Nat
    BY <1>2, <1>3, Induct DEF T
  <1>5. Len(list) \in T
    BY <1>4
  <1> QED
    BY <1>1, <1>5 DEF T

LEMMA UpsertType ==
  ASSUME NEW list \in Seq(Providers), NEW key, NEW with \in Providers
  PROVE  Upsert(list, key, with) \in Seq(Providers) /\ Upsert(list, key, with) # <<>>
  <1>1. CASE \E i \in DOMAIN list : list[i] = key
    <2> DEFINE i == CHOOSE i \in DOMAIN list :
                      list[i] = key /\ \A j \in 1 .. i - 1 : list[j] # key
    <2>1. Upsert(list, key, with) = [list EXCEPT ![i] = with]
      BY <1>1 DEF Upsert
    <2> HIDE DEF i
    <2>2. Len(list) \in Nat /\ list \in [1 .. Len(list) -> Providers] /\ Len(list) # 0
      BY <1>1
    <2> DEFINE g == [list EXCEPT ![i] = with]
    <2>3. g \in [1 .. Len(list) -> Providers]
      BY <2>2
    <2> HIDE DEF g
    <2>4. g \in Seq(Providers) /\ Len(g) = Len(list)
      BY <2>2, <2>3
    <2> QED
      BY <2>1, <2>2, <2>4 DEF g
  <1>2. CASE ~(\E i \in DOMAIN list : list[i] = key)
    BY <1>2 DEF Upsert
  <1> QED
    BY <1>1, <1>2

--------------------------------------------------------------------------------
(* Inputs, users and commands                                               *)

LEMMA InputFields ==
  ASSUME NEW in \in Input
  PROVE  /\ in.kind = "create" => in.name \in Names /\ in.admin \in BOOLEAN
         /\ in.kind = "update" => /\ in.id \in Names /\ in.name \in Names \cup {NoName}
                                  /\ in.role \in {"keep", "admin", "plain"}
         /\ in.kind = "bind" => in.id \in Names /\ in.role \in {"admin", "plain"}
         /\ in.kind = "delete" => in.id \in Names
         /\ in.kind = "flag" => in.on \in BOOLEAN
         /\ in.kind = "setall" => in.list \in Seq(Providers)
         /\ in.kind = "put" => in.with \in Providers
         /\ in.kind \in {"create", "update", "bind", "delete", "flag", "setall", "put", "drop"}
  <1>1. \A l \in ShortLists : l \in Seq(Providers)
    <2>1. <<>> \in Seq(Providers) /\ \A p \in Providers : <<p>> \in Seq(Providers)
      OBVIOUS
    <2> QED
      BY <2>1, Zenon DEF ShortLists
  <1> QED
    BY <1>1 DEF Input

LEMMA UserFields ==
  ASSUME NEW u \in User \cup {NoUser}
  PROVE  /\ u.admin \in BOOLEAN /\ u.name \in Names \cup {NoName}
         /\ u # NoUser <=> u \in User
         /\ u \in User <=> u.name \in Names
         /\ u = NoUser => u.name = NoName /\ ~u.admin
         /\ NoName \notin Names
  <1>1. NoName \notin Names
    BY AccountsAssumption DEF NoName
  <1>2. /\ NoUser.name = NoName /\ NoUser.admin = FALSE
        /\ \A v \in User : v.name \in Names /\ v.admin \in BOOLEAN
    BY DEF User, NoUser
  <1>3. CASE u = NoUser
    BY <1>1, <1>2, <1>3
  <1>4. CASE u \in User
    BY <1>1, <1>2, <1>4
  <1> QED
    BY <1>3, <1>4

\* An update keeps the admin role when it is not asked to take it.
LEMMA RoleKept ==
  ASSUME NEW u \in User \cup {NoUser}, NEW role \in {"keep", "admin", "plain"},
         ~RemovesAdmin(u, role)
  PROVE  HasRole(u, role) \in BOOLEAN /\ (u.admin => HasRole(u, role))
  <1>1. u.admin \in BOOLEAN
    BY UserFields
  <1>2. CASE role = "keep"
    BY <1>1, <1>2 DEF HasRole
  <1>3. CASE role = "admin"
    <2>1. HasRole(u, role) = TRUE
      BY <1>3 DEF HasRole
    <2> QED
      BY <2>1
  <1>4. CASE role = "plain"
    <2>1. HasRole(u, role) = FALSE /\ ~u.admin
      BY <1>1, <1>4 DEF HasRole, RemovesAdmin
    <2> QED
      BY <2>1
  <1> QED
    BY <1>2, <1>3, <1>4

LEMMA CmdFields ==
  ASSUME NEW c \in Cmd
  PROVE  /\ c.op = "create" => c.id \in Names /\ c.user \in User
         /\ c.op = "update" => c.id \in Names /\ c.user \in User /\ c.old \in Names \cup {NoName}
         /\ c.op = "delete" => c.id \in Names /\ c.name \in Names
         /\ c.op = "flag" => c.on \in BOOLEAN
         /\ c.op = "oidc" => c.list \in Seq(Providers)
         /\ c.op = "epoch" => c.epoch \in Nat
  <1>1. CASE c = NoCmd
    BY <1>1 DEF NoCmd
  <1>2. CASE c \in [op : {"create"}, id : Names, user : User]
    BY <1>2
  <1>3. CASE c \in [op : {"update"}, id : Names, user : User, old : Names \cup {NoName}]
    BY <1>3
  <1>4. CASE c \in [op : {"delete"}, id : Names, name : Names]
    BY <1>4
  <1>5. CASE c \in [op : {"flag"}, on : BOOLEAN]
    BY <1>5
  <1>6. CASE c \in [op : {"oidc"}, list : Seq(Providers)]
    BY <1>6
  <1>7. CASE c \in [op : {"epoch"}, epoch : Nat]
    BY <1>7
  <1> QED
    BY <1>1, <1>2, <1>3, <1>4, <1>5, <1>6, <1>7, Zenon DEF Cmd

Users == [Names -> User \cup {NoUser}]
Index == [Names -> Names \cup {NoName}]

\* What the user commands make of the users and of the index.
LEMMA ApplyUsers ==
  ASSUME NEW d \in Records, NEW c \in Cmd, c.op \in {"create", "update", "delete"}
  PROVE  LET e == Apply(d, c)
             set == c.op = "update" \/ (c.op = "create" /\ ~UserExists(d, c.id))
         IN  /\ e \in Records
             /\ e.epoch = d.epoch /\ e.flag = d.flag /\ e.providers = d.providers
             /\ \A n \in Names : e.users[n] = IF n = c.id /\ set THEN c.user
                                              ELSE IF n = c.id /\ c.op = "delete" THEN NoUser
                                              ELSE d.users[n]
             /\ (c.op = "update" => c.old # c.user.name) => \A n \in Names : e.index[n] =
                  IF \/ c.op = "delete" /\ n = c.name
                     \/ c.op = "update" /\ n = c.old THEN NoName
                  ELSE IF set /\ n = c.user.name THEN c.id ELSE d.index[n]
  <1>0. d.users \in Users /\ d.index \in Index
    BY DEF Records, Users, Index
  <1>1. CASE c.op = "create" /\ UserExists(d, c.id)
    <2>1. Apply(d, c) = d
      BY <1>1 DEF Apply, applyCreateUser
    <2> QED
      BY <1>1, <2>1
  <1>2. CASE c.op = "create" /\ ~UserExists(d, c.id)
    <2>1. c.id \in Names /\ c.user \in User /\ c.user.name \in Names
      BY <1>2, CmdFields DEF User
    <2> DEFINE U == [d.users EXCEPT ![c.id] = c.user]
               I == [d.index EXCEPT ![c.user.name] = c.id]
    <2>2. Apply(d, c) = [d EXCEPT !.users = U, !.index = I]
      BY <1>2 DEF Apply, applyCreateUser
    <2>3. U \in Users /\ I \in Index
      BY <1>0, <2>1 DEF Users, Index
    <2>4. \A n \in Names : /\ U[n] = IF n = c.id THEN c.user ELSE d.users[n]
                           /\ I[n] = IF n = c.user.name THEN c.id ELSE d.index[n]
      BY <1>0 DEF Users, Index
    <2> HIDE DEF U, I
    <2>5. LET e == Apply(d, c)
          IN  /\ e \in Records /\ e.users = U /\ e.index = I
              /\ e.epoch = d.epoch /\ e.flag = d.flag /\ e.providers = d.providers
      <3>1. LET e == [d EXCEPT !.users = U, !.index = I]
            IN  /\ e \in Records /\ e.users = U /\ e.index = I
                /\ e.epoch = d.epoch /\ e.flag = d.flag /\ e.providers = d.providers
        BY <2>3 DEF Records, Users, Index
      <3> QED
        BY <2>2, <3>1
    <2> QED
      BY <1>2, <2>4, <2>5
  <1>3. CASE c.op = "update"
    <2>1. c.id \in Names /\ c.user \in User
      BY <1>3, CmdFields
    <2> DEFINE U == [d.users EXCEPT ![c.id] = c.user]
               I == [n \in Names |-> CASE n = c.old       -> NoName
                                        [] n = c.user.name -> c.id
                                        [] OTHER           -> d.index[n]]
    <2>2. Apply(d, c) = [d EXCEPT !.users = U, !.index = I]
      BY <1>3 DEF Apply, UpdateUser
    <2>3. /\ \A n \in Names : U[n] = IF n = c.id THEN c.user ELSE d.users[n]
          /\ c.old # c.user.name =>
               \A n \in Names : I[n] = IF n = c.old THEN NoName
                                      ELSE IF n = c.user.name THEN c.id ELSE d.index[n]
      BY <1>0 DEF Users, Index
    <2>4. U \in Users
      BY <1>0, <2>1 DEF Users
    <2>5. I \in Index
      <3> SUFFICES ASSUME NEW n \in Names PROVE I[n] \in Names \cup {NoName}
        BY DEF Index
      <3>1. d.index[n] \in Names \cup {NoName}
        BY <1>0 DEF Index
      <3> QED
        BY <2>1, <3>1
    <2> HIDE DEF U, I
    <2>6. LET e == Apply(d, c)
          IN  /\ e \in Records /\ e.users = U /\ e.index = I
              /\ e.epoch = d.epoch /\ e.flag = d.flag /\ e.providers = d.providers
      <3>1. LET e == [d EXCEPT !.users = U, !.index = I]
            IN  /\ e \in Records /\ e.users = U /\ e.index = I
                /\ e.epoch = d.epoch /\ e.flag = d.flag /\ e.providers = d.providers
        BY <2>4, <2>5 DEF Records, Users, Index
      <3> QED
        BY <2>2, <3>1
    <2> QED
      BY <1>3, <2>3, <2>6
  <1>4. CASE c.op = "delete"
    <2>1. c.id \in Names /\ c.name \in Names
      BY <1>4, CmdFields
    <2> DEFINE U == [d.users EXCEPT ![c.id] = NoUser]
               I == [d.index EXCEPT ![c.name] = NoName]
    <2>2. Apply(d, c) = [d EXCEPT !.users = U, !.index = I]
      BY <1>4 DEF Apply, DeleteUser
    <2>3. U \in Users /\ I \in Index
      BY <1>0, <2>1 DEF Users, Index
    <2>4. \A n \in Names : /\ U[n] = IF n = c.id THEN NoUser ELSE d.users[n]
                           /\ I[n] = IF n = c.name THEN NoName ELSE d.index[n]
      BY <1>0 DEF Users, Index
    <2> HIDE DEF U, I
    <2>5. LET e == Apply(d, c)
          IN  /\ e \in Records /\ e.users = U /\ e.index = I
              /\ e.epoch = d.epoch /\ e.flag = d.flag /\ e.providers = d.providers
      <3>1. LET e == [d EXCEPT !.users = U, !.index = I]
            IN  /\ e \in Records /\ e.users = U /\ e.index = I
                /\ e.epoch = d.epoch /\ e.flag = d.flag /\ e.providers = d.providers
        BY <2>3 DEF Records, Users, Index
      <3> QED
        BY <2>2, <3>1
    <2> QED
      BY <1>4, <2>4, <2>5
  <1> QED
    BY <1>1, <1>2, <1>3, <1>4

LEMMA ApplyType ==
  ASSUME NEW d \in Records, NEW c \in Cmd,
         c.op \in {"create", "update", "delete", "flag", "oidc", "epoch"}
  PROVE  /\ Apply(d, c) \in Records
         /\ c.op # "epoch" => Apply(d, c).epoch = d.epoch
         /\ c.op = "epoch" => /\ Apply(d, c).epoch = c.epoch
                              /\ Apply(d, c) = [d EXCEPT !.epoch = c.epoch]
  <1>1. CASE c.op \in {"create", "update", "delete"}
    BY <1>1, ApplyUsers
  <1>4. CASE c.op = "flag"
    BY <1>4 DEF Apply, Records
  <1>5. CASE c.op = "oidc"
    <2>1. Apply(d, c) = [d EXCEPT !.providers = c.list] /\ c.list \in Seq(Providers)
      BY <1>5, CmdFields DEF Apply
    <2> QED
      BY <1>5, <2>1 DEF Records
  <1>6. CASE c.op = "epoch"
    <2>1. Apply(d, c) = [d EXCEPT !.epoch = c.epoch] /\ c.epoch \in Nat
      BY <1>6, CmdFields DEF Apply
    <2> QED
      BY <1>6, <2>1 DEF Records
  <1> QED
    BY <1>1, <1>4, <1>5, <1>6

--------------------------------------------------------------------------------
(* Steps that only read                                                     *)

LEMMA InitAInv == Init => AInv
  <1> SUFFICES ASSUME Init PROVE AInv
    OBVIOUS
  <1>a. PICK U \in SUBSET Names : \E A \in (SUBSET U) \ {{}} :
          \E flag \in {"unset", "on", "off"}, list \in ShortLists :
            db = FirstStore(U, A, flag, list)
    BY DEF Init
  <1>1. PICK A \in (SUBSET U) \ {{}}, flag \in {"unset", "on", "off"}, list \in ShortLists :
          db = FirstStore(U, A, flag, list)
    BY <1>a
  <1>2. list \in Seq(Providers)
    <2>1. <<>> \in Seq(Providers) /\ \A p \in Providers : <<p>> \in Seq(Providers)
      OBVIOUS
    <2> QED
      BY <2>1, Zenon DEF ShortLists
  <1> DEFINE us == [n \in Names |-> IF n \in U THEN [name |-> n, admin |-> n \in A] ELSE NoUser]
             ix == [n \in Names |-> IF n \in U THEN n ELSE NoName]
  <1>3. us \in Users
    <2> SUFFICES ASSUME NEW n \in Names PROVE us[n] \in User \cup {NoUser}
      BY DEF Users
    <2>1. CASE n \in A
      <3>1. (n \in A) = TRUE
        BY <2>1
      <3>2. [name |-> n, admin |-> TRUE] \in User
        BY DEF User
      <3> QED
        BY <3>1, <3>2, Zenon
    <2>2. CASE n \notin A
      <3>1. (n \in A) = FALSE
        BY <2>2
      <3>2. [name |-> n, admin |-> FALSE] \in User
        BY DEF User
      <3> QED
        BY <3>1, <3>2, Zenon
    <2> QED
      BY <2>1, <2>2
  <1>4. ix \in Index
    BY DEF Index
  <1>5. /\ \A n \in Names : n \in U => us[n].name = n /\ ix[n] = n
        /\ \A n \in Names : n \notin U => ix[n] = NoName
        /\ \A n \in Names : n \in U => (us[n].admin = (n \in A))
    OBVIOUS
  <1>6. db = [users |-> us, index |-> ix, epoch |-> 0, flag |-> flag, providers |-> list]
    BY <1>1 DEF FirstStore
  <1> HIDE DEF us, ix
  <1>7. db \in Records /\ db.users = us /\ db.index = ix /\ db.epoch = 0
    BY <1>2, <1>3, <1>4, <1>6 DEF Records, Users, Index
  <1>8. TypeInv
    BY <1>7, FS_EmptySet, AccountsAssumption DEF Init, TypeInv, LoginState
  <1>9. FlowInv /\ \A r \in Requests : Current(db, req[r])
    BY DEF Init, FlowInv, Flow, Current, Idle
  <1>10. IndexSound
    <2> SUFFICES ASSUME NEW n \in Names, db.index[n] # NoName
                 PROVE  UserExists(db, db.index[n]) /\ db.users[db.index[n]].name = n
      BY DEF IndexSound
    <2>1. n \in U /\ db.index[n] = n /\ db.users[n].name = n
      BY <1>5, <1>7
    <2>2. db.users[n] # NoUser
      BY <1>3, <1>7, <2>1, UserFields DEF Users
    <2> QED
      BY <2>1, <2>2 DEF UserExists
  <1>11. AdminRemains
    <2>1. PICK n \in A : TRUE
      BY <1>1
    <2>2. n \in U /\ n \in Names
      BY <1>1
    <2> QED
      BY <1>5, <1>7, <2>1, <2>2 DEF AdminRemains
  <1>12. ProviderRemains /\ EpochInv
    BY DEF Init, ProviderRemains, EpochInv
  <1> QED
    BY <1>8, <1>9, <1>10, <1>11, <1>12 DEF AInv, RaceInv, UsersInv

\* The request r goes on with the record x and the records stay.
LEMMA ReadStep ==
  ASSUME AInv, NEW r \in Requests, NEW x \in {Idle} \cup Active, Flow(x),
         r \notin stale' => Current(db, x), stale' \in {stale, stale \ {r}},
         req' = [req EXCEPT ![r] = x], UNCHANGED <<db, login, sessions, dead, raced>>,
         left' \in 0 .. MaxRequests
  PROVE  AInv'
  <1>1. req \in [Requests -> {Idle} \cup Active]
    BY DEF AInv, TypeInv
  <1>2. /\ req' \in [Requests -> {Idle} \cup Active]
        /\ \A q \in Requests : req'[q] = IF q = r THEN x ELSE req[q]
    BY <1>1
  <1>3. TypeInv'
    BY <1>2 DEF AInv, TypeInv
  <1>4. FlowInv'
    BY <1>2 DEF AInv, FlowInv
  <1>5. /\ "users" \in raced' \/ UsersInv'
        /\ "auth" \in raced' \/ ProviderRemains'
        /\ "epoch" \in raced' \/ EpochInv'
    BY DEF AInv, RaceInv, UsersInv, IndexSound, AdminRemains, ProviderRemains, EpochInv
  <1>6. \A q \in Requests : q \in stale' \/ Current(db', req'[q])
    <2> SUFFICES ASSUME NEW q \in Requests, q \notin stale' PROVE Current(db, req'[q])
      OBVIOUS
    <2>1. CASE q = r
      BY <1>2, <2>1
    <2>2. CASE q # r
      BY <1>2, <2>2 DEF AInv, RaceInv
    <2> QED
      BY <2>1, <2>2
  <1> QED
    BY <1>3, <1>4, <1>5, <1>6 DEF AInv, RaceInv

LEMMA IdleFits == Idle.pc = "idle" /\ Flow(Idle) /\ \A d : Current(d, Idle)
  BY DEF Idle, Flow, Current

\* A request that is answered by a step that only read.
LEMMA FinishStep ==
  ASSUME AInv, NEW r \in Requests, Finish(r), ReadOnly
  PROVE  AInv'
  <1>1. left' \in 0 .. MaxRequests /\ UNCHANGED <<db, login, sessions, dead, stale, raced>>
    BY DEF ReadOnly, AInv, TypeInv
  <1> QED
    BY <1>1, IdleFits, ReadStep DEF Finish

LEMMA Busy ==
  ASSUME AInv, NEW r \in Requests, req[r].pc # "idle"
  PROVE  /\ req[r] \in Active /\ Flow(req[r]) /\ db \in Records
         /\ (r \notin stale => Current(db, req[r]))
         /\ req[r].in \in Input /\ req[r].cmd \in Cmd /\ req[r].user \in User \cup {NoUser}
         /\ (ReadOnly => left' \in 0 .. MaxRequests /\ UNCHANGED <<db, login, sessions, dead, stale, raced>>)
  <1>1. req[r] \in {Idle} \cup Active
    BY DEF AInv, TypeInv
  <1>2. req[r] \in Active
    BY <1>1, IdleFits
  <1> QED
    BY <1>2 DEF AInv, TypeInv, FlowInv, RaceInv, Active, ReadOnly

LEMMA ProposeStep ==
  ASSUME AInv, NEW r \in Requests, req[r].pc # "idle", NEW c \in Cmd,
         Carries(req[r].in, c), r \notin stale => Fits(db, c), Propose(r, c), ReadOnly
  PROVE  AInv'
  <1> DEFINE x == [req[r] EXCEPT !.pc = "apply", !.cmd = c]
  <1>1. req' = [req EXCEPT ![r] = x]
    BY DEF Propose
  <1>2. x \in Active /\ x.pc = "apply" /\ x.in = req[r].in /\ x.cmd = c
    <2>1. req[r] \in Active
      BY Busy
    <2> QED
      BY <2>1 DEF Active
  <1> HIDE DEF x
  <1>3. Flow(x) /\ (r \notin stale => Current(db, x))
    BY <1>2 DEF Flow, Current
  <1> QED
    BY <1>1, <1>2, <1>3, Busy, ReadStep

LEMMA SaveStep ==
  ASSUME AInv, NEW r \in Requests, req[r].pc # "idle", NEW u \in User,
         req[r].in.kind \in {"update", "bind"},
         r \notin stale => (db.users[req[r].in.id].admin => u.admin),
         req' = [req EXCEPT ![r].pc = "save", ![r].user = u], ReadOnly
  PROVE  AInv'
  <1> DEFINE x == [req[r] EXCEPT !.pc = "save", !.user = u]
  <1>1. req' = [req EXCEPT ![r] = x]
    OBVIOUS
  <1>2. x \in Active /\ x.pc = "save" /\ x.in = req[r].in /\ x.user = u
    <2>1. req[r] \in Active
      BY Busy
    <2> QED
      BY <2>1 DEF Active
  <1> HIDE DEF x
  <1>3. Flow(x) /\ (r \notin stale => Current(db, x))
    BY <1>2 DEF Flow, Current
  <1> QED
    BY <1>1, <1>2, <1>3, Busy, ReadStep

LEMMA GotoStep ==
  ASSUME AInv, NEW r \in Requests, req[r].pc # "idle",
         NEW p \in {"again", "count", "remove", "apply", "epoch"}, Goto(r, p), ReadOnly,
         p = "again" => req[r].in.kind = "bind",
         p \in {"count", "remove"} => req[r].in.kind = "delete",
         p = "apply" => Carries(req[r].in, req[r].cmd),
         r \notin stale =>
           /\ p = "again" => ~RemovesAdmin(db.users[req[r].in.id], req[r].in.role)
           /\ p = "remove" => MayDelete(db, req[r].in.id)
           /\ p = "apply" => Fits(db, req[r].cmd)
  PROVE  AInv'
  <1> DEFINE x == [req[r] EXCEPT !.pc = p]
  <1>1. req' = [req EXCEPT ![r] = x]
    BY DEF Goto
  <1>2. x \in Active /\ x.pc = p /\ x.in = req[r].in /\ x.cmd = req[r].cmd
    <2>1. req[r] \in Active
      BY Busy
    <2> QED
      BY <2>1 DEF Active
  <1> HIDE DEF x
  <1>3. Flow(x) /\ (r \notin stale => Current(db, x))
    BY <1>2 DEF Flow, Current
  <1> QED
    BY <1>1, <1>2, <1>3, Busy, ReadStep

LEMMA BeginStep ==
  ASSUME AInv, NEW r \in Requests, Begin(r)
  PROVE  AInv'
  <1>1. PICK in \in Input :
          req' = [req EXCEPT ![r] = [pc |-> "read", in |-> in, cmd |-> NoCmd, user |-> NoUser]]
    BY DEF Begin
  <1> DEFINE x == [pc |-> "read", in |-> in, cmd |-> NoCmd, user |-> NoUser]
  <1>2. x \in Active /\ x.pc = "read"
    BY DEF Active, Cmd
  <1> HIDE DEF x
  <1>3. Flow(x) /\ Current(db, x)
    BY <1>2 DEF Flow, Current
  <1>4. /\ left' \in 0 .. MaxRequests /\ UNCHANGED <<db, login, sessions, dead, raced>>
        /\ stale' = stale \ {r}
    BY AccountsAssumption DEF Begin, AInv, TypeInv
  <1>5. req' = [req EXCEPT ![r] = x]
    BY <1>1 DEF x
  <1> QED
    BY <1>2, <1>3, <1>4, <1>5, ReadStep

LEMMA createUserStep ==
  ASSUME AInv, NEW r \in Requests, createUser(r)
  PROVE  AInv'
  <1> DEFINE in == req[r].in
             c == [op |-> "create", id |-> in.name,
                   user |-> [name |-> in.name, admin |-> in.admin]]
  <1>1. req[r].pc # "idle" /\ in.kind = "create" /\ Propose(r, c) /\ ReadOnly
    BY DEF createUser, At
  <1>2. in.name \in Names /\ in.admin \in BOOLEAN
    BY <1>1, Busy, InputFields
  <1>3. [name |-> in.name, admin |-> in.admin] \in User
    BY <1>2 DEF User
  <1>4. c \in Cmd /\ c.op = "create" /\ Carries(in, c)
    BY <1>1, <1>2, <1>3 DEF Cmd, Carries
  <1> HIDE DEF c
  <1>5. Fits(db, c)
    BY <1>4 DEF Fits
  <1> QED
    BY <1>1, <1>4, <1>5, ProposeStep

LEMMA updateUserStep ==
  ASSUME AInv, NEW r \in Requests, updateUser(r)
  PROVE  AInv'
  <1> DEFINE in == req[r].in
             u == db.users[in.id]
             v == [name |-> IF in.name = NoName THEN u.name ELSE in.name,
                   admin |-> HasRole(u, in.role)]
  <1>1. /\ req[r].pc # "idle" /\ in.kind = "update" /\ ReadOnly
        /\ IF u = NoUser \/ RemovesAdmin(u, in.role) THEN Finish(r)
           ELSE req' = [req EXCEPT ![r].pc = "save", ![r].user = v]
    BY DEF updateUser, At
  <1>2. /\ in.id \in Names /\ in.name \in Names \cup {NoName}
        /\ in.role \in {"keep", "admin", "plain"} /\ db \in Records
    BY <1>1, Busy, InputFields
  <1>3. u \in User \cup {NoUser}
    BY <1>2 DEF Records
  <1>4. CASE u = NoUser \/ RemovesAdmin(u, in.role)
    BY <1>1, <1>4, FinishStep
  <1>5. CASE ~(u = NoUser \/ RemovesAdmin(u, in.role))
    <2>1. HasRole(u, in.role) \in BOOLEAN /\ (u.admin => HasRole(u, in.role))
      BY <1>2, <1>3, <1>5, RoleKept
    <2>2. (IF in.name = NoName THEN u.name ELSE in.name) \in Names
      BY <1>2, <1>3, <1>5, UserFields
    <2>3. v \in User /\ v.admin = HasRole(u, in.role)
      BY <2>1, <2>2 DEF User
    <2>4. req' = [req EXCEPT ![r].pc = "save", ![r].user = v]
      BY <1>1, <1>5
    <2> HIDE DEF v
    <2> QED
      BY <1>1, <2>1, <2>3, <2>4, SaveStep
  <1> QED
    BY <1>4, <1>5

LEMMA updateBindingStep ==
  ASSUME AInv, NEW r \in Requests, updateBinding(r)
  PROVE  AInv'
  <1> DEFINE in == req[r].in
             u == db.users[in.id]
  <1>1. /\ req[r].pc # "idle" /\ in.kind = "bind" /\ ReadOnly
        /\ IF u = NoUser \/ RemovesAdmin(u, in.role) THEN Finish(r) ELSE Goto(r, "again")
    BY DEF updateBinding, At
  <1>2. CASE u = NoUser \/ RemovesAdmin(u, in.role)
    BY <1>1, <1>2, FinishStep
  <1>3. CASE ~(u = NoUser \/ RemovesAdmin(u, in.role))
    BY <1>1, <1>3, GotoStep
  <1> QED
    BY <1>2, <1>3

LEMMA UpdateUserBindingStep ==
  ASSUME AInv, NEW r \in Requests, UpdateUserBinding(r)
  PROVE  AInv'
  <1> DEFINE in == req[r].in
             u == db.users[in.id]
             v == [name |-> u.name, admin |-> HasRole(u, in.role)]
  <1>1. /\ req[r].pc = "again" /\ req[r].pc # "idle" /\ in.kind = "bind" /\ ReadOnly
        /\ IF u = NoUser THEN Finish(r)
           ELSE req' = [req EXCEPT ![r].pc = "save", ![r].user = v]
    BY DEF UpdateUserBinding, At
  <1>2. in.id \in Names /\ in.role \in {"admin", "plain"} /\ db \in Records
    BY <1>1, Busy, InputFields
  <1>3. u \in User \cup {NoUser}
    BY <1>2 DEF Records
  <1>4. CASE u = NoUser
    BY <1>1, <1>4, FinishStep
  <1>5. CASE u # NoUser
    <2>1. HasRole(u, in.role) \in BOOLEAN
      BY <1>2, Zenon DEF HasRole
    <2>2. v \in User /\ v.admin = HasRole(u, in.role)
      BY <1>3, <1>5, <2>1, UserFields DEF User
    <2>3. r \notin stale => (u.admin => v.admin)
      <3>1. r \notin stale => ~RemovesAdmin(u, in.role)
        BY <1>1, Busy DEF Current
      <3> QED
        BY <1>2, <1>3, <2>2, <3>1, RoleKept
    <2>4. req' = [req EXCEPT ![r].pc = "save", ![r].user = v]
      BY <1>1, <1>5
    <2> HIDE DEF v
    <2> QED
      BY <1>1, <2>2, <2>3, <2>4, SaveStep
  <1> QED
    BY <1>4, <1>5

LEMMA SaveUserStep ==
  ASSUME AInv, NEW r \in Requests, SaveUser(r)
  PROVE  AInv'
  <1> DEFINE id == req[r].in.id
             was == db.users[id].name
             new == req[r].user
             old == IF was # new.name THEN was ELSE NoName
             c == [op |-> "update", id |-> id, user |-> new, old |-> old]
  <1>1. req[r].pc = "save" /\ req[r].pc # "idle" /\ Propose(r, c) /\ ReadOnly
    BY DEF SaveUser
  <1>2. id \in Names /\ new \in User /\ db \in Records
    BY <1>1, Busy, InputFields DEF Flow
  <1>3. was \in Names \cup {NoName}
    BY <1>2, UserFields DEF Records
  <1>4. old \in Names \cup {NoName}
    BY <1>3
  <1>5. /\ c \in Cmd /\ c.op = "update" /\ c.id = id /\ c.user = new /\ c.old = old
    BY <1>2, <1>4 DEF Cmd
  <1>8. Carries(req[r].in, c)
    BY <1>1, <1>5, Busy DEF Flow, Carries
  <1>6. r \notin stale => (db.users[id].admin => new.admin)
    BY <1>1, Busy DEF Current
  <1>7. r \notin stale => Fits(db, c)
    BY <1>5, <1>6 DEF Fits
  <1> HIDE DEF c
  <1> QED
    BY <1>1, <1>5, <1>7, <1>8, ProposeStep

LEMMA deleteUserStep ==
  ASSUME AInv, NEW r \in Requests, deleteUser(r)
  PROVE  AInv'
  <1> DEFINE u == db.users[req[r].in.id]
  <1>1. /\ req[r].pc # "idle" /\ req[r].in.kind = "delete" /\ ReadOnly
        /\ IF u = NoUser THEN Finish(r) ELSE Goto(r, IF u.admin THEN "count" ELSE "remove")
    BY DEF deleteUser, At
  <1>2. CASE u = NoUser
    BY <1>1, <1>2, FinishStep
  <1>3. CASE u # NoUser /\ u.admin
    BY <1>1, <1>3, GotoStep
  <1>4. CASE u # NoUser /\ ~u.admin
    <2>1. Goto(r, "remove") /\ MayDelete(db, req[r].in.id)
      BY <1>1, <1>4 DEF MayDelete
    <2> QED
      BY <1>1, <2>1, GotoStep
  <1> QED
    BY <1>2, <1>3, <1>4

LEMMA CountAdminsStep ==
  ASSUME AInv, NEW r \in Requests, CountAdmins(r)
  PROVE  AInv'
  <1>1. /\ req[r].pc = "count" /\ req[r].pc # "idle" /\ ReadOnly
        /\ IF OtherAdmins(db, req[r].in.id) = {} THEN Finish(r) ELSE Goto(r, "remove")
    BY DEF CountAdmins
  <1>2. CASE OtherAdmins(db, req[r].in.id) = {}
    BY <1>1, <1>2, FinishStep
  <1>3. CASE OtherAdmins(db, req[r].in.id) # {}
    <2>1. Goto(r, "remove") /\ MayDelete(db, req[r].in.id) /\ req[r].in.kind = "delete"
      BY <1>1, <1>3, Busy DEF MayDelete, Flow
    <2> QED
      BY <1>1, <2>1, GotoStep
  <1> QED
    BY <1>2, <1>3

LEMMA RemoveUserStep ==
  ASSUME AInv, NEW r \in Requests, RemoveUser(r)
  PROVE  AInv'
  <1> DEFINE id == req[r].in.id
             c == [op |-> "delete", id |-> id, name |-> db.users[id].name]
  <1>1. /\ req[r].pc = "remove" /\ req[r].pc # "idle" /\ ReadOnly
        /\ IF UserExists(db, id) THEN Propose(r, c) ELSE Finish(r)
    BY DEF RemoveUser
  <1>2. CASE ~UserExists(db, id)
    BY <1>1, <1>2, FinishStep
  <1>3. CASE UserExists(db, id)
    <2>1. id \in Names /\ db \in Records
      BY <1>1, Busy, InputFields DEF Flow
    <2>2. db.users[id].name \in Names
      BY <1>3, <2>1, UserFields DEF Records, UserExists
    <2>3. c \in Cmd /\ c.op = "delete" /\ c.id = id /\ c.name = db.users[id].name
      BY <2>1, <2>2 DEF Cmd
    <2>4. r \notin stale => MayDelete(db, id)
      BY <1>1, Busy DEF Current
    <2>5. r \notin stale => Fits(db, c)
      BY <2>3, <2>4 DEF Fits
    <2>6. Propose(r, c)
      BY <1>1, <1>3
    <2>7. Carries(req[r].in, c)
      BY <1>1, <2>3, Busy DEF Flow, Carries
    <2> HIDE DEF c
    <2> QED
      BY <1>1, <2>3, <2>5, <2>6, <2>7, ProposeStep
  <1> QED
    BY <1>2, <1>3

LEMMA SetInternalAuthEnabledStep ==
  ASSUME AInv, NEW r \in Requests, SetInternalAuthEnabled(r)
  PROVE  AInv'
  <1> DEFINE on == req[r].in.on
             c == [op |-> "flag", on |-> on]
  <1>1. /\ req[r].pc # "idle" /\ req[r].in.kind = "flag" /\ ReadOnly
        /\ IF ~on /\ db.providers = <<>> THEN Finish(r) ELSE Propose(r, c)
    BY DEF SetInternalAuthEnabled, At
  <1>2. CASE ~on /\ db.providers = <<>>
    BY <1>1, <1>2, FinishStep
  <1>3. CASE ~(~on /\ db.providers = <<>>)
    <2>1. on \in BOOLEAN
      BY <1>1, Busy, InputFields
    <2>2. c \in Cmd /\ c.op = "flag" /\ c.on = on /\ Carries(req[r].in, c)
      BY <1>1, <2>1 DEF Cmd, Carries
    <2>3. Fits(db, c)
      BY <1>3, <2>2 DEF Fits
    <2>4. Propose(r, c)
      BY <1>1, <1>3
    <2> HIDE DEF c
    <2> QED
      BY <1>1, <2>2, <2>3, <2>4, ProposeStep
  <1> QED
    BY <1>2, <1>3

\* A list that may be stored leaves a way to log in.
LEMMA MayStoreFits ==
  ASSUME NEW c, c.op = "oidc", MayStore(db, c.list)
  PROVE  Fits(db, c)
  BY DEF Fits

LEMMA updateAllOIDCProvidersStep ==
  ASSUME AInv, NEW r \in Requests, updateAllOIDCProviders(r)
  PROVE  AInv'
  <1> DEFINE list == req[r].in.list
             c == [op |-> "oidc", list |-> list]
  <1>1. /\ req[r].pc # "idle" /\ req[r].in.kind = "setall" /\ ReadOnly
        /\ IF MayStore(db, list) THEN Propose(r, c) ELSE Finish(r)
    BY DEF updateAllOIDCProviders, At
  <1>2. CASE ~MayStore(db, list)
    BY <1>1, <1>2, FinishStep
  <1>3. CASE MayStore(db, list)
    <2>1. list \in Seq(Providers)
      BY <1>1, Busy, InputFields
    <2> HIDE DEF list
    <2>2. c \in Cmd /\ c.op = "oidc" /\ c.list = list /\ Carries(req[r].in, c)
      BY <1>1, <2>1 DEF Cmd, Carries
    <2>3. Propose(r, c)
      BY <1>1, <1>3 DEF list
    <2> HIDE DEF c
    <2>4. Fits(db, c)
      BY <1>3, <2>2, MayStoreFits
    <2> QED
      BY <1>1, <2>2, <2>3, <2>4, ProposeStep
  <1> QED
    BY <1>2, <1>3

LEMMA updateOIDCProviderStep ==
  ASSUME AInv, NEW r \in Requests, updateOIDCProvider(r)
  PROVE  AInv'
  <1> DEFINE list == Upsert(db.providers, req[r].in.key, req[r].in.with)
             c == [op |-> "oidc", list |-> list]
  <1>1. req[r].pc # "idle" /\ req[r].in.kind = "put" /\ ReadOnly /\ Propose(r, c)
    BY DEF updateOIDCProvider, At
  <1>2. db.providers \in Seq(Providers) /\ req[r].in.with \in Providers
    BY <1>1, Busy, InputFields DEF Records
  <1>3. list \in Seq(Providers) /\ list # <<>>
    BY <1>2, UpsertType
  <1> HIDE DEF list
  <1>4. c \in Cmd /\ c.op = "oidc" /\ c.list = list /\ Carries(req[r].in, c)
    BY <1>1, <1>3 DEF Cmd, Carries
  <1> HIDE DEF c
  <1>5. Fits(db, c)
    BY <1>3, <1>4 DEF Fits, MayStore
  <1> QED
    BY <1>1, <1>4, <1>5, ProposeStep

LEMMA deleteOIDCProviderStep ==
  ASSUME AInv, NEW r \in Requests, deleteOIDCProvider(r)
  PROVE  AInv'
  <1> DEFINE list == Without(db.providers, req[r].in.key)
             c == [op |-> "oidc", list |-> list]
             x == [req[r] EXCEPT !.pc = "check", !.cmd = c]
  <1>1. /\ req[r].pc # "idle" /\ req[r].in.kind = "drop" /\ ReadOnly
        /\ req' = [req EXCEPT ![r] = x]
    BY DEF deleteOIDCProvider, At
  <1>2. db.providers \in Seq(Providers) /\ req[r] \in Active
    BY <1>1, Busy DEF Records
  <1>3. list \in Seq(Providers)
    BY <1>2, WithoutType
  <1> HIDE DEF list
  <1>4. c \in Cmd /\ c.op = "oidc"
    BY <1>3 DEF Cmd
  <1> HIDE DEF c
  <1>5. x \in Active /\ x.pc = "check" /\ x.in = req[r].in /\ x.cmd = c
    BY <1>2, <1>4 DEF Active
  <1> HIDE DEF x
  <1>6. Flow(x) /\ Current(db, x)
    BY <1>1, <1>4, <1>5 DEF Flow, Current
  <1> QED
    BY <1>1, <1>5, <1>6, Busy, ReadStep

LEMMA CheckLastProviderStep ==
  ASSUME AInv, NEW r \in Requests, CheckLastProvider(r)
  PROVE  AInv'
  <1> DEFINE c == req[r].cmd
  <1>1. /\ req[r].pc = "check" /\ req[r].pc # "idle" /\ ReadOnly
        /\ IF MayStore(db, c.list) THEN Goto(r, "apply") ELSE Finish(r)
    BY DEF CheckLastProvider, At
  <1>2. c.op = "oidc" /\ Carries(req[r].in, c)
    BY <1>1, Busy DEF Flow, Carries
  <1>3. CASE ~MayStore(db, c.list)
    BY <1>1, <1>3, FinishStep
  <1>4. CASE MayStore(db, c.list)
    <2>1. Fits(db, c) /\ Goto(r, "apply")
      BY <1>1, <1>2, <1>4, MayStoreFits
    <2> QED
      BY <1>1, <1>2, <2>1, GotoStep
  <1> QED
    BY <1>3, <1>4

LEMMA BumpReadStep ==
  ASSUME AInv, NEW r \in Requests, BumpRead(r)
  PROVE  AInv'
  <1> DEFINE c == [op |-> "epoch", epoch |-> db.epoch + 1]
             x == [req[r] EXCEPT !.pc = "bump", !.cmd = c]
  <1>1. req[r].pc # "idle" /\ ReadOnly /\ req' = [req EXCEPT ![r] = x]
    BY DEF BumpRead
  <1>2. db.epoch \in Nat /\ req[r] \in Active
    BY <1>1, Busy DEF Records
  <1>3. c \in Cmd /\ c.op = "epoch" /\ c.epoch = db.epoch + 1
    BY <1>2 DEF Cmd
  <1> HIDE DEF c
  <1>4. x \in Active /\ x.pc = "bump" /\ x.cmd = c
    BY <1>2, <1>3 DEF Active
  <1> HIDE DEF x
  <1>5. Flow(x) /\ Current(db, x)
    BY <1>3, <1>4 DEF Flow, Current
  <1> QED
    BY <1>1, <1>4, <1>5, Busy, ReadStep

--------------------------------------------------------------------------------
(* Steps that apply a command                                               *)

LEMMA ApplyAuth ==
  ASSUME NEW d \in Records, NEW c \in Cmd, c.op \in {"flag", "oidc"}
  PROVE  LET e == Apply(d, c)
         IN  /\ e.users = d.users /\ e.index = d.index
             /\ c.op = "flag" => e.providers = d.providers /\ e.flag = IF c.on THEN "on" ELSE "off"
             /\ c.op = "oidc" => e.providers = c.list /\ e.flag = d.flag
  <1>1. CASE c.op = "flag"
    BY <1>1 DEF Apply, Records
  <1>2. CASE c.op = "oidc"
    <2>1. Apply(d, c) = [d EXCEPT !.providers = c.list]
      BY <1>2 DEF Apply
    <2> QED
      BY <1>2, <2>1 DEF Records
  <1> QED
    BY <1>1, <1>2

\* A user command that fits the records keeps the index and an administrator.
LEMMA ApplyUserRecords ==
  ASSUME TypeInv, UsersInv, NEW c \in Cmd, c.op \in {"create", "update", "delete"},
         Fits(db, c), db' = Apply(db, c)
  PROVE  UsersInv'
  <1>0. db \in Records
    BY DEF TypeInv
  <1> DEFINE set == c.op = "update" \/ (c.op = "create" /\ ~UserExists(db, c.id))
  <1>1. c.op \in {"create", "update"} => c.user \in User /\ c.user.name \in Names /\ c.user # NoUser
    BY CmdFields, UserFields
  <1>2. c.id \in Names /\ db.users[c.id] \in User \cup {NoUser}
    BY <1>0, CmdFields DEF Records
  <1>3. c.op = "update" => c.old # c.user.name
    BY <1>1, UserFields DEF Fits
  <1>4. /\ db'.flag = db.flag /\ db'.providers = db.providers
        /\ \A n \in Names : db'.users[n] = IF n = c.id /\ set THEN c.user
                                           ELSE IF n = c.id /\ c.op = "delete" THEN NoUser
                                           ELSE db.users[n]
        /\ \A n \in Names : db'.index[n] =
             IF \/ c.op = "delete" /\ n = c.name
                \/ c.op = "update" /\ n = c.old THEN NoName
             ELSE IF set /\ n = c.user.name THEN c.id ELSE db.index[n]
    BY <1>0, <1>3, ApplyUsers
  <1>6. IndexSound'
    <2> SUFFICES ASSUME NEW n \in Names, db'.index[n] # NoName
                 PROVE  db'.users[db'.index[n]] # NoUser /\ db'.users[db'.index[n]].name = n
      BY DEF IndexSound, UserExists
    <2>1. CASE set /\ n = c.user.name
      <3>1. db'.index[n] = c.id
        BY <1>4, <2>1
      <3>2. db'.users[c.id] = c.user
        BY <1>2, <1>4, <2>1
      <3> QED
        BY <1>1, <2>1, <3>1, <3>2
    <2>2. CASE ~(set /\ n = c.user.name)
      <3>1. /\ db'.index[n] = db.index[n] /\ db.index[n] # NoName
            /\ ~(c.op = "delete" /\ n = c.name) /\ ~(c.op = "update" /\ n = c.old)
        BY <1>4, <2>2
      <3>2. /\ db.index[n] \in Names /\ db.users[db.index[n]] # NoUser
            /\ db.users[db.index[n]].name = n
        BY <1>0, <3>1 DEF UsersInv, IndexSound, UserExists, Records
      <3>3. db.index[n] # c.id \/ (c.op = "create" /\ UserExists(db, c.id))
        <4>1. c.op = "create" /\ db.index[n] = c.id => UserExists(db, c.id)
          BY <3>2 DEF UserExists
        <4>2. c.op = "delete" => db.index[n] # c.id
          BY <3>1, <3>2 DEF Fits
        <4>3. c.op = "update" => db.index[n] # c.id
          <5>1. c.op = "update" => n # c.user.name
            BY <2>2
          <5> QED
            BY <3>1, <3>2, <5>1 DEF Fits
        <4> QED
          BY <4>1, <4>2, <4>3
      <3>4. db'.users[db.index[n]] = db.users[db.index[n]]
        BY <1>4, <3>2, <3>3
      <3> QED
        BY <3>1, <3>2, <3>4
    <2> QED
      BY <2>1, <2>2
  <1>7. AdminRemains'
    <2>1. PICK a \in Names : db.users[a].admin
      BY DEF UsersInv, AdminRemains
    <2>2. CASE a # c.id \/ (c.op = "create" /\ UserExists(db, c.id))
      <3>1. db'.users[a] = db.users[a]
        BY <1>4, <2>2
      <3> QED
        BY <2>1, <3>1 DEF AdminRemains
    <2>3. CASE a = c.id /\ c.op = "create" /\ ~UserExists(db, c.id)
      BY <1>2, <2>1, <2>3, UserFields DEF UserExists
    <2>4. CASE a = c.id /\ c.op = "update"
      <3>1. db'.users[a] = c.user
        BY <1>4, <2>4
      <3>2. c.user.admin
        BY <2>1, <2>4 DEF Fits
      <3> QED
        BY <3>1, <3>2 DEF AdminRemains
    <2>5. CASE a = c.id /\ c.op = "delete"
      <3>1. PICK b \in Names : db.users[b].admin /\ b # c.id
        BY <2>1, <2>5 DEF Fits, MayDelete, OtherAdmins
      <3>2. db'.users[b] = db.users[b]
        BY <1>4, <3>1
      <3> QED
        BY <3>1, <3>2 DEF AdminRemains
    <2> QED
      BY <2>2, <2>3, <2>4, <2>5
  <1> QED
    BY <1>6, <1>7 DEF UsersInv

\* A flag or a list that fits the records leaves a way to log in.
LEMMA ApplyAuthRecords ==
  ASSUME TypeInv, ProviderRemains, NEW c \in Cmd, c.op \in {"flag", "oidc"},
         Fits(db, c), db' = Apply(db, c)
  PROVE  ProviderRemains'
  <1>1. db \in Records
    BY DEF TypeInv
  <1>2. CASE c.op = "flag"
    <2>1. db'.providers = db.providers /\ db'.flag = IF c.on THEN "on" ELSE "off"
      BY <1>1, <1>2, ApplyAuth
    <2>2. c.on \/ db.providers # <<>>
      BY <1>2 DEF Fits
    <2> QED
      BY <2>1, <2>2 DEF ProviderRemains, ValidateAuthConfig
  <1>3. CASE c.op = "oidc"
    <2>1. db'.providers = c.list /\ db'.flag = db.flag
      BY <1>1, <1>3, ApplyAuth
    <2>2. c.list # <<>> \/ db.flag # "off"
      BY <1>3 DEF Fits, MayStore, IsInternalAuthEnabled
    <2> QED
      BY <2>1, <2>2 DEF ProviderRemains, ValidateAuthConfig
  <1> QED
    BY <1>2, <1>3

\* What a request has found out stays true while its basis does.
LEMMA CurrentKept ==
  ASSUME NEW d, NEW e, NEW q \in Active, Flow(q), HasRead(q),
         Basis(e, q) = Basis(d, q), Current(d, q)
  PROVE  Current(e, q)
  <1>1. q.in \in Input /\ q.in.kind \in {"create", "update", "bind", "delete", "flag",
                                         "setall", "put", "drop"}
    BY InputFields DEF Active
  <1>2. CASE q.pc = "bump"
    <2>1. e.epoch = d.epoch
      BY <1>2 DEF Basis
    <2> QED
      BY <1>2, <2>1 DEF Current
  <1>3. CASE q.pc \in {"again", "save"}
    <2>1. e.users[q.in.id] = d.users[q.in.id]
      BY <1>1, <1>3 DEF Basis, Flow
    <2> QED
      BY <1>3, <2>1 DEF Current
  <1>4. CASE q.pc \in {"count", "check", "idle", "read", "epoch"}
    BY <1>4 DEF Current
  <1>5. CASE q.pc = "remove"
    <2>1. e.users[q.in.id] = d.users[q.in.id] /\ OtherAdmins(e, q.in.id) = OtherAdmins(d, q.in.id)
      BY <1>5 DEF Basis, Flow
    <2> QED
      BY <1>5, <2>1 DEF Current, MayDelete
  <1>6. CASE q.pc = "apply"
    <2>1. Carries(q.in, q.cmd) /\ Fits(d, q.cmd)
      BY <1>6 DEF Flow, Current
    <2> SUFFICES Fits(e, q.cmd)
      BY <1>6 DEF Current
    <2>2. CASE q.in.kind = "create"
      BY <2>1, <2>2 DEF Fits, Carries
    <2>3. CASE q.in.kind \in {"update", "bind"}
      <3>1. /\ e.users[q.cmd.id] = d.users[q.cmd.id]
            /\ q.cmd.op = "update"
        BY <1>6, <2>1, <2>3 DEF Basis, Carries
      <3> QED
        BY <2>1, <3>1 DEF Fits
    <2>4. CASE q.in.kind = "delete"
      <3>1. /\ e.users[q.cmd.id] = d.users[q.cmd.id] /\ q.cmd.op = "delete"
            /\ OtherAdmins(e, q.cmd.id) = OtherAdmins(d, q.cmd.id)
        BY <1>6, <2>1, <2>4 DEF Basis, Carries
      <3> QED
        BY <2>1, <3>1 DEF Fits, MayDelete
    <2>5. CASE q.in.kind = "flag"
      <3>1. e.providers = d.providers /\ q.cmd.op = "flag"
        BY <1>6, <2>1, <2>5 DEF Basis, Carries
      <3> QED
        BY <2>1, <3>1 DEF Fits
    <2>6. CASE q.in.kind = "put"
      BY <2>1, <2>6 DEF Fits, Carries, MayStore
    <2>7. CASE q.in.kind = "setall"
      <3>1. IsInternalAuthEnabled(e) = IsInternalAuthEnabled(d) /\ q.cmd.op = "oidc"
        BY <1>6, <2>1, <2>7 DEF Basis, Carries
      <3> QED
        BY <2>1, <3>1, Zenon DEF Fits, MayStore
    <2>8. CASE q.in.kind = "drop"
      <3>1. IsInternalAuthEnabled(e) = IsInternalAuthEnabled(d) /\ q.cmd.op = "oidc"
        BY <1>6, <2>1, <2>8 DEF Basis, Carries
      <3> QED
        BY <2>1, <3>1, Zenon DEF Fits, MayStore
    <2> QED
      BY <1>1, <2>2, <2>3, <2>4, <2>5, <2>6, <2>7, <2>8
  <1> QED
    BY <1>2, <1>3, <1>4, <1>5, <1>6 DEF Active

\* A request whose command is applied, or fails, goes on with x and has yet
\* to read; the others are stale or rest on what did not change.
LEMMA WriteStep ==
  ASSUME AInv, NEW r \in Requests, NEW x \in {Idle} \cup Active, Flow(x),
         x.pc \in {"idle", "epoch"}, req' = [req EXCEPT ![r] = x], db' \in Records,
         UNCHANGED <<login, sessions, left>>, dead' \in {dead, dead \cup sessions},
         UNCHANGED <<db, stale, raced>> \/ Overtakes(r),
         "users" \in raced' \/ UsersInv', "auth" \in raced' \/ ProviderRemains',
         "epoch" \in raced' \/ EpochInv'
  PROVE  AInv'
  <1>1. req \in [Requests -> {Idle} \cup Active]
    BY DEF AInv, TypeInv
  <1>2. /\ req' \in [Requests -> {Idle} \cup Active]
        /\ \A q \in Requests : req'[q] = IF q = r THEN x ELSE req[q]
    BY <1>1
  <1>3. stale' \subseteq Requests /\ raced' \subseteq {"users", "auth", "epoch"}
    <2>1. Group(req[r]) \in {"users", "auth", "epoch"}
      BY DEF Group
    <2> QED
      BY <2>1 DEF AInv, TypeInv, Overtakes
  <1>4. TypeInv'
    BY <1>2, <1>3 DEF AInv, TypeInv
  <1>5. FlowInv'
    BY <1>2 DEF AInv, FlowInv
  <1>6. ASSUME NEW q \in Requests, q \notin stale' PROVE Current(db', req'[q])
    <2>1. CASE q = r
      BY <1>2, <2>1 DEF Current
    <2>2. CASE q # r /\ UNCHANGED <<db, stale, raced>>
      BY <1>2, <1>6, <2>2 DEF AInv, RaceInv
    <2>3. CASE q # r /\ Overtakes(r)
      <3>1. /\ q \notin stale /\ req'[q] = req[q]
            /\ HasRead(req[q]) => Basis(db', req[q]) = Basis(db, req[q])
        BY <1>2, <1>6, <2>3 DEF Overtakes
      <3>2. Flow(req[q]) /\ Current(db, req[q]) /\ req[q] \in {Idle} \cup Active
        BY <1>1, <3>1 DEF AInv, FlowInv, RaceInv
      <3>3. CASE HasRead(req[q])
        <4>1. req[q] \in Active
          BY <3>2, <3>3, IdleFits DEF HasRead
        <4> QED
          BY <3>1, <3>2, <3>3, <4>1, CurrentKept
      <3>4. CASE ~HasRead(req[q])
        BY <3>1, <3>4 DEF HasRead, Current
      <3> QED
        BY <3>3, <3>4
    <2> QED
      BY <2>1, <2>2, <2>3
  <1> QED
    BY <1>4, <1>5, <1>6 DEF AInv, RaceInv

LEMMA EpochKept ==
  ASSUME EpochInv, UNCHANGED <<sessions, dead>>, db'.epoch = db.epoch
  PROVE  EpochInv'
  BY DEF EpochInv

LEMMA UsersKept ==
  ASSUME UsersInv, db'.users = db.users, db'.index = db.index
  PROVE  UsersInv'
  BY DEF UsersInv, IndexSound, AdminRemains, UserExists

LEMMA AuthKept ==
  ASSUME ProviderRemains, db'.flag = db.flag, db'.providers = db.providers
  PROVE  ProviderRemains'
  BY DEF ProviderRemains, ValidateAuthConfig

\* The group of a command that is applied, and when that is a race.
LEMMA RacedBy ==
  ASSUME AInv, NEW r \in Requests, Overtakes(r), req[r].pc \in {"apply", "bump"}
  PROVE  /\ raced \subseteq raced'
         /\ r \in stale =>
              /\ req[r].pc = "bump" => "epoch" \in raced'
              /\ req[r].pc = "apply" =>
                   IF req[r].cmd.op \in {"create", "update", "delete"}
                   THEN "users" \in raced' ELSE "auth" \in raced'
         /\ req[r].pc = "apply" =>
              req[r].cmd.op \in {"create", "update", "delete", "flag", "oidc"}
  <1>1. req[r].pc # "idle"
    OBVIOUS
  <1>2. /\ req[r].in.kind \in {"create", "update", "bind", "delete", "flag", "setall", "put", "drop"}
        /\ Flow(req[r])
    BY <1>1, Busy, InputFields
  <1>3. req[r].pc = "apply" => Carries(req[r].in, req[r].cmd)
    BY <1>2 DEF Flow
  <1>4. /\ req[r].pc = "bump" => Group(req[r]) = "epoch"
        /\ req[r].pc = "apply" /\ req[r].cmd.op \in {"create", "update", "delete"} =>
             Group(req[r]) = "users"
        /\ req[r].pc = "apply" /\ req[r].cmd.op \notin {"create", "update", "delete"} =>
             Group(req[r]) = "auth"
    BY <1>2, <1>3 DEF Group, Carries
  <1> QED
    BY <1>2, <1>3, <1>4 DEF Overtakes, Carries

LEMMA ApplySteps ==
  ASSUME AInv, NEW r \in Requests, ApplyCommand(r) \/ ApplyFails(r)
  PROVE  AInv'
  <1> DEFINE c == req[r].cmd
  <1>1. /\ req[r].pc = "apply" /\ req[r].pc # "idle" /\ UNCHANGED <<login, sessions, dead, left>>
        /\ \/ UNCHANGED <<db, stale, raced>>
           \/ db' = Apply(db, c) /\ Overtakes(r)
        /\ Finish(r) \/ Goto(r, "epoch")
    BY DEF ApplyCommand, ApplyFails
  <1>2. /\ c \in Cmd /\ c.op \in {"create", "update", "delete", "flag", "oidc"}
        /\ db \in Records /\ req[r] \in Active
    <2>1. Carries(req[r].in, c)
      BY <1>1, Busy DEF Flow
    <2> QED
      BY <1>1, <2>1, Busy, InputFields DEF Carries
  <1>3. Apply(db, c) \in Records /\ Apply(db, c).epoch = db.epoch
    BY <1>2, ApplyType
  <1>4. db' \in Records /\ db'.epoch = db.epoch
    BY <1>1, <1>2, <1>3
  <1>5. /\ "users" \in raced' \/ UsersInv'
        /\ "auth" \in raced' \/ ProviderRemains'
        /\ "epoch" \in raced' \/ EpochInv'
    <2>0. /\ "users" \in raced \/ UsersInv
          /\ "auth" \in raced \/ ProviderRemains
          /\ "epoch" \in raced \/ EpochInv
          /\ r \in stale \/ Fits(db, c)
      BY <1>1 DEF AInv, RaceInv, Current
    <2>1. CASE UNCHANGED <<db, stale, raced>>
      BY <1>1, <2>0, <2>1, UsersKept, AuthKept, EpochKept
    <2>2. CASE db' = Apply(db, c) /\ Overtakes(r)
      <3>1. /\ raced \subseteq raced'
            /\ r \in stale => IF c.op \in {"create", "update", "delete"}
                              THEN "users" \in raced' ELSE "auth" \in raced'
        BY <1>1, <2>2, RacedBy
      <3>2. "epoch" \in raced' \/ EpochInv'
        BY <1>1, <1>4, <2>0, <3>1, EpochKept
      <3>3. CASE c.op \in {"create", "update", "delete"}
        <4>1. db'.flag = db.flag /\ db'.providers = db.providers
          BY <1>2, <2>2, <3>3, ApplyUsers
        <4>2. "auth" \in raced' \/ ProviderRemains'
          BY <2>0, <3>1, <4>1, AuthKept
        <4>3. "users" \in raced' \/ UsersInv'
          BY <1>2, <2>0, <2>2, <3>1, <3>3, ApplyUserRecords DEF AInv
        <4> QED
          BY <3>2, <4>2, <4>3
      <3>4. CASE c.op \in {"flag", "oidc"}
        <4>1. db'.users = db.users /\ db'.index = db.index
          BY <1>2, <2>2, <3>4, ApplyAuth
        <4>2. "users" \in raced' \/ UsersInv'
          BY <2>0, <3>1, <4>1, UsersKept
        <4>3. c.op \notin {"create", "update", "delete"}
          BY <3>4
        <4>4. "auth" \in raced' \/ ProviderRemains'
          BY <1>2, <2>0, <2>2, <3>1, <3>4, <4>3, ApplyAuthRecords DEF AInv
        <4> QED
          BY <3>2, <4>2, <4>4
      <3> QED
        BY <1>2, <3>3, <3>4
    <2> QED
      BY <1>1, <2>1, <2>2
  <1>6. UNCHANGED <<db, stale, raced>> \/ Overtakes(r)
    BY <1>1
  <1>7. CASE Finish(r)
    BY <1>1, <1>4, <1>5, <1>6, <1>7, IdleFits, WriteStep DEF Finish
  <1>8. CASE Goto(r, "epoch")
    <2> DEFINE x == [req[r] EXCEPT !.pc = "epoch"]
    <2>1. x \in Active /\ x.pc = "epoch" /\ req' = [req EXCEPT ![r] = x]
      BY <1>2, <1>8 DEF Active, Goto
    <2> HIDE DEF x
    <2>2. Flow(x)
      BY <2>1 DEF Flow
    <2> QED
      BY <1>1, <1>4, <1>5, <1>6, <2>1, <2>2, WriteStep
  <1> QED
    BY <1>1, <1>7, <1>8

LEMMA BumpSteps ==
  ASSUME AInv, NEW r \in Requests, BumpApply(r) \/ BumpFails(r)
  PROVE  AInv'
  <1> DEFINE c == req[r].cmd
  <1>1. /\ req[r].pc = "bump" /\ req[r].pc # "idle" /\ UNCHANGED <<login, sessions, left>>
        /\ \/ UNCHANGED <<db, dead, stale, raced>>
           \/ db' = Apply(db, c) /\ Overtakes(r) /\ dead' = dead \cup sessions
        /\ req' = [req EXCEPT ![r] = Idle]
    BY DEF BumpApply, BumpFails, Finish
  <1>2. c \in Cmd /\ c.op = "epoch" /\ db \in Records
    BY <1>1, Busy DEF Flow
  <1>3. /\ Apply(db, c) \in Records /\ Apply(db, c).epoch = c.epoch
        /\ Apply(db, c) = [db EXCEPT !.epoch = c.epoch]
    BY <1>2, ApplyType
  <1>0. /\ "users" \in raced \/ UsersInv
        /\ "auth" \in raced \/ ProviderRemains
        /\ "epoch" \in raced \/ EpochInv
        /\ r \in stale \/ c.epoch = db.epoch + 1
    BY <1>1 DEF AInv, RaceInv, Current
  <1>4. CASE UNCHANGED <<db, dead, stale, raced>>
    <2>1. /\ "users" \in raced' \/ UsersInv'
          /\ "auth" \in raced' \/ ProviderRemains'
          /\ "epoch" \in raced' \/ EpochInv'
      BY <1>0, <1>1, <1>4, UsersKept, AuthKept, EpochKept
    <2> QED
      BY <1>1, <1>2, <1>4, <2>1, IdleFits, WriteStep
  <1>5. CASE db' = Apply(db, c) /\ Overtakes(r) /\ dead' = dead \cup sessions
    <2>1. /\ db'.users = db.users /\ db'.index = db.index /\ db'.flag = db.flag
          /\ db'.providers = db.providers /\ db'.epoch = c.epoch
      BY <1>2, <1>3, <1>5 DEF Records
    <2>2. raced \subseteq raced' /\ (r \in stale => "epoch" \in raced')
      BY <1>1, <1>5, RacedBy
    <2>3. ASSUME "epoch" \notin raced' PROVE EpochInv'
      <3>1. c.epoch = db.epoch + 1 /\ db.epoch \in Nat /\ EpochInv
        BY <1>0, <1>2, <2>2, <2>3 DEF Records
      <3>2. \A s \in sessions : s.epoch \in Nat /\ s.epoch <= db.epoch
        BY <3>1 DEF EpochInv, AInv, TypeInv, Session
      <3>3. dead \subseteq sessions
        BY DEF AInv, TypeInv
      <3> QED
        BY <1>1, <1>5, <2>1, <3>1, <3>2, <3>3 DEF EpochInv
    <2>4. "users" \in raced' \/ UsersInv'
      BY <1>0, <2>1, <2>2, UsersKept
    <2>5. "auth" \in raced' \/ ProviderRemains'
      BY <1>0, <2>1, <2>2, AuthKept
    <2> QED
      BY <1>1, <1>3, <1>5, <2>3, <2>4, <2>5, IdleFits, WriteStep
  <1> QED
    BY <1>1, <1>4, <1>5

--------------------------------------------------------------------------------
(* Logins                                                                   *)

LEMMA LoginStep ==
  ASSUME AInv, UNCHANGED <<db, req, dead, stale, raced>>, login' \in [Logins -> LoginState],
         sessions' \subseteq Session, IsFiniteSet(sessions'), sessions \subseteq sessions',
         \A s \in sessions' : s \in sessions \/ s.epoch = db.epoch,
         left' \in 0 .. MaxRequests
  PROVE  AInv'
  <1>1. TypeInv' /\ FlowInv'
    BY DEF AInv, TypeInv, FlowInv
  <1>2. db.epoch \in Nat
    BY DEF AInv, TypeInv, Records
  <1>3. EpochInv => EpochInv'
    BY <1>2 DEF EpochInv
  <1>4. RaceInv'
    BY <1>3, UsersKept, AuthKept DEF AInv, RaceInv
  <1> QED
    BY <1>1, <1>4 DEF AInv

LEMMA LoginSteps ==
  ASSUME AInv, NEW l \in Logins, CheckPassword(l) \/ LookupUser(l) \/ MintSession(l)
  PROVE  AInv'
  <1>1. /\ db \in Records /\ login \in [Logins -> LoginState] /\ left \in 0 .. MaxRequests
        /\ sessions \subseteq Session /\ IsFiniteSet(sessions)
    BY DEF AInv, TypeInv
  <1>2. CASE CheckPassword(l)
    <2>1. PICK id \in Names :
            /\ UserExists(db, id)
            /\ login' = [login EXCEPT ![l] = [pc |-> "lookup", name |-> db.users[id].name]]
      BY <1>2 DEF CheckPassword
    <2>2. db.users[id].name \in Names
      BY <1>1, <2>1, UserFields DEF Records, UserExists
    <2>3. [pc |-> "lookup", name |-> db.users[id].name] \in LoginState
      BY <2>2 DEF LoginState
    <2>4. login' \in [Logins -> LoginState]
      BY <1>1, <2>1, <2>3
    <2>5. left' \in 0 .. MaxRequests /\ UNCHANGED <<db, req, dead, stale, raced, sessions>>
      BY <1>1, <1>2, AccountsAssumption DEF CheckPassword
    <2> QED
      BY <1>1, <2>4, <2>5, LoginStep
  <1>3. CASE LookupUser(l)
    <2> DEFINE id == GetUserByUsername(db, login[l].name)
               x == IF id = NoName THEN NoLogin
                    ELSE [pc |-> "mint", user |-> id, name |-> db.users[id].name]
    <2>1. login[l] \in LoginState /\ login[l].pc = "lookup" /\ login' = [login EXCEPT ![l] = x]
      BY <1>1, <1>3 DEF LookupUser
    <2>2. login[l].name \in Names
      BY <2>1 DEF LoginState, NoLogin
    <2>3. id \in Names \cup {NoName} /\ (id # NoName => db.users[id] # NoUser)
      BY <1>1, <2>2 DEF GetUserByUsername, UserExists, Records
    <2> HIDE DEF id
    <2>4. x \in LoginState
      <3>1. CASE id = NoName
        BY <3>1 DEF LoginState
      <3>2. CASE id # NoName
        <4>1. id \in Names /\ db.users[id].name \in Names
          BY <1>1, <2>3, <3>2, UserFields DEF Records
        <4> QED
          BY <3>2, <4>1 DEF LoginState
      <3> QED
        BY <3>1, <3>2
    <2> HIDE DEF x
    <2>5. login' \in [Logins -> LoginState]
      BY <1>1, <2>1, <2>4
    <2>6. UNCHANGED <<db, req, dead, stale, raced, sessions, left>>
      BY <1>3 DEF LookupUser
    <2> QED
      BY <1>1, <2>5, <2>6, LoginStep
  <1>4. CASE MintSession(l)
    <2> DEFINE s == [sid |-> Cardinality(sessions) + 1, user |-> login[l].user,
                     name |-> login[l].name, epoch |-> db.epoch]
    <2>1. /\ login[l] \in LoginState /\ login[l].pc = "mint" /\ sessions' = sessions \cup {s}
          /\ login' = [login EXCEPT ![l] = NoLogin] /\ UNCHANGED <<db, req, dead, stale, raced, left>>
      BY <1>1, <1>4 DEF MintSession
    <2>2. login[l].user \in Names /\ login[l].name \in Names
      BY <2>1 DEF LoginState, NoLogin
    <2>3. s \in Session /\ s.epoch = db.epoch
      <3>1. Cardinality(sessions) \in Nat /\ db.epoch \in Nat
        BY <1>1, FS_CardinalityType DEF Records
      <3> QED
        BY <2>2, <3>1 DEF Session
    <2> HIDE DEF s
    <2>4. IsFiniteSet(sessions')
      BY <1>1, <2>1, FS_AddElement
    <2>5. login' \in [Logins -> LoginState]
      BY <1>1, <2>1 DEF LoginState
    <2> QED
      BY <1>1, <2>1, <2>3, <2>4, <2>5, LoginStep
  <1> QED
    BY <1>2, <1>3, <1>4

LEMMA NextAInv == AInv /\ [Next]_vars => AInv'
  <1> SUFFICES ASSUME AInv, [Next]_vars PROVE AInv'
    OBVIOUS
  <1>1. CASE UNCHANGED vars
    BY <1>1, LoginStep DEF vars, AInv, TypeInv
  <1>2. ASSUME NEW r \in Requests, Begin(r) \/ Handler(r) PROVE AInv'
    BY <1>2, BeginStep, createUserStep, updateUserStep, updateBindingStep,
       UpdateUserBindingStep, SaveUserStep, deleteUserStep, CountAdminsStep, RemoveUserStep,
       SetInternalAuthEnabledStep, updateAllOIDCProvidersStep, updateOIDCProviderStep,
       deleteOIDCProviderStep, CheckLastProviderStep, ApplySteps, BumpReadStep, BumpSteps,
       Zenon DEF Handler
  <1>3. CASE Quiet
    BY <1>1, <1>3 DEF Quiet
  <1> QED
    BY <1>1, <1>2, <1>3, LoginSteps, Zenon DEF Next

LEMMA Inductive == Spec => []AInv
  BY InitAInv, NextAInv, PTL DEF Spec

--------------------------------------------------------------------------------
(* Theorems                                                                 *)

\* However many requests and logins overlap, the records and what a handler
\* carries from one access to the next stay typed; in particular updateUser
\* never proposes a record without a user name.
THEOREM AccountsTypeCorrect == Spec => []AccountsTypeOK
  <1>1. AInv => AccountsTypeOK
    <2> SUFFICES ASSUME AInv PROVE AccountsTypeOK
      OBVIOUS
    <2>1. /\ db.users \in [Names -> User \cup {NoUser}]
          /\ db.index \in [Names -> Names \cup {NoName}]
          /\ db.epoch \in Nat /\ db.flag \in {"unset", "on", "off"}
          /\ db.providers \in Seq(Providers)
      BY DEF AInv, TypeInv, Records
    <2>2. ASSUME NEW r \in Requests, req[r] # Idle
          PROVE  /\ req[r].pc \in {"read", "again", "save", "count", "remove", "check",
                                   "apply", "epoch", "bump"}
                 /\ req[r].in \in Input
                 /\ req[r].user \in User \cup {NoUser}
                 /\ req[r].cmd \in Cmd
      BY <2>2 DEF AInv, TypeInv, Active
    <2>3. /\ \A l \in Logins : login[l] \in LoginState
          /\ sessions \subseteq Session /\ dead \subseteq sessions
          /\ stale \subseteq Requests /\ raced \subseteq {"users", "auth", "epoch"}
          /\ left \in 0 .. MaxRequests
      BY DEF AInv, TypeInv
    <2> QED
      BY <2>1, <2>2, <2>3, Zenon DEF AccountsTypeOK, LoginState
  <1> QED
    BY <1>1, Inductive, PTL

\* However requests overlap, no create, rename or delete leaves an index entry
\* that points at a missing user or at one of another name, unless a command
\* about users was applied after another request changed what it rests on.
THEOREM IndexStaysSound == Spec => []IndexLostOnlyByRace
  <1>1. AInv => IndexLostOnlyByRace
    BY DEF AInv, RaceInv, UsersInv, IndexLostOnlyByRace
  <1> QED
    BY <1>1, Inductive, PTL

\* However requests overlap, the checks of updateUser, updateBinding and
\* deleteUser leave an administrator, unless one of them is overtaken between
\* its reads and its command.
THEOREM AdminAlwaysRemains == Spec => []AdminLostOnlyByRace
  <1>1. AInv => AdminLostOnlyByRace
    BY DEF AInv, RaceInv, UsersInv, AdminLostOnlyByRace
  <1> QED
    BY <1>1, Inductive, PTL

\* However requests overlap, SetInternalAuthEnabled and the provider handlers
\* leave a way to log in, unless one is overtaken between check and write.
THEOREM ProviderAlwaysRemains == Spec => []ProviderLostOnlyByRace
  <1>1. AInv => ProviderLostOnlyByRace
    BY DEF AInv, RaceInv, ProviderLostOnlyByRace
  <1> QED
    BY <1>1, Inductive, PTL

\* However requests and logins overlap, a token that was outstanding when
\* BumpAuthEpoch was applied is never accepted again, unless a bump was
\* applied after another one changed the epoch it had read.
THEOREM RevocationIsFinal == Spec => []RevocationLostOnlyByRace
  <1>1. AInv => RevocationLostOnlyByRace
    <2> SUFFICES ASSUME AInv, "epoch" \notin raced, NEW s \in dead PROVE ~Accepted(db, s)
      BY DEF RevocationLostOnlyByRace, RevokedStaysRevoked
    <2>1. s.epoch \in Nat /\ db.epoch \in Nat /\ s.epoch < db.epoch
      BY DEF AInv, RaceInv, EpochInv, TypeInv, Session, Records
    <2> QED
      BY <2>1 DEF Accepted, SessionEpochValid
  <1> QED
    BY <1>1, Inductive, PTL

================================================================================
