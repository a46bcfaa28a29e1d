------------------------------- MODULE Accounts -------------------------------
(***************************************************************************)
(* The account records of the replicated store and the requests that       *)
(* change them: users and their username index, the authentication epoch   *)
(* that revokes sessions, the internal-auth flag and the list of OIDC      *)
(* providers (internal/handler/api.go, internal/service, and the user and  *)
(* auth records of internal/repository/raft.go and fsm.go).                *)
(*                                                                         *)
(* Every HTTP handler is a goroutine that reads the local database in      *)
(* transactions of its own and ends in one replicated command; nothing     *)
(* locks the records between the reads and the command.  A handler is      *)
(* therefore one action per database read and one per command.  The store  *)
(* applies a command in a single transaction (FSM.Apply), so `db' changes  *)
(* atomically.  A command may also fail: refused before it is applied, or  *)
(* applied although its proposer is told that it failed.                   *)
(***************************************************************************)
EXTENDS Integers, Sequences, FiniteSets

CONSTANTS
  Names,       \* user names; the key order of the store is the order of Nat
  Providers,   \* identifiers of OIDC providers
  Requests,    \* administrative requests that can be in progress at once
  Logins,      \* logins that can be in progress at once
  Asked,       \* the administrative requests that are sent
  Stores,      \* the stores that a behaviour starts from
  MayFail,     \* whether a replicated command may fail
  MaxRequests  \* bound: requests and logins started in one behaviour

ASSUME AccountsAssumption ==
  /\ Names \subseteq Nat \ {0}
  /\ IsFiniteSet(Names)
  /\ MayFail \in BOOLEAN
  /\ MaxRequests \in Nat

VARIABLES
  db,        \* the account records of the store
  req,       \* the administrative requests in progress
  login,     \* the logins in progress
  sessions,  \* the session tokens handed out
  dead,      \* history: the tokens outstanding when the epoch was bumped
  stale,     \* history: requests whose basis another request has changed
  raced,     \* history: the groups of records that a stale request wrote
  left       \* requests and logins that may still start

vars == <<db, req, login, sessions, dead, stale, raced, left>>

-------------------------------------------------------------------------------
(* Records                                                                 *)

NoName == 0
User == [name : Names, admin : BOOLEAN]
NoUser == [name |-> NoName, admin |-> FALSE]

\* Bound: the provider lists that one request replaces the whole list with.
ShortLists == {<<>>} \cup {<<p>> : p \in Providers}

(***************************************************************************)
(* What a request asks for.  An empty user name (NoName), role "keep" and  *)
(* reset = FALSE stand for the fields an update leaves out; channels, like *)
(* the password itself, are data no property here tells apart.             *)
(***************************************************************************)
Input ==
  [kind : {"create"}, name : Names, admin : BOOLEAN]
    \cup [kind : {"update"}, id : Names, name : Names \cup {NoName},
          reset : BOOLEAN, role : {"keep", "admin", "plain"}]
    \cup [kind : {"bind"}, id : Names, role : {"admin", "plain"}]
    \cup [kind : {"delete"}, id : Names]
    \cup [kind : {"flag"}, on : BOOLEAN]
    \cup [kind : {"setall"}, list : ShortLists]
    \cup [kind : {"put"}, key : Providers, with : Providers]
    \cup [kind : {"drop"}, key : Providers]

Idle == [pc |-> "idle"]
NoLogin == [pc |-> "idle"]

UserExists(d, id) == d.users[id] # NoUser

-------------------------------------------------------------------------------
(* The state machine's commands, each one transaction                      *)

applyCreateUser(d, c) ==
  IF UserExists(d, c.id) THEN d
  ELSE [d EXCEPT !.users[c.id] = c.user, !.index[c.user.name] = c.id]

\* Variant with a fault: the entry of the old name is left behind.
UpdateUserKeepOld(d, c) ==
  [d EXCEPT !.users[c.id] = c.user, !.index[c.user.name] = c.id]

\* The user record, its index entry, and the removal of the old entry.
UpdateUser(d, c) ==
  [d EXCEPT !.users[c.id] = c.user,
            !.index = [n \in Names |-> CASE n = c.old       -> NoName
                                         [] n = c.user.name -> c.id
                                         [] OTHER           -> d.index[n]]]

DeleteUser(d, c) ==
  [d EXCEPT !.users[c.id] = NoUser, !.index[c.name] = NoName]

Apply(d, c) ==
  CASE c.op = "create" -> applyCreateUser(d, c)
    [] c.op = "update" -> UpdateUser(d, c)
    [] c.op = "delete" -> DeleteUser(d, c)
    [] c.op = "flag"   -> [d EXCEPT !.flag = IF c.on THEN "on" ELSE "off"]
    [] c.op = "oidc"   -> [d EXCEPT !.providers = c.list]
    [] c.op = "epoch"  -> [d EXCEPT !.epoch = c.epoch]

-------------------------------------------------------------------------------
(* What the handlers compute from the records                              *)

\* The flag when it was ever set, otherwise whether there are users.
IsInternalAuthEnabled(d) ==
  IF d.flag = "unset" THEN \E id \in Names : UserExists(d, id)
  ELSE d.flag = "on"

\* The startup check: internal auth is not switched off without a provider.
ValidateAuthConfig(d) == d.flag = "off" => d.providers # <<>>

\* Whether removing the admin role is what the request would do.
RemovesAdmin(u, role) == u.admin /\ role = "plain"

HasRole(u, role) == IF role = "keep" THEN u.admin ELSE role = "admin"

\* Variant with a fault: the user to delete counts as well.
AllAdmins(d, id) == {n \in Names : d.users[n].admin}

OtherAdmins(d, id) == {n \in Names : d.users[n].admin /\ n # id}

\* updateOIDCProvider: the first provider with the identifier is replaced by
\* the one in the body, which is appended when there is none.
Upsert(list, key, with) ==
  IF \E i \in DOMAIN list : list[i] = key
  THEN LET i == CHOOSE i \in DOMAIN list :
                  list[i] = key /\ \A j \in 1 .. i - 1 : list[j] # key
       IN  [list EXCEPT ![i] = with]
  ELSE Append(list, with)

\* deleteOIDCProvider: the loop keeps the providers with another identifier.
Without(list, key) ==
  LET F[i \in 0 .. Len(list)] ==
        IF i = 0 THEN <<>> ELSE IF list[i] # key THEN Append(F[i - 1], list[i]) ELSE F[i - 1]
  IN  F[Len(list)]

\* Whether a request that changed its record goes on to bump the epoch.
Bumps(in) ==
  \/ in.kind \in {"bind", "delete", "setall", "put", "drop"}
  \/ in.kind = "update" /\ (in.reset \/ in.role # "keep")

GetUserByUsername(d, n) ==
  IF d.index[n] = NoName THEN NoName
  ELSE IF UserExists(d, d.index[n]) THEN d.index[n] ELSE NoName

ResolvePrincipal(d, s) ==
  IF UserExists(d, s.user) THEN s.user ELSE GetUserByUsername(d, s.name)

SessionEpochValid(d, s) == s.epoch = d.epoch

\* RequireAuth lets the token through.
Accepted(d, s) == ResolvePrincipal(d, s) # NoName /\ SessionEpochValid(d, s)

-------------------------------------------------------------------------------
(* Initial states: a bootstrapped store that passed the startup check      *)

FirstStore(U, A, flag, list) ==
  [users |-> [n \in Names |-> IF n \in U THEN [name |-> n, admin |-> n \in A]
                              ELSE NoUser],
   index |-> [n \in Names |-> IF n \in U THEN n ELSE NoName],
   epoch |-> 0, flag |-> flag, providers |-> list]

Init ==
  /\ \E U \in SUBSET Names : \E A \in (SUBSET U) \ {{}} :
       \E flag \in {"unset", "on", "off"}, list \in ShortLists :
         db = FirstStore(U, A, flag, list)
  /\ db \in Stores
  /\ ValidateAuthConfig(db)
  /\ req = [r \in Requests |-> Idle]
  /\ login = [l \in Logins |-> NoLogin]
  /\ sessions = {}
  /\ dead = {}
  /\ stale = {}
  /\ raced = {}
  /\ left = MaxRequests

-------------------------------------------------------------------------------
(* Steps shared by the handlers                                            *)

At(r, kind, pc) == req[r].pc = pc /\ req[r].in.kind = kind

Finish(r) == req' = [req EXCEPT ![r] = Idle]

Goto(r, pc) == req' = [req EXCEPT ![r].pc = pc]

\* The command is ready to be replicated.
Propose(r, c) == req' = [req EXCEPT ![r].pc = "apply", ![r].cmd = c]

ReadOnly == UNCHANGED <<db, login, sessions, dead, stale, raced, left>>

NoCmd == [op |-> "none"]

(***************************************************************************)
(* What a request in progress has read of the records and goes on to use:  *)
(* the user it changes, the administrators that deleteUser counted, the    *)
(* provider list, internal auth (the flag and, while it was never set, the *)
(* users, taken as one read), the epoch.                                   *)
(***************************************************************************)
Basis(d, q) ==
  IF q.pc = "bump" THEN d.epoch
  ELSE CASE q.in.kind = "create" -> "nothing"
         [] q.in.kind \in {"update", "bind"} -> d.users[q.in.id]
         [] q.in.kind = "delete" ->
              <<d.users[q.in.id], IF q.pc = "count" THEN {} ELSE OtherAdmins(d, q.in.id)>>
         [] q.in.kind \in {"flag", "put"} -> d.providers
         [] q.in.kind = "setall" -> IsInternalAuthEnabled(d)
         [] q.in.kind = "drop" ->
              <<d.providers, IF q.pc = "check" THEN FALSE ELSE IsInternalAuthEnabled(d)>>

HasRead(q) == q.pc \notin {"idle", "read", "epoch"}

\* The records that the command of a request belongs to.
Group(q) ==
  IF q.pc = "bump" THEN "epoch"
  ELSE IF q.in.kind \in {"create", "update", "bind", "delete"} THEN "users" ELSE "auth"

\* History only: the command of r is applied, which is a race if r is stale,
\* and makes the requests stale whose basis it changes.
Overtakes(r) ==
  /\ stale' = (stale \cup {q \in Requests : /\ HasRead(req[q])
                                           /\ Basis(db', req[q]) # Basis(db, req[q])}) \ {r}
  /\ raced' = IF r \in stale THEN raced \cup {Group(req[r])} ELSE raced

\* A request arrives; its body was decoded, validated and authorised.  One
\* that was not ends here and changes nothing.
Begin(r) ==
  /\ left > 0
  /\ req[r] = Idle
  /\ \E in \in Input :
       /\ in \in Asked
       /\ req' = [req EXCEPT ![r] = [pc |-> "read", in |-> in, cmd |-> NoCmd,
                                     user |-> NoUser]]
  /\ left' = left - 1
  /\ stale' = stale \ {r}
  /\ UNCHANGED <<db, login, sessions, dead, raced>>

\* The command is applied and the request goes on or is answered.
ApplyCommand(r) ==
  /\ req[r].pc = "apply"
  /\ db' = Apply(db, req[r].cmd)
  /\ Overtakes(r)
  /\ IF Bumps(req[r].in) THEN Goto(r, "epoch") ELSE Finish(r)
  /\ UNCHANGED <<login, sessions, dead, left>>

\* The command is reported as failed, applied or not: the request ends.
ApplyFails(r) ==
  /\ MayFail
  /\ req[r].pc = "apply"
  /\ \/ UNCHANGED <<db, stale, raced>>
     \/ db' = Apply(db, req[r].cmd) /\ Overtakes(r)
  /\ Finish(r)
  /\ UNCHANGED <<login, sessions, dead, left>>

-------------------------------------------------------------------------------
(* The authentication epoch: read, then written one higher                 *)

\* Variant with a fault: the epoch only tells odd from even.
BumpReadToggle(r) ==
  /\ req[r].pc = "epoch"
  /\ req' = [req EXCEPT ![r].pc = "bump",
                        ![r].cmd = [op |-> "epoch", epoch |-> 1 - db.epoch]]
  /\ ReadOnly

BumpRead(r) ==
  /\ req[r].pc = "epoch"
  /\ req' = [req EXCEPT ![r].pc = "bump",
                        ![r].cmd = [op |-> "epoch", epoch |-> db.epoch + 1]]
  /\ ReadOnly

BumpApply(r) ==
  /\ req[r].pc = "bump"
  /\ db' = Apply(db, req[r].cmd)
  /\ Overtakes(r)
  /\ dead' = dead \cup sessions
  /\ Finish(r)
  /\ UNCHANGED <<login, sessions, left>>

\* The handlers discard the error: the request is answered as a success.
BumpFails(r) ==
  /\ MayFail
  /\ req[r].pc = "bump"
  /\ \/ UNCHANGED <<db, dead, stale, raced>>
     \/ db' = Apply(db, req[r].cmd) /\ Overtakes(r) /\ dead' = dead \cup sessions
  /\ Finish(r)
  /\ UNCHANGED <<login, sessions, left>>

-------------------------------------------------------------------------------
(* User management                                                         *)

\* createUser: the identifier of a user is its name when it is created.
createUser(r) ==
  /\ At(r, "create", "read")
  /\ LET in == req[r].in
     IN  Propose(r, [op |-> "create", id |-> in.name,
                     user |-> [name |-> in.name, admin |-> in.admin]])
  /\ ReadOnly

\* Variant with a fault: a user that is not found is saved all the same.
updateUserNoGuard(r) ==
  /\ At(r, "update", "read")
  /\ LET in == req[r].in
         u  == db.users[in.id]
     IN  req' = [req EXCEPT
           ![r].pc = "save",
           ![r].user = [name |-> IF in.name = NoName THEN u.name ELSE in.name,
                        admin |-> HasRole(u, in.role)]]
  /\ ReadOnly

\* updateUser: read the user, refuse to take its admin role, change the copy.
updateUser(r) ==
  /\ At(r, "update", "read")
  /\ LET in == req[r].in
         u  == db.users[in.id]
     IN  IF u = NoUser \/ RemovesAdmin(u, in.role) THEN Finish(r)
         ELSE req' = [req EXCEPT
                ![r].pc = "save",
                ![r].user = [name |-> IF in.name = NoName THEN u.name ELSE in.name,
                             admin |-> HasRole(u, in.role)]]
  /\ ReadOnly

\* updateBinding: the same check on a first read of the user ...
updateBinding(r) ==
  /\ At(r, "bind", "read")
  /\ LET in == req[r].in
         u  == db.users[in.id]
     IN  IF u = NoUser \/ RemovesAdmin(u, in.role) THEN Finish(r) ELSE Goto(r, "again")
  /\ ReadOnly

\* ... and UpdateUserBinding changes the copy of a second one.
UpdateUserBinding(r) ==
  /\ At(r, "bind", "again")
  /\ LET in == req[r].in
         u  == db.users[in.id]
     IN  IF u = NoUser THEN Finish(r)
         ELSE req' = [req EXCEPT ![r].pc = "save",
                        ![r].user = [name |-> u.name, admin |-> HasRole(u, in.role)]]
  /\ ReadOnly

\* RaftStore.UpdateUser reads the stored name to know which entry to remove.
SaveUser(r) ==
  /\ req[r].pc = "save"
  /\ LET id  == req[r].in.id
         was == db.users[id].name
     IN  Propose(r, [op |-> "update", id |-> id, user |-> req[r].user,
                     old |-> IF was # req[r].user.name THEN was ELSE NoName])
  /\ ReadOnly

\* deleteUser: an administrator is only deleted after a count of the others.
deleteUser(r) ==
  /\ At(r, "delete", "read")
  /\ LET u == db.users[req[r].in.id]
     IN  IF u = NoUser THEN Finish(r)
         ELSE Goto(r, IF u.admin THEN "count" ELSE "remove")
  /\ ReadOnly

CountAdmins(r) ==
  /\ req[r].pc = "count"
  /\ IF OtherAdmins(db, req[r].in.id) = {} THEN Finish(r) ELSE Goto(r, "remove")
  /\ ReadOnly

\* RaftStore.DeleteUser reads the name whose entry goes with the user.
RemoveUser(r) ==
  /\ req[r].pc = "remove"
  /\ LET id == req[r].in.id
     IN  IF UserExists(db, id)
         THEN Propose(r, [op |-> "delete", id |-> id, name |-> db.users[id].name])
         ELSE Finish(r)
  /\ ReadOnly

-------------------------------------------------------------------------------
(* Authentication providers                                                *)

\* Internal auth is only switched off while there is a provider.
SetInternalAuthEnabled(r) ==
  /\ At(r, "flag", "read")
  /\ LET on == req[r].in.on
     IN  IF ~on /\ db.providers = <<>> THEN Finish(r)
         ELSE Propose(r, [op |-> "flag", on |-> on])
  /\ ReadOnly

\* The list is only emptied while internal auth is on.
MayStore(d, list) == IsInternalAuthEnabled(d) \/ list # <<>>

updateAllOIDCProviders(r) ==
  /\ At(r, "setall", "read")
  /\ LET list == req[r].in.list
     IN  IF MayStore(db, list) THEN Propose(r, [op |-> "oidc", list |-> list])
         ELSE Finish(r)
  /\ ReadOnly

updateOIDCProvider(r) ==
  /\ At(r, "put", "read")
  /\ LET in == req[r].in
     IN  Propose(r, [op |-> "oidc", list |-> Upsert(db.providers, in.key, in.with)])
  /\ ReadOnly

\* deleteOIDCProvider reads the list first and internal auth afterwards.
deleteOIDCProvider(r) ==
  /\ At(r, "drop", "read")
  /\ req' = [req EXCEPT
       ![r].pc = "check",
       ![r].cmd = [op |-> "oidc", list |-> Without(db.providers, req[r].in.key)]]
  /\ ReadOnly

\* Variant with a fault: the stored list is checked, not the shortened one.
CheckStoredList(r) ==
  /\ At(r, "drop", "check")
  /\ IF MayStore(db, db.providers) THEN Goto(r, "apply") ELSE Finish(r)
  /\ ReadOnly

CheckLastProvider(r) ==
  /\ At(r, "drop", "check")
  /\ IF MayStore(db, req[r].cmd.list) THEN Goto(r, "apply") ELSE Finish(r)
  /\ ReadOnly

-------------------------------------------------------------------------------
(* Login                                                                   *)

\* BuildAuthConfig and the password check of the first user of that name; a
\* login that fails here leaves nothing behind.
CheckPassword(l) ==
  /\ left > 0
  /\ login[l] = NoLogin
  /\ IsInternalAuthEnabled(db)
  /\ \E id \in Names :
       /\ UserExists(db, id)
       /\ login' = [login EXCEPT ![l] = [pc |-> "lookup", name |-> db.users[id].name]]
  /\ left' = left - 1
  /\ UNCHANGED <<db, req, sessions, dead, stale, raced>>

\* The user is looked up once more, through the index this time.
LookupUser(l) ==
  /\ login[l].pc = "lookup"
  /\ LET id == GetUserByUsername(db, login[l].name)
     IN  login' = [login EXCEPT
           ![l] = IF id = NoName THEN NoLogin
                  ELSE [pc |-> "mint", user |-> id, name |-> db.users[id].name]]
  /\ UNCHANGED <<db, req, sessions, dead, stale, raced, left>>

\* The token carries the epoch read now and a random identifier of its own.
MintSession(l) ==
  /\ login[l].pc = "mint"
  /\ sessions' = sessions \cup
       {[sid |-> Cardinality(sessions) + 1, user |-> login[l].user,
         name |-> login[l].name, epoch |-> db.epoch]}
  /\ login' = [login EXCEPT ![l] = NoLogin]
  /\ UNCHANGED <<db, req, dead, stale, raced, left>>

-------------------------------------------------------------------------------

\* Every request that the bound allows was answered.
Quiet ==
  /\ left = 0
  /\ \A r \in Requests : req[r] = Idle
  /\ \A l \in Logins : login[l] = NoLogin
  /\ UNCHANGED vars

Handler(r) ==
  \/ createUser(r) \/ updateUser(r) \/ updateBinding(r) \/ UpdateUserBinding(r)
  \/ SaveUser(r) \/ deleteUser(r) \/ CountAdmins(r) \/ RemoveUser(r)
  \/ SetInternalAuthEnabled(r) \/ updateAllOIDCProviders(r)
  \/ updateOIDCProvider(r) \/ deleteOIDCProvider(r) \/ CheckLastProvider(r)
  \/ ApplyCommand(r) \/ ApplyFails(r)
  \/ BumpRead(r) \/ BumpApply(r) \/ BumpFails(r)

Next ==
  \/ \E r \in Requests : Begin(r) \/ Handler(r)
  \/ \E l \in Logins : CheckPassword(l) \/ LookupUser(l) \/ MintSession(l)
  \/ Quiet

Spec == Init /\ [][Next]_vars

-------------------------------------------------------------------------------
(* Properties                                                              *)

Cmd ==
  {NoCmd} \cup [op : {"create"}, id : Names, user : User]
    \cup [op : {"update"}, id : Names, user : User, old : Names \cup {NoName}]
    \cup [op : {"delete"}, id : Names, name : Names]
    \cup [op : {"flag"}, on : BOOLEAN]
    \cup [op : {"oidc"}, list : Seq(Providers)]
    \cup [op : {"epoch"}, epoch : Nat]

Session == [sid : Nat, user : Names, name : Names, epoch : Nat]

(***************************************************************************)
(* Type correctness of the stored records and of everything a handler      *)
(* carries from one database access to the next: in particular no record   *)
(* without a user name is ever proposed (handler/api.go, updateUser).      *)
(***************************************************************************)
AccountsTypeOK ==
  /\ db.users \in [Names -> User \cup {NoUser}]
  /\ db.index \in [Names -> Names \cup {NoName}]
  /\ db.epoch \in Nat
  /\ db.flag \in {"unset", "on", "off"}
  /\ db.providers \in Seq(Providers)
  /\ \A r \in Requests : req[r] # Idle =>
       /\ req[r].pc \in {"read", "again", "save", "count", "remove", "check",
                         "apply", "epoch", "bump"}
       /\ req[r].in \in Input
       /\ req[r].user \in User \cup {NoUser}
       /\ req[r].cmd \in Cmd
  /\ \A l \in Logins :
       login[l] \in {NoLogin} \cup [pc : {"lookup"}, name : Names]
                     \cup [pc : {"mint"}, user : Names, name : Names]
  /\ sessions \subseteq Session
  /\ dead \subseteq sessions
  /\ stale \subseteq Requests
  /\ raced \subseteq {"users", "auth", "epoch"}
  /\ left \in 0 .. MaxRequests

(***************************************************************************)
(* The username index never points at a missing user, nor at one that has  *)
(* another name: create, rename and delete write the user and its entries  *)
(* in one transaction (fsm.go, applyCreateUser; raft.go, UpdateUser).      *)
(***************************************************************************)
IndexSound ==
  \A n \in Names : db.index[n] # NoName =>
    /\ UserExists(db, db.index[n])
    /\ db.users[db.index[n]].name = n

(***************************************************************************)
(* No index entry points at a missing user, as fsm.go says of the crash    *)
(* that the single transaction of applyCreateUser guards against.          *)
(***************************************************************************)
IndexResolves == \A n \in Names : db.index[n] # NoName => UserExists(db, db.index[n])

(***************************************************************************)
(* A user is found under its own name: the index entries of design.md are  *)
(* the lookup from a user name to the identifier of the user.              *)
(***************************************************************************)
IndexComplete ==
  \A id \in Names : UserExists(db, id) => db.index[db.users[id].name] # NoName

(***************************************************************************)
(* An administrator remains: updateUser and updateBinding refuse to take   *)
(* the admin role away and deleteUser refuses to delete the last one.      *)
(***************************************************************************)
AdminRemains == \E id \in Names : db.users[id].admin

(***************************************************************************)
(* A way to log in remains: what ValidateAuthConfig demands at startup is  *)
(* kept by the requests that switch internal auth off and that shorten the *)
(* provider list.                                                          *)
(***************************************************************************)
ProviderRemains == ValidateAuthConfig(db)

(***************************************************************************)
(* A session that was outstanding when the epoch was bumped is never       *)
(* accepted again, whatever happens later (raft.go, BumpAuthEpoch).        *)
(***************************************************************************)
RevokedStaysRevoked == \A s \in dead : ~Accepted(db, s)

(***************************************************************************)
(* Of four guarantees that the code states without a condition, one at     *)
(* least is kept: no index entry without its user (fsm.go, applyCreateUser),*)
(* an administrator (api.go, deleteUser), a way to log in (service/auth.go,*)
(* SetInternalAuthEnabled), no revoked session (raft.go, BumpAuthEpoch).   *)
(* A behaviour that violates this refutes all four.                        *)
(***************************************************************************)
SomeGuaranteeKept ==
  IndexResolves \/ AdminRemains \/ ProviderRemains \/ RevokedStaysRevoked

(***************************************************************************)
(* When a request that revokes sessions is answered as a success, none of  *)
(* the tokens handed out so far is accepted any more, as updateUser and    *)
(* SECURITY.md say of password resets and role changes (api.go).           *)
(***************************************************************************)
ChangeRevokes ==
  [][\A r \in Requests : req[r].pc = "bump" /\ req'[r] = Idle =>
       \A s \in sessions : ~Accepted(db', s)]_vars

-------------------------------------------------------------------------------
(* Requests that overlap lose each of the four guarantees.  What is left   *)
(* of them says which overlap it takes: a command applied after another    *)
(* request changed what the command was computed from.                     *)

(***************************************************************************)
(* The index stays sound, whatever else overlaps, until a create, update,  *)
(* binding or deletion is applied after another request changed the user   *)
(* it was computed from (raft.go, UpdateUser and DeleteUser).              *)
(***************************************************************************)
IndexLostOnlyByRace == "users" \in raced \/ IndexSound

(***************************************************************************)
(* An administrator remains, whatever else overlaps, until an update or a  *)
(* deletion is applied after another request changed the user it was       *)
(* computed from or the administrators it counted (api.go, deleteUser).    *)
(***************************************************************************)
AdminLostOnlyByRace == "users" \in raced \/ AdminRemains

(***************************************************************************)
(* A way to log in remains, whatever else overlaps, until a flag or a list *)
(* is written after another request changed the flag or the list that the  *)
(* check was made on (service/auth.go, SetInternalAuthEnabled; api.go,     *)
(* updateAllOIDCProviders and deleteOIDCProvider).                         *)
(***************************************************************************)
ProviderLostOnlyByRace == "auth" \in raced \/ ProviderRemains

(***************************************************************************)
(* A revocation is final, whatever else overlaps, until an epoch is        *)
(* written that was computed from one that is no longer stored (raft.go,   *)
(* BumpAuthEpoch).                                                         *)
(***************************************************************************)
RevocationLostOnlyByRace == "epoch" \in raced \/ RevokedStaysRevoked
===============================================================================
