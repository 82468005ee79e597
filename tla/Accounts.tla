------------------------------ MODULE Accounts ------------------------------
(***************************************************************************)
(* The SSO service: local accounts and accounts provisioned from an OpenID *)
(* provider, the handlers that read a row, decide and write it back, and   *)
(* the bootstrap administrator that every start of SSO ensures.            *)
(*                                                                         *)
(* One step is one statement against the table users, one call of the      *)
(* provider, or one critical section of stateMu.  Tokens are not stored by *)
(* SSO: tokens is the set of accounts of which somebody holds a pair.      *)
(***************************************************************************)
EXTENDS Integers, FiniteSets

CONSTANTS
    Accounts,      \* ids of rows
    None,          \* no account, no name, no subject
    Names, Mails,
    Subjects,      \* identities at the provider
    BaseName,      \* subject -> normalizeExternalUsername
    Candidate,     \* subject -> the base with the subject's suffix
    Mail,          \* subject -> its address, or None if it is not usable
    Fallback,      \* subject -> oidcFallbackEmail
    Bootstrap,     \* [name, mail] of the administrator in the configuration
    Forms,         \* what administrators submit: name, mail, role, status
    Handlers, StateIds,
    MaxRequests    \* bound: requests, failing statements and restarts

ASSUME AccountsConstants ==
    /\ IsFiniteSet(Accounts) /\ Accounts # {}
    /\ None \notin Accounts \cup Names \cup Mails \cup Subjects \cup StateIds
    /\ BaseName \in [Subjects -> Names] /\ Candidate \in [Subjects -> Names]
    /\ Mail \in [Subjects -> Mails \cup {None}]
    /\ Fallback \in [Subjects -> Mails]
    /\ Bootstrap \in [name : Names, mail : Mails]
    /\ Forms \subseteq [name : Names, mail : Mails, role : {"admin", "user"},
                        status : {"active", "deactivated"}]
    /\ MaxRequests \in Nat

VARIABLES
    rows,       \* table users; the row of an id that is not used is Nobody
    states,     \* AuthService.states
    tokens,
    handlers,   \* gRPC handlers between two statements
    up,         \* SSO serves; FALSE: NewApp returned an error
    requests
accountVars == <<rows, states, tokens, handlers, up, requests>>

Roles == {"admin", "user"}
Statuses == {"active", "deactivated"}
RowType == [name : Names \cup {None}, mail : Mails \cup {None}, role : Roles,
            status : Statuses, subject : Subjects \cup {None}]
Nobody == [name |-> None, mail |-> None, role |-> "user",
           status |-> "deactivated", subject |-> None]

HandlerType ==
    [pc : {"idle", "exchange", "identity", "name", "candidate", "mail",
           "fallback", "read", "count", "write", "grant"},
     kind : {"none", "oidc", "update", "deactivate", "reactivate"},
     state : StateIds \cup {None}, subject : Subjects \cup {None},
     on : Accounts \cup {None}, seen : RowType, next : RowType, count : Nat]
Resting == [pc |-> "idle", kind |-> "none", state |-> None, subject |-> None,
            on |-> None, seen |-> Nobody, next |-> Nobody, count |-> 0]

AccountsTypeOK ==
    /\ rows \in [Accounts -> RowType]
    /\ \A a \in Accounts : rows[a] = Nobody \/ None \notin {rows[a].name, rows[a].mail}
    /\ states \subseteq StateIds
    /\ tokens \subseteq Accounts
    /\ handlers \in [Handlers -> HandlerType]
    /\ up \in BOOLEAN
    /\ requests \in 0..MaxRequests

Exists(a) == rows[a].name # None
IsActive(a) == Exists(a) /\ rows[a].status = "active"
IsActiveAdmin(a) == IsActive(a) /\ rows[a].role = "admin"
ActiveAdmins == {a \in Accounts : IsActiveAdmin(a)}
Named(n) == {a \in Accounts : rows[a].name = n}
Addressed(m) == {a \in Accounts : Exists(a) /\ rows[a].mail = m}

\* The unique indexes of users: whether a row may be written under an id.
Identified(s) == {a \in Accounts : Exists(a) /\ s # None /\ rows[a].subject = s}
Writable(row, a) ==
    Named(row.name) \cup Addressed(row.mail) \cup Identified(row.subject) \subseteq {a}

NewRow(form, subject) ==
    [name |-> form.name, mail |-> form.mail, role |-> form.role,
     status |-> form.status, subject |-> subject]
BootstrapRow ==
    [name |-> Bootstrap.name, mail |-> Bootstrap.mail, role |-> "admin",
     status |-> "active", subject |-> None]

\* SSO has started once on an empty table, and the administrator signed in.
AccountsInit ==
    /\ LET a == CHOOSE a \in Accounts : TRUE
       IN  /\ rows = [[b \in Accounts |-> Nobody] EXCEPT ![a] = BootstrapRow]
           /\ tokens = {a}
    /\ states = {}
    /\ handlers = [h \in Handlers |-> Resting]
    /\ up = TRUE
    /\ requests = 0

-----------------------------------------------------------------------------
(* Requests.                                                               *)

Request == up /\ requests < MaxRequests /\ requests' = requests + 1

Begin(h, pc, kind, state, on) ==
    /\ handlers[h].pc = "idle"
    /\ handlers' = [handlers EXCEPT ![h] =
                      [Resting EXCEPT !.pc = pc, !.kind = kind, !.state = state, !.on = on]]

\* The gateway lets an administrator through who is active now.
Administered == \E a \in tokens : IsActiveAdmin(a)

StartOIDCLogin(st) ==
    /\ Request
    /\ st \notin states /\ \A h \in Handlers : handlers[h].state # st
    /\ states' = states \cup {st}
    /\ UNCHANGED <<rows, tokens, handlers, up>>

\* cleanupExpiredStatesLocked
StateExpires(st) ==
    /\ st \in states
    /\ states' = states \ {st}
    /\ UNCHANGED <<rows, tokens, handlers, up, requests>>

Consumed(st) == states \ {st}
CompleteOIDCCallback(h, st) ==
    /\ up
    /\ st \in states
    /\ Begin(h, "exchange", "oidc", st, None)
    /\ states' = Consumed(st)
    /\ UNCHANGED <<rows, tokens, up, requests>>

Administer(h) ==
    /\ Request
    /\ Administered
    /\ \E a \in Accounts, kind \in {"update", "deactivate", "reactivate"} :
          Exists(a) /\ Begin(h, "read", kind, None, a)
    /\ UNCHANGED <<rows, states, tokens, up>>

Fresh == CHOOSE a \in Accounts : ~Exists(a)
Insert(row) ==
    /\ \E a \in Accounts : ~Exists(a)
    /\ rows' = [rows EXCEPT ![Fresh] = row]

\* CreateUser, and Register with the role user; a conflict changes nothing.
CreateAccount ==
    /\ Request
    /\ \E form \in Forms :
         /\ Administered \/ (form.role = "user" /\ form.status = "active")
         /\ Writable(NewRow(form, None), None)
         /\ Insert(NewRow(form, None))
    /\ UNCHANGED <<states, tokens, handlers, up>>

Login(a) ==
    /\ up
    /\ IsActive(a) /\ rows[a].subject = None
    /\ tokens' = tokens \cup {a}
    /\ UNCHANGED <<rows, states, handlers, up, requests>>

-----------------------------------------------------------------------------
(* provisionOIDCUser, statement by statement.                              *)

AtStep(h, pc) == up /\ handlers[h].pc = pc
Move(h, pc) == handlers' = [handlers EXCEPT ![h].pc = pc]
End(h) == handlers' = [handlers EXCEPT ![h] = Resting]
OnlyHandlers == UNCHANGED <<rows, states, tokens, up, requests>>

\* The provider answers with an identity and, from its groups, a role.
ExchangeCode(h) ==
    /\ AtStep(h, "exchange")
    /\ \/ \E s \in Subjects, role \in Roles :
            handlers' = [handlers EXCEPT ![h].pc = "identity", ![h].subject = s,
                                         ![h].next = [Nobody EXCEPT !.subject = s, !.role = role]]
       \/ End(h)
    /\ OnlyHandlers

ByAddress(s) == Addressed(Mail[s])
GetUserByExternalIdentity(s) == Identified(s)
ReadIdentity(h) ==
    /\ AtStep(h, "identity")
    /\ LET found == GetUserByExternalIdentity(handlers[h].subject)
       IN  \/ /\ found = {}
              /\ handlers' = [handlers EXCEPT ![h].pc = "name",
                                              ![h].next.status = "active"]
           \/ \E a \in found :
                handlers' = [handlers EXCEPT ![h].pc = "name", ![h].on = a,
                               ![h].seen = rows[a], ![h].next.status = rows[a].status]
    /\ OnlyHandlers

\* A name or an address is free for a handler that finds nobody or itself.
FreeFor(h, holders) == holders \subseteq {handlers[h].on}
WithName(h, name) ==
    handlers' = [handlers EXCEPT ![h].pc = "mail", ![h].next.name = name]
WithMail(h, mail) ==
    handlers' = [handlers EXCEPT ![h].pc = "count", ![h].next.mail = mail]

ResolveUsername(h) ==
    /\ AtStep(h, "name")
    /\ LET base == BaseName[handlers[h].subject]
       IN  IF FreeFor(h, Named(base)) THEN WithName(h, base) ELSE Move(h, "candidate")
    /\ OnlyHandlers

ResolveCandidate(h) ==
    /\ AtStep(h, "candidate")
    /\ LET name == Candidate[handlers[h].subject]
       IN  CASE FreeFor(h, Named(name)) -> WithName(h, name)
             [] OTHER -> IF handlers[h].on # None
                         THEN WithName(h, handlers[h].seen.name) ELSE End(h)
    /\ OnlyHandlers

Usable(h, mail) == mail # None /\ FreeFor(h, Addressed(mail))
ResolveEmail(h) ==
    /\ AtStep(h, "mail")
    /\ LET mail == Mail[handlers[h].subject]
       IN  IF Usable(h, mail)
           THEN WithMail(h, mail) ELSE Move(h, "fallback")
    /\ OnlyHandlers

ResolveFallback(h) ==
    /\ AtStep(h, "fallback")
    /\ LET mail == Fallback[handlers[h].subject]
       IN  IF FreeFor(h, Addressed(mail)) THEN WithMail(h, mail) ELSE End(h)
    /\ OnlyHandlers

-----------------------------------------------------------------------------
(* UpdateUser, DeactivateUser and ReactivateUser; the check that guards    *)
(* them and a login.                                                       *)

ReadRow(h) ==
    /\ AtStep(h, "read")
    /\ LET row == rows[handlers[h].on]
           Goes(pc, next) ==
               handlers' = [handlers EXCEPT ![h].pc = pc, ![h].seen = row, ![h].next = next]
       IN  \/ /\ handlers[h].kind = "update"
              /\ \E form \in Forms : Goes("count", NewRow(form, row.subject))
           \/ /\ handlers[h].kind = "deactivate"
              /\ Goes("count", [row EXCEPT !.status = "deactivated"])
           \/ /\ handlers[h].kind = "reactivate"
              /\ Goes("write", [row EXCEPT !.status = "active"])
    /\ OnlyHandlers

ActiveAdminRow(row) == row.name # None /\ row.role = "admin" /\ row.status = "active"
Demotes(h) == ActiveAdminRow(handlers[h].seen) /\ ~ActiveAdminRow(handlers[h].next)

NoneLeft(count) == count = 0
LastOne(count) == count <= 1
EnsureNotLastActiveAdmin(h) ==
    /\ AtStep(h, "count")
    /\ LET count == Cardinality(ActiveAdmins)
       IN  CASE ~Demotes(h) -> Move(h, "write")
             [] OTHER -> IF LastOne(count) THEN End(h)
                         ELSE handlers' = [handlers EXCEPT ![h].pc = "write",
                                                           ![h].count = count]
    /\ OnlyHandlers

\* UPDATE of all columns, or INSERT of a new account; a conflict ends the request.
WriteRow(h) ==
    /\ AtStep(h, "write")
    /\ LET new == handlers[h].next
           a == handlers[h].on
           Written(b) == [handlers EXCEPT ![h].pc = "grant", ![h].on = b]
       IN  \/ ~Writable(new, a) /\ End(h) /\ UNCHANGED rows
           \/ /\ Writable(new, a) /\ a # None
              /\ rows' = [rows EXCEPT ![a] = new]
              /\ IF handlers[h].kind = "oidc" THEN handlers' = Written(a) ELSE End(h)
           \/ /\ Writable(new, a) /\ a = None
              /\ Insert(new)
              /\ handlers' = Written(Fresh)
    /\ UNCHANGED <<states, tokens, up, requests>>

\* CompleteOIDCCallback returns tokens for the row as it was written.
Grant(h) ==
    /\ AtStep(h, "grant")
    /\ tokens' = IF handlers[h].next.status = "active"
                 THEN tokens \cup {handlers[h].on} ELSE tokens
    /\ End(h)
    /\ UNCHANGED <<rows, states, up, requests>>

\* A statement fails, or the call is canceled.
StatementFails(h) ==
    /\ up /\ requests < MaxRequests
    /\ handlers[h].pc \notin {"idle", "exchange", "grant"}
    /\ requests' = requests + 1
    /\ End(h)
    /\ UNCHANGED <<rows, states, tokens, up>>

-----------------------------------------------------------------------------
(* A restart of SSO loses its states and handlers, and ensures the         *)
(* bootstrap administrator before it serves.                               *)

Restart ==
    /\ requests < MaxRequests /\ requests' = requests + 1
    /\ states' = {}
    /\ handlers' = [h \in Handlers |-> Resting]
    /\ LET found == Named(Bootstrap.name)
       IN  \/ \E a \in found : rows[a].role = "admin"
                 /\ rows' = [rows EXCEPT ![a].status = "active"] /\ up' = TRUE
           \/ \E a \in found : rows[a].role # "admin" /\ UNCHANGED rows /\ up' = FALSE
           \/ /\ found = {} /\ Writable(BootstrapRow, None)
              /\ Insert(BootstrapRow) /\ up' = TRUE
           \/ found = {} /\ ~Writable(BootstrapRow, None) /\ UNCHANGED rows /\ up' = FALSE
    /\ UNCHANGED tokens

HandlerStep(h) ==
    \/ ExchangeCode(h) \/ ReadIdentity(h) \/ ResolveUsername(h) \/ ResolveCandidate(h)
    \/ ResolveEmail(h) \/ ResolveFallback(h) \/ ReadRow(h)
    \/ EnsureNotLastActiveAdmin(h) \/ WriteRow(h) \/ Grant(h) \/ StatementFails(h)

AccountsNext ==
    \/ \E st \in StateIds : StartOIDCLogin(st) \/ StateExpires(st)
    \/ \E h \in Handlers, st \in StateIds : CompleteOIDCCallback(h, st)
    \/ \E h \in Handlers : Administer(h) \/ HandlerStep(h)
    \/ CreateAccount
    \/ \E a \in Accounts : Login(a)
    \/ Restart

AccountsSpec == AccountsInit /\ [][AccountsNext]_accountVars

-----------------------------------------------------------------------------
(* Properties.                                                             *)

\* What a handler decided on is no longer what the table says.
Overtaken(h) ==
    \/ rows[handlers[h].on] # handlers[h].seen
    \/ Demotes(h) /\ handlers[h].count # Cardinality(ActiveAdmins)

\* The last active administrator disappears only by a write that another one
\* overtook between its reads and its statement: ensureNotLastActiveAdmin counts
\* without a lock, for administrators and for logins whose groups changed.
AdminsRemain ==
    [][ActiveAdmins # {} /\ ActiveAdmins' = {} =>
         \E h \in Handlers : AtStep(h, "write") /\ handlers'[h] # handlers[h]
                             /\ Overtaken(h)]_accountVars

\* An identity signs in to the one account that carries it, however many
\* callbacks of it are handled at once, and an account keeps its identity
\* whatever is written to its row.
SignedInAsSelf(h) == handlers[h].pc = "grant" =>
    Identified(handlers[h].subject) = {handlers[h].on}
LoginsAreOwned ==
    /\ [](\A h \in Handlers : SignedInAsSelf(h))
    /\ [][\A a \in Accounts : Exists(a) => rows'[a].subject = rows[a].subject]_accountVars

=============================================================================
