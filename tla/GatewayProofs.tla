--------------------------- MODULE GatewayProofs ----------------------------
(***************************************************************************)
(* Proofs about SSO, Telemetry and their composition, for any set of       *)
(* accounts, identities, handlers, forms, streams, actors, limits and     *)
(* tickets.  Of SSO by itself: type correctness, that an identity signs in *)
(* to the account that carries it, that one state is one login, and when   *)
(* the last administrator can go.  Of Telemetry by itself: type            *)
(* correctness, and that the limiters count exactly the streams that are   *)
(* served.  Of the composition: SSO and Telemetry do behind the gateway    *)
(* what they do alone, so that what is proved of each holds of it; and a   *)
(* ticket opens one stream at the most.                                    *)
(***************************************************************************)
EXTENDS Gateway, FiniteSetTheorems, TLAPS

-----------------------------------------------------------------------------
(* SSO: the inductive invariant *)

\* What a handler with the record s knows of the table: a login works for one
\* subject, and the account it found, wrote or inserted carries it; an
\* administrator's request works on a row that exists and keeps its subject.
LoginSteps == {"identity", "name", "candidate", "mail", "fallback", "count", "write", "grant"}
Found(table, a) == a # None => a \in Accounts /\ table[a].name # None
Owns(table, s) ==
    /\ Found(table, s.on)
    /\ s.pc \in {"exchange", "identity", "name", "candidate", "mail", "fallback", "grant"}
         => s.kind = "oidc"
    /\ s.kind = "oidc" /\ s.pc \in LoginSteps =>
         /\ s.subject # None /\ s.next.subject = s.subject
         /\ s.on # None => table[s.on].subject = s.subject
    /\ s.pc \in {"name", "candidate", "mail", "fallback"} /\ s.on # None => s.seen.name # None
    /\ s.pc \in {"exchange", "identity"} => s.on = None
    /\ s.pc \in {"read", "grant"} => s.on # None
    /\ s.kind # "oidc" /\ s.pc \in {"count", "write"} =>
         s.on # None /\ s.next.subject = table[s.on].subject
    /\ s.pc \in {"mail", "fallback", "count", "write"} => s.next.name # None
    /\ s.pc \in {"count", "write"} => s.next.mail # None

\* The unique index of the external identity.
Unique(table) ==
    \A a, b \in Accounts : table[a].subject = table[b].subject /\ table[a].subject # None => a = b

RowsTyped(table) ==
    /\ table \in [Accounts -> RowType]
    /\ \A a \in Accounts : table[a] = Nobody \/ None \notin {table[a].name, table[a].mail}

Separate ==
    \A h \in Handlers :
        /\ handlers[h].state \notin states
        /\ \A k \in Handlers :
             handlers[h].state = handlers[k].state /\ handlers[h].state # None => h = k

AccountsInv ==
    /\ AccountsTypeOK
    /\ Unique(rows)
    /\ \A h \in Handlers : Owns(rows, handlers[h])
    /\ Separate

-----------------------------------------------------------------------------
(* A step that leaves the table alone *)

RestTyped ==
    tokens' \subseteq Accounts /\ up' \in BOOLEAN /\ requests' \in 0..MaxRequests

LEMMA HandlerChanges ==
    ASSUME AccountsInv, NEW h \in Handlers, NEW r \in HandlerType, Owns(rows, r),
           r.state \in {handlers[h].state, None},
           handlers' = [handlers EXCEPT ![h] = r], rows' = rows,
           states' \subseteq states, RestTyped
    PROVE  AccountsInv'
<1>1. AccountsTypeOK'
  BY DEF AccountsInv, AccountsTypeOK, RestTyped
<1>2. \A k \in Handlers : handlers'[k] = IF k = h THEN r ELSE handlers[k]
  BY DEF AccountsInv, AccountsTypeOK
<1>3. Unique(rows') /\ \A k \in Handlers : Owns(rows', handlers'[k])
  BY <1>2 DEF AccountsInv
<1>4. Separate'
  BY <1>2, AccountsConstants DEF AccountsInv, AccountsTypeOK, Separate
<1> QED BY <1>1, <1>3, <1>4 DEF AccountsInv

LEMMA RestingIsSound ==
    ASSUME AccountsInv
    PROVE  Resting \in HandlerType /\ Owns(rows, Resting) /\ Resting.state = None
BY DEF Resting, HandlerType, RowType, Nobody, Roles, Statuses, Owns, Found

LEMMA Ending ==
    ASSUME AccountsInv, NEW h \in Handlers, End(h), rows' = rows, states' \subseteq states,
           RestTyped
    PROVE  AccountsInv'
BY RestingIsSound, HandlerChanges DEF End

LEMMA Quietly ==
    ASSUME AccountsInv, OnlyHandlers
    PROVE  rows' = rows /\ states' \subseteq states /\ RestTyped
BY DEF OnlyHandlers, RestTyped, AccountsInv, AccountsTypeOK

\* The record of a handler, and what the invariant says of it.
LEMMA Handling ==
    ASSUME AccountsInv, NEW h \in Handlers
    PROVE  handlers[h] \in HandlerType /\ Owns(rows, handlers[h])
BY DEF AccountsInv, AccountsTypeOK

LEMMA Moving ==
    ASSUME AccountsInv, OnlyHandlers, NEW h \in Handlers, NEW s, s = handlers[h],
           NEW pc, Move(h, pc), s.kind = "oidc",
           \/ s.pc = "name" /\ pc = "candidate"
           \/ s.pc = "mail" /\ pc = "fallback"
    PROVE  AccountsInv'
<1> DEFINE r == [s EXCEPT !.pc = pc]
<1>1. s \in HandlerType /\ Owns(rows, s)
  BY Handling
<1>2. r \in HandlerType /\ r.state = s.state
  BY <1>1 DEF HandlerType
<1>3. Owns(rows, r)
  BY <1>1 DEF HandlerType, Owns, LoginSteps
<1>4. handlers' = [handlers EXCEPT ![h] = r]
  BY DEF Move
<1> QED BY <1>2, <1>3, <1>4, Quietly, HandlerChanges

-----------------------------------------------------------------------------
(* A login *)

LEMMA Exchanging ==
    ASSUME AccountsInv, NEW h \in Handlers, ExchangeCode(h)
    PROVE  AccountsInv'
<1>1. CASE End(h)
  BY <1>1, Ending, Quietly DEF ExchangeCode
<1>2. CASE ~End(h)
  <2>1. PICK u \in Subjects, role \in Roles :
          handlers' = [handlers EXCEPT ![h].pc = "identity", ![h].subject = u,
                         ![h].next = [Nobody EXCEPT !.subject = u, !.role = role]]
    BY <1>2 DEF ExchangeCode
  <2>2. PICK s \in HandlerType : s = handlers[h] /\ Owns(rows, s) /\ s.pc = "exchange"
    BY Handling DEF ExchangeCode, AtStep
  <2> DEFINE n == [Nobody EXCEPT !.subject = u, !.role = role]
  <2> DEFINE r == [s EXCEPT !.pc = "identity", !.subject = u, !.next = n]
  <2>3. n \in RowType /\ n.subject = u /\ u # None
    BY AccountsConstants DEF Nobody, RowType, Statuses
  <2> HIDE DEF n
  <2>4. r \in HandlerType /\ r.state = s.state
    BY <2>3 DEF HandlerType
  <2>5. Owns(rows, r)
    BY <2>2, <2>3 DEF HandlerType, Owns, LoginSteps
  <2>6. handlers' = [handlers EXCEPT ![h] = r]
    BY <2>1, <2>2 DEF n, AccountsInv, AccountsTypeOK, HandlerType
  <2> QED BY <2>2, <2>4, <2>5, <2>6, Quietly, HandlerChanges DEF ExchangeCode
<1> QED BY <1>1, <1>2

LEMMA ReadingIdentity ==
    ASSUME AccountsInv, NEW h \in Handlers, ReadIdentity(h)
    PROVE  AccountsInv'
<1>1. PICK s \in HandlerType : s = handlers[h] /\ Owns(rows, s) /\ s.pc = "identity"
  BY Handling DEF ReadIdentity, AtStep
<1>2. CASE handlers' = [handlers EXCEPT ![h].pc = "name", ![h].next.status = "active"]
  <2> DEFINE n == [s.next EXCEPT !.status = "active"]
  <2> DEFINE r == [s EXCEPT !.pc = "name", !.next = n]
  <2>1. n \in RowType /\ n.subject = s.next.subject
    BY <1>1 DEF HandlerType, RowType, Statuses
  <2> HIDE DEF n
  <2>2. r \in HandlerType /\ r.state = s.state
    BY <2>1 DEF HandlerType
  <2>3. Owns(rows, r)
    BY <1>1, <2>1 DEF HandlerType, Owns, LoginSteps
  <2>4. handlers' = [handlers EXCEPT ![h] = r]
    BY <1>1, <1>2 DEF n, AccountsInv, AccountsTypeOK, HandlerType, RowType
  <2> QED BY <1>1, <2>2, <2>3, <2>4, Quietly, HandlerChanges DEF ReadIdentity
<1>3. CASE \E a \in GetUserByExternalIdentity(handlers[h].subject) :
             handlers' = [handlers EXCEPT ![h].pc = "name", ![h].on = a,
                            ![h].seen = rows[a], ![h].next.status = rows[a].status]
  <2>1. PICK a \in Accounts :
          /\ rows[a].subject = s.subject /\ rows[a].name # None
          /\ handlers' = [handlers EXCEPT ![h].pc = "name", ![h].on = a,
                            ![h].seen = rows[a], ![h].next.status = rows[a].status]
    BY <1>1, <1>3 DEF GetUserByExternalIdentity, Identified, Exists
  <2>2. PICK row \in RowType : row = rows[a]
    BY DEF AccountsInv, AccountsTypeOK
  <2> DEFINE n == [s.next EXCEPT !.status = row.status]
  <2> DEFINE r == [s EXCEPT !.pc = "name", !.on = a, !.seen = row, !.next = n]
  <2>3. n \in RowType /\ n.subject = s.next.subject
    BY <1>1 DEF HandlerType, RowType
  <2> HIDE DEF n
  <2>4. r \in HandlerType /\ r.state = s.state
    BY <2>3 DEF HandlerType
  <2>5. Owns(rows, r)
    BY <1>1, <2>1, <2>2, <2>3 DEF HandlerType, Owns, Found, LoginSteps
  <2>6. handlers' = [handlers EXCEPT ![h] = r]
    BY <1>1, <2>1, <2>2 DEF n, AccountsInv, AccountsTypeOK, HandlerType, RowType
  <2> QED BY <1>1, <2>4, <2>5, <2>6, Quietly, HandlerChanges DEF ReadIdentity
<1> QED BY <1>2, <1>3 DEF ReadIdentity

\* WithName and WithMail of a login.
LEMMA Naming ==
    ASSUME AccountsInv, OnlyHandlers, NEW h \in Handlers, NEW name \in Names \cup {None},
           name # None, WithName(h, name), handlers[h].pc \in {"name", "candidate"}
    PROVE  AccountsInv'
<1>1. PICK s \in HandlerType : s = handlers[h] /\ Owns(rows, s) /\ s.pc \in {"name", "candidate"}
  BY Handling
<1> DEFINE n == [s.next EXCEPT !.name = name]
<1> DEFINE r == [s EXCEPT !.pc = "mail", !.next = n]
<1>2. n \in RowType /\ n.subject = s.next.subject /\ n.name = name
  BY DEF HandlerType, RowType
<1> HIDE DEF n
<1>3. r \in HandlerType /\ r.state = s.state
  BY <1>2 DEF HandlerType
<1>4. Owns(rows, r)
  BY <1>1, <1>2 DEF HandlerType, Owns, LoginSteps
<1>5. handlers' = [handlers EXCEPT ![h] = r]
  BY <1>1 DEF WithName, n, AccountsInv, AccountsTypeOK, HandlerType, RowType
<1> QED BY <1>1, <1>3, <1>4, <1>5, Quietly, HandlerChanges

LEMMA Addressing ==
    ASSUME AccountsInv, OnlyHandlers, NEW h \in Handlers, NEW mail \in Mails,
           WithMail(h, mail), handlers[h].pc \in {"mail", "fallback"}
    PROVE  AccountsInv'
<1>1. PICK s \in HandlerType : s = handlers[h] /\ Owns(rows, s) /\ s.pc \in {"mail", "fallback"}
  BY Handling
<1> DEFINE n == [s.next EXCEPT !.mail = mail]
<1> DEFINE r == [s EXCEPT !.pc = "count", !.next = n]
<1>2. n \in RowType /\ n.subject = s.next.subject /\ n.name = s.next.name /\ n.mail = mail
  BY DEF HandlerType, RowType
<1>3. mail # None
  BY AccountsConstants
<1> HIDE DEF n
<1>4. r \in HandlerType /\ r.state = s.state
  BY <1>2 DEF HandlerType
<1>5. Owns(rows, r)
  BY <1>1, <1>2, <1>3 DEF HandlerType, Owns, LoginSteps
<1>6. handlers' = [handlers EXCEPT ![h] = r]
  BY <1>1 DEF WithMail, n, AccountsInv, AccountsTypeOK, HandlerType, RowType
<1> QED BY <1>1, <1>4, <1>5, <1>6, Quietly, HandlerChanges

LEMMA Resolving ==
    ASSUME AccountsInv, NEW h \in Handlers,
           ResolveUsername(h) \/ ResolveCandidate(h) \/ ResolveEmail(h) \/ ResolveFallback(h)
    PROVE  AccountsInv'
<1> DEFINE s == handlers[h]
<1>1. s \in HandlerType /\ Owns(rows, s)
  BY Handling
<1>2. OnlyHandlers
  BY DEF ResolveUsername, ResolveCandidate, ResolveEmail, ResolveFallback
<1>3. s.subject \in Subjects /\ s.kind = "oidc"
  BY <1>1 DEF ResolveUsername, ResolveCandidate, ResolveEmail, ResolveFallback, AtStep,
              HandlerType, Owns, LoginSteps
<1>4. /\ BaseName[s.subject] \in Names \cup {None} /\ BaseName[s.subject] # None
      /\ Candidate[s.subject] \in Names \cup {None} /\ Candidate[s.subject] # None
      /\ Mail[s.subject] \in Mails \cup {None} /\ Fallback[s.subject] \in Mails
  BY <1>3, AccountsConstants
<1>5. CASE ResolveUsername(h)
  BY <1>2, <1>3, <1>4, <1>5, Naming, Moving DEF ResolveUsername, AtStep
<1>6. CASE ResolveCandidate(h)
  <2>1. CASE WithName(h, Candidate[s.subject])
    BY <1>2, <1>4, <1>6, <2>1, Naming DEF ResolveCandidate, AtStep
  <2>2. CASE s.on # None /\ WithName(h, s.seen.name)
    <3>1. s.seen.name \in Names \cup {None} /\ s.seen.name # None
      BY <1>1, <1>6, <2>2 DEF ResolveCandidate, AtStep, HandlerType, RowType, Owns
    <3> QED BY <1>2, <1>6, <2>2, <3>1, Naming DEF ResolveCandidate, AtStep
  <2>3. CASE End(h)
    BY <1>2, <2>3, Ending, Quietly
  <2> QED BY <1>6, <2>1, <2>2, <2>3 DEF ResolveCandidate
<1>7. CASE ResolveEmail(h)
  <2>1. CASE Usable(h, Mail[s.subject]) /\ WithMail(h, Mail[s.subject])
    BY <1>2, <1>4, <1>7, <2>1, Addressing DEF ResolveEmail, AtStep, Usable
  <2>2. CASE Move(h, "fallback")
    BY <1>2, <1>3, <1>7, <2>2, Moving DEF ResolveEmail, AtStep
  <2> QED BY <1>7, <2>1, <2>2 DEF ResolveEmail
<1>8. CASE ResolveFallback(h)
  <2>1. CASE WithMail(h, Fallback[s.subject])
    BY <1>2, <1>4, <1>8, <2>1, Addressing DEF ResolveFallback, AtStep
  <2>2. CASE End(h)
    BY <1>2, <2>2, Ending, Quietly
  <2> QED BY <1>8, <2>1, <2>2 DEF ResolveFallback
<1> QED BY <1>5, <1>6, <1>7, <1>8

-----------------------------------------------------------------------------
(* The requests of administrators *)

LEMMA ReadingRow ==
    ASSUME AccountsInv, NEW h \in Handlers, ReadRow(h)
    PROVE  AccountsInv'
<1>1. PICK s \in HandlerType : s = handlers[h] /\ Owns(rows, s) /\ s.pc = "read"
  BY Handling DEF ReadRow, AtStep
<1>2. s.on \in Accounts /\ s.on # None /\ rows[s.on].name # None
  BY <1>1 DEF Owns, Found
<1>3. PICK row \in RowType : row = rows[s.on] /\ row.name # None /\ row.mail # None
  BY <1>2 DEF AccountsInv, AccountsTypeOK, Nobody
<1>4. PICK pc \in {"count", "write"}, n \in RowType :
         /\ n.subject = row.subject /\ n.name # None /\ n.mail # None
         /\ s.kind \in {"update", "deactivate", "reactivate"}
         /\ handlers' = [handlers EXCEPT ![h].pc = pc, ![h].seen = row, ![h].next = n]
  <2>1. CASE /\ s.kind = "update"
             /\ \E form \in Forms : handlers' = [handlers EXCEPT ![h].pc = "count",
                    ![h].seen = row, ![h].next = NewRow(form, row.subject)]
    <3>1. PICK form \in Forms : handlers' = [handlers EXCEPT ![h].pc = "count",
                    ![h].seen = row, ![h].next = NewRow(form, row.subject)]
      BY <2>1
    <3>2. /\ NewRow(form, row.subject) \in RowType
          /\ NewRow(form, row.subject).subject = row.subject
          /\ NewRow(form, row.subject).name # None /\ NewRow(form, row.subject).mail # None
      BY AccountsConstants DEF NewRow, RowType, Roles, Statuses
    <3> QED BY <2>1, <3>1, <3>2
  <2>2. ASSUME NEW status \in Statuses
        PROVE  LET n == [row EXCEPT !.status = status]
               IN  n \in RowType /\ n.subject = row.subject /\ n.name = row.name /\ n.mail = row.mail
    BY DEF RowType
  <2>3. CASE s.kind = "deactivate" /\ handlers' = [handlers EXCEPT ![h].pc = "count",
                    ![h].seen = row, ![h].next = [row EXCEPT !.status = "deactivated"]]
    BY <1>3, <2>2, <2>3 DEF Statuses
  <2>4. CASE s.kind = "reactivate" /\ handlers' = [handlers EXCEPT ![h].pc = "write",
                    ![h].seen = row, ![h].next = [row EXCEPT !.status = "active"]]
    BY <1>3, <2>2, <2>4 DEF Statuses
  <2> QED BY <1>1, <1>3, <2>1, <2>3, <2>4 DEF ReadRow
<1> DEFINE r == [s EXCEPT !.pc = pc, !.seen = row, !.next = n]
<1>5. r \in HandlerType /\ r.state = s.state
  BY DEF HandlerType
<1>6. Owns(rows, r)
  BY <1>1, <1>2, <1>3, <1>4 DEF HandlerType, Owns, Found
<1>7. handlers' = [handlers EXCEPT ![h] = r]
  BY <1>1, <1>4 DEF AccountsInv, AccountsTypeOK, HandlerType
<1> QED BY <1>1, <1>5, <1>6, <1>7, Quietly, HandlerChanges DEF ReadRow

LEMMA Ensuring ==
    ASSUME AccountsInv, NEW h \in Handlers, EnsureNotLastActiveAdmin(h)
    PROVE  AccountsInv'
<1>1. PICK s \in HandlerType : s = handlers[h] /\ Owns(rows, s) /\ s.pc = "count"
  BY Handling DEF EnsureNotLastActiveAdmin, AtStep
<1>2. CASE End(h)
  BY <1>2, Ending, Quietly DEF EnsureNotLastActiveAdmin
<1>3. ASSUME NEW count \in Nat,
             handlers' = [handlers EXCEPT ![h] = [s EXCEPT !.pc = "write", !.count = count]]
      PROVE  AccountsInv'
  <2> DEFINE r == [s EXCEPT !.pc = "write", !.count = count]
  <2>1. r \in HandlerType /\ r.state = s.state
    BY DEF HandlerType
  <2>2. Owns(rows, r)
    BY <1>1 DEF HandlerType, Owns, LoginSteps
  <2> QED BY <1>1, <1>3, <2>1, <2>2, Quietly, HandlerChanges DEF EnsureNotLastActiveAdmin
<1>4. CASE Move(h, "write")
  <2>1. handlers' = [handlers EXCEPT ![h] = [s EXCEPT !.pc = "write", !.count = s.count]]
    BY <1>1, <1>4 DEF Move, AccountsInv, AccountsTypeOK, HandlerType
  <2>2. s.count \in Nat
    BY DEF HandlerType
  <2> QED BY <1>3, <2>1, <2>2
<1>5. CASE handlers' = [handlers EXCEPT ![h].pc = "write", ![h].count = Cardinality(ActiveAdmins)]
  <2>1. Cardinality(ActiveAdmins) \in Nat
    BY AccountsConstants, FS_Subset, FS_CardinalityType DEF ActiveAdmins
  <2>2. handlers' = [handlers EXCEPT ![h] =
                       [s EXCEPT !.pc = "write", !.count = Cardinality(ActiveAdmins)]]
    BY <1>1, <1>5 DEF AccountsInv, AccountsTypeOK, HandlerType
  <2> QED BY <1>3, <2>1, <2>2
<1> QED BY <1>2, <1>4, <1>5 DEF EnsureNotLastActiveAdmin

-----------------------------------------------------------------------------
(* The table is written *)

\* An account keeps its subject and does not disappear.
SubjectsKept == \A a \in Accounts : Exists(a) => Exists(a)' /\ rows'[a].subject = rows[a].subject

TableSound ==
    /\ RowsTyped(rows') /\ Unique(rows') /\ SubjectsKept
    /\ \A s \in HandlerType : Owns(rows, s) => Owns(rows', s)

LEMMA RowWritten ==
    ASSUME AccountsInv, NEW a \in Accounts, NEW row \in RowType,
           row.name # None, row.mail # None, Identified(row.subject) \subseteq {a},
           Exists(a) => row.subject = rows[a].subject,
           rows' = [rows EXCEPT ![a] = row]
    PROVE  TableSound
<1>1. \A b \in Accounts : rows'[b] = IF b = a THEN row ELSE rows[b]
  BY DEF AccountsInv, AccountsTypeOK
<1>2. RowsTyped(rows')
  BY <1>1 DEF RowsTyped, AccountsInv, AccountsTypeOK
<1>3. SubjectsKept
  BY <1>1 DEF SubjectsKept, Exists
<1>4. Unique(rows')
  <2> SUFFICES ASSUME NEW b \in Accounts, NEW c \in Accounts,
                      rows'[b].subject = rows'[c].subject, rows'[b].subject # None
               PROVE  b = c
    BY DEF Unique
  <2>1. \A d \in Accounts : d # a => rows[d].subject # row.subject \/ row.subject = None
    BY DEF Identified, Exists, AccountsInv, AccountsTypeOK, Nobody
  <2> QED BY <1>1, <2>1 DEF AccountsInv, Unique
<1>5. ASSUME NEW s \in HandlerType, Owns(rows, s)
      PROVE  Owns(rows', s)
  <2>1. CASE s.on = None
    BY <1>5, <2>1 DEF Owns, Found
  <2>2. CASE s.on # None
    <3>1. s.on \in Accounts /\ Exists(s.on) /\ rows'[s.on].subject = rows[s.on].subject
          /\ rows'[s.on].name # None
      BY <1>3, <1>5, <2>2 DEF Owns, Found, SubjectsKept, Exists
    <3> QED BY <1>5, <2>2, <3>1 DEF Owns, Found
  <2> QED BY <2>1, <2>2
<1> QED BY <1>2, <1>3, <1>4, <1>5 DEF TableSound

LEMMA RowInserted ==
    ASSUME AccountsInv, NEW row \in RowType, row.name # None, row.mail # None,
           Writable(row, None), Insert(row)
    PROVE  TableSound /\ Fresh \in Accounts /\ rows'[Fresh] = row
<1>1. Fresh \in Accounts /\ ~Exists(Fresh)
  BY DEF Insert, Fresh
<1>2. Identified(row.subject) \subseteq {Fresh}
  BY AccountsConstants DEF Writable, Identified
<1>3. rows' = [rows EXCEPT ![Fresh] = row]
  BY DEF Insert
<1>4. rows'[Fresh] = row
  BY <1>1, <1>3 DEF AccountsInv, AccountsTypeOK
<1> QED BY <1>1, <1>2, <1>3, <1>4, RowWritten

LEMMA TableChanges ==
    ASSUME AccountsInv, NEW h \in Handlers, NEW r \in HandlerType, Owns(rows', r),
           r.state \in {handlers[h].state, None},
           handlers' = [handlers EXCEPT ![h] = r], TableSound,
           states' \subseteq states, RestTyped
    PROVE  AccountsInv'
<1>1. AccountsTypeOK'
  BY DEF AccountsInv, AccountsTypeOK, RestTyped, TableSound, RowsTyped
<1>2. \A k \in Handlers : handlers'[k] = IF k = h THEN r ELSE handlers[k]
  BY DEF AccountsInv, AccountsTypeOK
<1>3. \A k \in Handlers : Owns(rows', handlers'[k])
  BY <1>2 DEF AccountsInv, AccountsTypeOK, TableSound
<1>4. Separate'
  BY <1>2, AccountsConstants DEF AccountsInv, AccountsTypeOK, Separate
<1> QED BY <1>1, <1>3, <1>4 DEF AccountsInv, TableSound

LEMMA WritingRow ==
    ASSUME AccountsInv, NEW h \in Handlers, WriteRow(h)
    PROVE  AccountsInv' /\ (rows' = rows \/ SubjectsKept)
<1>1. PICK s \in HandlerType : s = handlers[h] /\ Owns(rows, s) /\ s.pc = "write"
  BY Handling DEF WriteRow, AtStep
<1>2. states' \subseteq states /\ RestTyped
  BY DEF WriteRow, RestTyped, AccountsInv, AccountsTypeOK
<1>3. s.next \in RowType /\ s.next.name # None /\ s.next.mail # None
  BY <1>1 DEF HandlerType, Owns
<1> DEFINE Granting(b) == [s EXCEPT !.pc = "grant", !.on = b]
<1>4. ASSUME NEW b \in Accounts, s.kind = "oidc", TableSound, rows'[b] = s.next,
             handlers' = [handlers EXCEPT ![h].pc = "grant", ![h].on = b]
      PROVE  AccountsInv'
  <2>1. Granting(b) \in HandlerType /\ Granting(b).state = s.state
    BY DEF HandlerType
  <2>2. Owns(rows', Granting(b))
    BY <1>1, <1>3, <1>4, AccountsConstants DEF HandlerType, Owns, Found, LoginSteps
  <2>3. handlers' = [handlers EXCEPT ![h] = Granting(b)]
    BY <1>1, <1>4 DEF AccountsInv, AccountsTypeOK, HandlerType
  <2> QED BY <1>1, <1>2, <1>4, <2>1, <2>2, <2>3, TableChanges
<1>5. CASE End(h) /\ UNCHANGED rows
  BY <1>2, <1>5, Ending
<1>6. CASE Writable(s.next, s.on) /\ s.on # None /\ rows' = [rows EXCEPT ![s.on] = s.next]
  <2>1. s.on \in Accounts /\ s.next.subject = rows[s.on].subject
    BY <1>1, <1>6 DEF Owns, Found, LoginSteps
  <2>2. TableSound /\ rows'[s.on] = s.next
    BY <1>3, <1>6, <2>1, RowWritten DEF Writable, AccountsInv, AccountsTypeOK
  <2>3. CASE s.kind = "oidc"
    <3>1. handlers' = [handlers EXCEPT ![h].pc = "grant", ![h].on = s.on]
      BY <1>1, <1>6, <2>3 DEF WriteRow
    <3> QED BY <1>4, <2>1, <2>2, <2>3, <3>1 DEF TableSound
  <2>4. CASE s.kind # "oidc"
    <3>1. End(h)
      BY <1>1, <1>6, <2>4 DEF WriteRow
    <3>2. Owns(rows', Resting) /\ Resting \in HandlerType /\ Resting.state = None
      BY <2>2, RestingIsSound DEF TableSound
    <3> QED BY <1>2, <2>2, <3>1, <3>2, TableChanges DEF End, TableSound
  <2> QED BY <2>3, <2>4
<1>7. CASE /\ Writable(s.next, s.on) /\ s.on = None /\ Insert(s.next)
           /\ handlers' = [handlers EXCEPT ![h].pc = "grant", ![h].on = Fresh]
  <2>1. s.kind = "oidc"
    BY <1>1, <1>7 DEF Owns
  <2>2. TableSound /\ Fresh \in Accounts /\ rows'[Fresh] = s.next
    BY <1>3, <1>7, RowInserted
  <2> QED BY <1>4, <1>7, <2>1, <2>2 DEF TableSound
<1> QED BY <1>1, <1>5, <1>6, <1>7 DEF WriteRow

-----------------------------------------------------------------------------
(* The other steps *)

LEMMA Granting ==
    ASSUME AccountsInv, NEW h \in Handlers, Grant(h)
    PROVE  AccountsInv'
<1>1. handlers[h].on \in Accounts
  BY Handling DEF Grant, AtStep, Owns, Found
<1>2. rows' = rows /\ states' \subseteq states /\ RestTyped /\ End(h)
  BY <1>1 DEF Grant, RestTyped, AccountsInv, AccountsTypeOK
<1> QED BY <1>2, Ending

LEMMA Failing ==
    ASSUME AccountsInv, NEW h \in Handlers, StatementFails(h)
    PROVE  AccountsInv'
<1>1. rows' = rows /\ states' \subseteq states /\ RestTyped /\ End(h)
  BY AccountsConstants DEF StatementFails, RestTyped, AccountsInv, AccountsTypeOK
<1> QED BY <1>1, Ending

LEMMA Counting ==
    ASSUME AccountsInv, Request
    PROVE  requests' \in 0..MaxRequests
BY AccountsConstants DEF Request, AccountsInv, AccountsTypeOK

LEMMA States ==
    ASSUME AccountsInv, NEW st \in StateIds, StartOIDCLogin(st) \/ StateExpires(st)
    PROVE  AccountsInv'
<1>1. AccountsTypeOK'
  BY Counting DEF StartOIDCLogin, StateExpires, AccountsInv, AccountsTypeOK
<1>2. Separate'
  BY DEF StartOIDCLogin, StateExpires, AccountsInv, Separate
<1>3. rows' = rows /\ handlers' = handlers
  BY DEF StartOIDCLogin, StateExpires
<1> QED BY <1>1, <1>2, <1>3 DEF AccountsInv

LEMMA CallingBack ==
    ASSUME AccountsInv, NEW h \in Handlers, NEW st \in StateIds, CompleteOIDCCallback(h, st)
    PROVE  AccountsInv'
<1> DEFINE r == [Resting EXCEPT !.pc = "exchange", !.kind = "oidc", !.state = st, !.on = None]
<1>1. r \in HandlerType /\ r.state = st
  BY DEF Resting, HandlerType, Nobody, RowType, Roles, Statuses
<1>2. Owns(rows, r)
  BY DEF Resting, Owns, Found, LoginSteps
<1>3. handlers' = [handlers EXCEPT ![h] = r] /\ rows' = rows
  BY DEF CompleteOIDCCallback, Begin
<1> HIDE DEF r
<1>4. \A k \in Handlers : handlers'[k] = IF k = h THEN r ELSE handlers[k]
  BY <1>3 DEF AccountsInv, AccountsTypeOK
<1>5. AccountsTypeOK'
  BY <1>1, <1>3 DEF CompleteOIDCCallback, Consumed, AccountsInv, AccountsTypeOK
<1>6. Separate'
  BY <1>1, <1>4 DEF CompleteOIDCCallback, Consumed, AccountsInv, Separate
<1> QED BY <1>2, <1>3, <1>4, <1>5, <1>6 DEF AccountsInv

LEMMA Administering ==
    ASSUME AccountsInv, NEW h \in Handlers, Administer(h)
    PROVE  AccountsInv'
<1>1. PICK a \in Accounts, kind \in {"update", "deactivate", "reactivate"} :
         Exists(a) /\ Begin(h, "read", kind, None, a)
  BY DEF Administer
<1> DEFINE r == [Resting EXCEPT !.pc = "read", !.kind = kind, !.state = None, !.on = a]
<1>2. r \in HandlerType /\ r.state = None
  BY DEF Resting, HandlerType, Nobody, RowType, Roles, Statuses
<1>3. Owns(rows, r)
  BY <1>1, AccountsConstants DEF Resting, Owns, Found, LoginSteps, Exists
<1>4. handlers' = [handlers EXCEPT ![h] = r] /\ rows' = rows /\ states' \subseteq states
  BY <1>1 DEF Administer, Begin
<1>5. RestTyped
  BY Counting DEF Administer, RestTyped, AccountsInv, AccountsTypeOK
<1> QED BY <1>2, <1>3, <1>4, <1>5, HandlerChanges

\* A step that leaves the handlers and the states alone.
LEMMA OnlyRows ==
    ASSUME AccountsInv, TableSound, UNCHANGED <<states, handlers>>, RestTyped
    PROVE  AccountsInv'
<1>1. AccountsTypeOK'
  BY DEF AccountsInv, AccountsTypeOK, RestTyped, TableSound, RowsTyped
<1> QED BY <1>1 DEF AccountsInv, AccountsTypeOK, TableSound, Separate

LEMMA Creating ==
    ASSUME AccountsInv, CreateAccount
    PROVE  AccountsInv' /\ SubjectsKept
<1>1. PICK form \in Forms : Writable(NewRow(form, None), None) /\ Insert(NewRow(form, None))
  BY DEF CreateAccount
<1>2. /\ NewRow(form, None) \in RowType
      /\ NewRow(form, None).name # None /\ NewRow(form, None).mail # None
  BY AccountsConstants DEF NewRow, RowType, Roles, Statuses
<1>3. TableSound
  BY <1>1, <1>2, RowInserted
<1>4. RestTyped /\ UNCHANGED <<states, handlers>>
  BY Counting DEF CreateAccount, RestTyped, AccountsInv, AccountsTypeOK
<1> QED BY <1>3, <1>4, OnlyRows DEF TableSound

LEMMA LoggingIn ==
    ASSUME AccountsInv, NEW a \in Accounts, Login(a)
    PROVE  AccountsInv'
BY DEF Login, AccountsInv, AccountsTypeOK, Separate

LEMMA Restarting ==
    ASSUME AccountsInv, Restart
    PROVE  AccountsInv' /\ (rows' = rows \/ SubjectsKept)
<1>1. /\ BootstrapRow \in RowType
      /\ BootstrapRow.name # None /\ BootstrapRow.mail # None
  BY AccountsConstants DEF BootstrapRow, RowType, Roles, Statuses
<1>2. rows' = rows \/ TableSound
  <2>1. CASE \E a \in Named(Bootstrap.name) : rows' = [rows EXCEPT ![a].status = "active"]
    <3>1. PICK a \in Accounts : /\ rows[a].name = Bootstrap.name
                                /\ rows' = [rows EXCEPT ![a].status = "active"]
      BY <2>1 DEF Named
    <3>2. PICK row \in RowType : row = rows[a] /\ row.name # None /\ row.mail # None
      BY <3>1, AccountsConstants DEF AccountsInv, AccountsTypeOK, Nobody
    <3> DEFINE n == [row EXCEPT !.status = "active"]
    <3>3. /\ n \in RowType /\ n.name = row.name /\ n.mail = row.mail
          /\ n.subject = row.subject
      BY DEF RowType, Statuses
    <3>4. rows' = [rows EXCEPT ![a] = n]
      BY <3>1, <3>2
    <3>5. Identified(n.subject) \subseteq {a}
      BY <3>2, <3>3 DEF Identified, AccountsInv, Unique
    <3> HIDE DEF n
    <3> QED BY <3>2, <3>3, <3>4, <3>5, RowWritten
  <2>2. CASE Writable(BootstrapRow, None) /\ Insert(BootstrapRow)
    BY <1>1, <2>2, RowInserted
  <2> QED BY <2>1, <2>2 DEF Restart
<1>3. requests' \in 0..MaxRequests
  BY AccountsConstants DEF Restart, AccountsInv, AccountsTypeOK
<1>4. /\ states' = {} /\ tokens' = tokens /\ up' \in BOOLEAN
      /\ handlers' = [h \in Handlers |-> Resting]
  BY DEF Restart
<1>5. RowsTyped(rows') /\ Unique(rows') /\ Owns(rows', Resting)
  BY <1>2, RestingIsSound DEF TableSound, AccountsInv, AccountsTypeOK, RowsTyped
<1>6. AccountsTypeOK'
  BY <1>3, <1>4, <1>5, RestingIsSound DEF AccountsInv, AccountsTypeOK, RowsTyped
<1>7. Separate'
  BY <1>4, RestingIsSound DEF Separate
<1> QED BY <1>2, <1>4, <1>5, <1>6, <1>7 DEF AccountsInv, TableSound

-----------------------------------------------------------------------------
(* Every behaviour *)

LEMMA AccountsInitially ==
    ASSUME AccountsInit
    PROVE  AccountsInv
<1>1. PICK a \in Accounts : rows = [[b \in Accounts |-> Nobody] EXCEPT ![a] = BootstrapRow]
                            /\ tokens = {a}
  BY AccountsConstants DEF AccountsInit
<1>2. \A b \in Accounts : rows[b] = IF b = a THEN BootstrapRow ELSE Nobody
  BY <1>1
<1>3. /\ BootstrapRow \in RowType /\ Nobody \in RowType
      /\ BootstrapRow.name # None /\ BootstrapRow.mail # None
      /\ BootstrapRow.subject = None /\ Nobody.subject = None
  BY AccountsConstants DEF BootstrapRow, Nobody, RowType, Roles, Statuses
<1>4. rows \in [Accounts -> RowType]
  BY <1>1, <1>3
<1>5. Resting \in HandlerType /\ Owns(rows, Resting) /\ Resting.state = None
  BY DEF Resting, HandlerType, RowType, Nobody, Roles, Statuses, Owns, Found
<1>6. AccountsTypeOK
  BY <1>1, <1>2, <1>3, <1>4, <1>5, AccountsConstants DEF AccountsInit, AccountsTypeOK
<1>7. Unique(rows)
  BY <1>2, <1>3 DEF Unique
<1>8. (\A h \in Handlers : Owns(rows, handlers[h])) /\ Separate
  BY <1>5 DEF AccountsInit, Separate
<1> QED BY <1>6, <1>7, <1>8 DEF AccountsInv

LEMMA AccountsStep ==
    ASSUME AccountsInv, AccountsNext
    PROVE  AccountsInv' /\ (rows' = rows \/ SubjectsKept)
<1>1. CASE \E st \in StateIds : StartOIDCLogin(st) \/ StateExpires(st)
  BY <1>1, States DEF StartOIDCLogin, StateExpires
<1>2. CASE \E h \in Handlers, st \in StateIds : CompleteOIDCCallback(h, st)
  BY <1>2, CallingBack DEF CompleteOIDCCallback
<1>3. CASE \E h \in Handlers : Administer(h)
  BY <1>3, Administering DEF Administer
<1>4. CASE \E h \in Handlers : HandlerStep(h)
  <2>1. PICK h \in Handlers : HandlerStep(h)
    BY <1>4
  <2>2. CASE WriteRow(h)
    BY <2>2, WritingRow
  <2>3. CASE Grant(h) \/ StatementFails(h)
    BY <2>3, Granting, Failing DEF Grant, StatementFails
  <2>4. CASE ~(WriteRow(h) \/ Grant(h) \/ StatementFails(h))
    <3>1. OnlyHandlers
      BY <2>1, <2>4 DEF HandlerStep, ExchangeCode, ReadIdentity, ResolveUsername,
                        ResolveCandidate, ResolveEmail, ResolveFallback, ReadRow,
                        EnsureNotLastActiveAdmin
    <3>2. AccountsInv'
      BY <2>1, <2>4, Exchanging, ReadingIdentity, Resolving, ReadingRow, Ensuring
      DEF HandlerStep
    <3> QED BY <3>1, <3>2 DEF OnlyHandlers
  <2> QED BY <2>2, <2>3, <2>4
<1>5. CASE CreateAccount
  BY <1>5, Creating
<1>6. CASE \E a \in Accounts : Login(a)
  BY <1>6, LoggingIn DEF Login
<1>7. CASE Restart
  BY <1>7, Restarting
<1> QED BY <1>1, <1>2, <1>3, <1>4, <1>5, <1>6, <1>7 DEF AccountsNext

LEMMA AccountsStutter ==
    ASSUME AccountsInv, UNCHANGED accountVars
    PROVE  AccountsInv' /\ rows' = rows
BY DEF accountVars, AccountsInv, AccountsTypeOK, Separate

-----------------------------------------------------------------------------

\* Type correctness of the accounts, the states and the handlers.
THEOREM AccountsTyped == AccountsSpec => []AccountsTypeOK
<1>1. AccountsInv => AccountsTypeOK
  BY DEF AccountsInv
<1> QED BY <1>1, AccountsInitially, AccountsStep, AccountsStutter, PTL DEF AccountsSpec

\* One state of an OIDC login is in the hands of one callback, and is then no
\* longer among the states a second one could present.
THEOREM OneStateOneLogin == AccountsSpec => []Separate
<1>1. AccountsInv => Separate
  BY DEF AccountsInv
<1> QED BY <1>1, AccountsInitially, AccountsStep, AccountsStutter, PTL DEF AccountsSpec

\* An identity signs in to the one account that carries it, and an account
\* keeps its identity, for any number of concurrent callbacks and requests.
THEOREM LoginsOwned == AccountsSpec => LoginsAreOwned
<1>1. ASSUME AccountsInv
      PROVE  \A h \in Handlers : SignedInAsSelf(h)
  <2> SUFFICES ASSUME NEW h \in Handlers, handlers[h].pc = "grant"
               PROVE  Identified(handlers[h].subject) = {handlers[h].on}
    BY DEF SignedInAsSelf
  <2>1. PICK s \in HandlerType : s = handlers[h] /\ Owns(rows, s) /\ s.pc = "grant"
    BY <1>1, Handling
  <2>2. /\ s.on \in Accounts /\ rows[s.on].name # None
        /\ s.subject # None /\ rows[s.on].subject = s.subject
    BY <2>1 DEF Owns, Found, LoginSteps
  <2> QED BY <1>1, <2>1, <2>2 DEF Identified, Exists, AccountsInv, Unique
<1>2. ASSUME AccountsInv, [AccountsNext]_accountVars
      PROVE  [\A a \in Accounts : Exists(a) => rows'[a].subject = rows[a].subject]_accountVars
  BY <1>2, AccountsStep DEF SubjectsKept, accountVars
<1> QED
  BY <1>1, <1>2, AccountsInitially, AccountsStep, AccountsStutter, PTL
  DEF AccountsSpec, LoginsAreOwned

-----------------------------------------------------------------------------
(* The last administrator *)

\* A handler that is about to take an administrator away counted more than one.
CountedMore(s) ==
    s.pc = "write" /\ ActiveAdminRow(s.seen) /\ ~ActiveAdminRow(s.next) => s.count > 1
AdminsInv == AccountsInv /\ \A h \in Handlers : CountedMore(handlers[h])

LEMMA AdminsFinite ==
    IsFiniteSet(ActiveAdmins) /\ Cardinality(ActiveAdmins) \in Nat
<1>1. ActiveAdmins \in SUBSET Accounts BY DEF ActiveAdmins
<1>2. IsFiniteSet(ActiveAdmins) BY <1>1, AccountsConstants, FS_Subset
<1> QED BY <1>2, FS_CardinalityType

LEMMA OneHandler ==
    ASSUME AdminsInv, NEW h \in Handlers, NEW r, CountedMore(r),
           handlers' = [handlers EXCEPT ![h] = r]
    PROVE  \A k \in Handlers : CountedMore(handlers'[k])
BY DEF AdminsInv, AccountsInv, AccountsTypeOK

\* A step to anything but a write owes nothing.
LEMMA NotWriting ==
    ASSUME AdminsInv, NEW h \in Handlers, NEW r, r.pc # "write",
           handlers' = [handlers EXCEPT ![h] = r]
    PROVE  \A k \in Handlers : CountedMore(handlers'[k])
<1>1. CountedMore(r) BY DEF CountedMore
<1> QED BY <1>1, OneHandler

LEMMA EndCounted ==
    ASSUME AdminsInv, NEW h \in Handlers, End(h)
    PROVE  \A k \in Handlers : CountedMore(handlers'[k])
<1>1. Resting.pc # "write" BY DEF Resting
<1> QED BY <1>1, NotWriting DEF End

LEMMA EnsuredCounted ==
    ASSUME AdminsInv, NEW h \in Handlers, EnsureNotLastActiveAdmin(h)
    PROVE  \A k \in Handlers : CountedMore(handlers'[k])
<1>1. PICK s \in HandlerType : s = handlers[h]
  BY Handling DEF AdminsInv
<1>2. PICK n \in Nat : n = Cardinality(ActiveAdmins) BY AdminsFinite
<1>3. CASE ~Demotes(h)
  <2> DEFINE r == [s EXCEPT !.pc = "write"]
  <2>1. r.seen = s.seen /\ r.next = s.next BY DEF HandlerType
  <2>2. handlers' = [handlers EXCEPT ![h] = r]
    BY <1>1, <1>3 DEF EnsureNotLastActiveAdmin, Move, AdminsInv, AccountsInv, AccountsTypeOK
  <2>3. CountedMore(r) BY <1>1, <1>3, <2>1 DEF CountedMore, Demotes
  <2> HIDE DEF r
  <2> QED BY <2>2, <2>3, OneHandler
<1>4. CASE Demotes(h) /\ LastOne(n)
  <2>1. End(h) BY <1>2, <1>4 DEF EnsureNotLastActiveAdmin
  <2> QED BY <2>1, EndCounted
<1>5. CASE Demotes(h) /\ ~LastOne(n)
  <2> DEFINE r == [s EXCEPT !.pc = "write", !.count = n]
  <2>1. handlers' = [handlers EXCEPT ![h].pc = "write", ![h].count = n]
    BY <1>2, <1>5 DEF EnsureNotLastActiveAdmin
  <2>2. handlers' = [handlers EXCEPT ![h] = r]
    BY <1>1, <2>1 DEF AdminsInv, AccountsInv, AccountsTypeOK, HandlerType
  <2>3. r.count = n BY DEF HandlerType
  <2>4. n > 1 BY <1>5 DEF LastOne
  <2>5. CountedMore(r) BY <2>3, <2>4 DEF CountedMore
  <2> HIDE DEF r
  <2> QED BY <2>2, <2>5, OneHandler
<1> QED BY <1>3, <1>4, <1>5

LEMMA ReadCounted ==
    ASSUME AdminsInv, NEW h \in Handlers, ReadRow(h)
    PROVE  \A k \in Handlers : CountedMore(handlers'[k])
<1>1. PICK s \in HandlerType : s = handlers[h]
  BY Handling DEF AdminsInv
<1>2. PICK row : row = rows[s.on] OBVIOUS
<1>3. ASSUME NEW next,
             handlers' = [handlers EXCEPT ![h].pc = "count", ![h].seen = row, ![h].next = next]
      PROVE  \A k \in Handlers : CountedMore(handlers'[k])
  <2> DEFINE r == [s EXCEPT !.pc = "count", !.seen = row, !.next = next]
  <2>1. handlers' = [handlers EXCEPT ![h] = r]
    BY <1>1, <1>3 DEF AdminsInv, AccountsInv, AccountsTypeOK, HandlerType
  <2>2. r.pc = "count" BY DEF HandlerType
  <2> HIDE DEF r
  <2> QED BY <2>1, <2>2, NotWriting
<1>4. CASE handlers[h].kind = "reactivate"
  <2>0. s.kind = "reactivate" /\ s.pc = "read" BY <1>1, <1>4 DEF ReadRow, AtStep
  <2>1. row \in RowType
    <3>1. s.on \in Accounts
      BY <1>1, <2>0, Handling, AccountsConstants DEF AdminsInv, Owns, Found
    <3> QED BY <1>2, <3>1 DEF AdminsInv, AccountsInv, AccountsTypeOK
  <2> DEFINE n == [row EXCEPT !.status = "active"]
             r == [s EXCEPT !.pc = "write", !.seen = row, !.next = n]
  <2>2. n.name = row.name /\ n.role = row.role /\ n.status = "active"
    BY <2>1 DEF RowType
  <2>3. ActiveAdminRow(row) => ActiveAdminRow(n) BY <2>2 DEF ActiveAdminRow
  <2> HIDE DEF n
  <2>4. handlers' = [handlers EXCEPT ![h].pc = "write", ![h].seen = row, ![h].next = n]
    BY <1>1, <1>2, <1>4 DEF ReadRow, n
  <2>5. handlers' = [handlers EXCEPT ![h] = r]
    BY <1>1, <2>4 DEF AdminsInv, AccountsInv, AccountsTypeOK, HandlerType
  <2>6. r.seen = row /\ r.next = n BY DEF HandlerType
  <2>7. CountedMore(r) BY <2>3, <2>6 DEF CountedMore
  <2> HIDE DEF r
  <2> QED BY <2>5, <2>7, OneHandler
<1>5. CASE handlers[h].kind # "reactivate"
  <2>1. \E next : handlers' = [handlers EXCEPT ![h].pc = "count", ![h].seen = row,
                                               ![h].next = next]
    BY <1>1, <1>2, <1>5 DEF ReadRow
  <2> QED BY <1>3, <2>1
<1> QED BY <1>4, <1>5

\* The steps of a login before the count.
LEMMA LoginCounted ==
    ASSUME AdminsInv, NEW h \in Handlers,
           ExchangeCode(h) \/ ReadIdentity(h) \/ ResolveUsername(h) \/ ResolveCandidate(h)
             \/ ResolveEmail(h) \/ ResolveFallback(h)
    PROVE  \A k \in Handlers : CountedMore(handlers'[k])
<1>1. PICK s \in HandlerType : s = handlers[h]
  BY Handling DEF AdminsInv
<1>2. ASSUME NEW pc, pc # "write", Move(h, pc)
      PROVE  \A k \in Handlers : CountedMore(handlers'[k])
  <2> DEFINE r == [s EXCEPT !.pc = pc]
  <2>1. r.pc = pc BY DEF HandlerType
  <2>2. handlers' = [handlers EXCEPT ![h] = r]
    BY <1>1, <1>2 DEF Move, AdminsInv, AccountsInv, AccountsTypeOK
  <2> HIDE DEF r
  <2> QED BY <1>2, <2>1, <2>2, NotWriting
<1>3. ASSUME \E name : WithName(h, name)
      PROVE  \A k \in Handlers : CountedMore(handlers'[k])
  <2> PICK name : WithName(h, name) BY <1>3
  <2> DEFINE n == [s.next EXCEPT !.name = name]
             r == [s EXCEPT !.pc = "mail", !.next = n]
  <2>1. r.pc = "mail" BY DEF HandlerType
  <2>2. handlers' = [handlers EXCEPT ![h] = r]
    BY <1>1 DEF WithName, AdminsInv, AccountsInv, AccountsTypeOK, HandlerType, RowType
  <2> HIDE DEF r
  <2> QED BY <2>1, <2>2, NotWriting
<1>4. ASSUME \E mail : WithMail(h, mail)
      PROVE  \A k \in Handlers : CountedMore(handlers'[k])
  <2> PICK mail : WithMail(h, mail) BY <1>4
  <2> DEFINE n == [s.next EXCEPT !.mail = mail]
             r == [s EXCEPT !.pc = "count", !.next = n]
  <2>1. r.pc = "count" BY DEF HandlerType
  <2>2. handlers' = [handlers EXCEPT ![h] = r]
    BY <1>1 DEF WithMail, AdminsInv, AccountsInv, AccountsTypeOK, HandlerType, RowType
  <2> HIDE DEF r
  <2> QED BY <2>1, <2>2, NotWriting
<1>5. CASE ExchangeCode(h)
  <2>1. CASE End(h) BY <2>1, EndCounted
  <2>2. CASE \E u \in Subjects, role \in Roles :
               handlers' = [handlers EXCEPT ![h].pc = "identity", ![h].subject = u,
                              ![h].next = [Nobody EXCEPT !.subject = u, !.role = role]]
    <3>1. PICK u, m : handlers' = [handlers EXCEPT ![h].pc = "identity", ![h].subject = u,
                                                   ![h].next = m]
      BY <2>2
    <3> DEFINE r == [s EXCEPT !.pc = "identity", !.subject = u, !.next = m]
    <3>2. r.pc = "identity" BY DEF HandlerType
    <3>3. handlers' = [handlers EXCEPT ![h] = r]
      BY <1>1, <3>1 DEF AdminsInv, AccountsInv, AccountsTypeOK, HandlerType
    <3> HIDE DEF r
    <3> QED BY <3>2, <3>3, NotWriting
  <2> QED BY <1>5, <2>1, <2>2 DEF ExchangeCode
<1>6. CASE ReadIdentity(h)
  <2>1. CASE handlers' = [handlers EXCEPT ![h].pc = "name", ![h].next.status = "active"]
    <3> DEFINE n == [s.next EXCEPT !.status = "active"]
               r == [s EXCEPT !.pc = "name", !.next = n]
    <3>1. r.pc = "name" BY DEF HandlerType
    <3>2. handlers' = [handlers EXCEPT ![h] = r]
      BY <1>1, <2>1 DEF AdminsInv, AccountsInv, AccountsTypeOK, HandlerType, RowType
    <3> HIDE DEF r
    <3> QED BY <3>1, <3>2, NotWriting
  <2>2. CASE \E a : handlers' = [handlers EXCEPT ![h].pc = "name", ![h].on = a,
                                   ![h].seen = rows[a], ![h].next.status = rows[a].status]
    <3>1. PICK a, row, status :
             handlers' = [handlers EXCEPT ![h].pc = "name", ![h].on = a,
                                          ![h].seen = row, ![h].next.status = status]
      BY <2>2
    <3> DEFINE n == [s.next EXCEPT !.status = status]
               r == [s EXCEPT !.pc = "name", !.on = a, !.seen = row, !.next = n]
    <3>2. r.pc = "name" BY DEF HandlerType
    <3>3. handlers' = [handlers EXCEPT ![h] = r]
      BY <1>1, <3>1 DEF AdminsInv, AccountsInv, AccountsTypeOK, HandlerType, RowType
    <3> HIDE DEF r
    <3> QED BY <3>2, <3>3, NotWriting
  <2> QED BY <1>6, <2>1, <2>2 DEF ReadIdentity
<1>7. CASE ResolveUsername(h) BY <1>2, <1>3, <1>7 DEF ResolveUsername
<1>8. CASE ResolveCandidate(h) BY <1>3, <1>8, EndCounted DEF ResolveCandidate
<1>9. CASE ResolveEmail(h) BY <1>2, <1>4, <1>9 DEF ResolveEmail
<1>10. CASE ResolveFallback(h) BY <1>4, <1>10, EndCounted DEF ResolveFallback
<1> QED BY <1>5, <1>6, <1>7, <1>8, <1>9, <1>10

LEMMA CountedStep ==
    ASSUME AdminsInv, AccountsNext
    PROVE  \A k \in Handlers : CountedMore(handlers'[k])
<1>0. ASSUME handlers' = handlers PROVE \A k \in Handlers : CountedMore(handlers'[k])
  BY <1>0 DEF AdminsInv
<1>1. CASE \/ \E st \in StateIds : StartOIDCLogin(st) \/ StateExpires(st)
           \/ CreateAccount \/ \E a \in Accounts : Login(a)
  BY <1>0, <1>1 DEF StartOIDCLogin, StateExpires, CreateAccount, Login
<1>2. ASSUME NEW h \in Handlers, NEW kind, NEW st, NEW on, NEW pc, pc # "write",
             Begin(h, pc, kind, st, on)
      PROVE  \A k \in Handlers : CountedMore(handlers'[k])
  <2> DEFINE r == [Resting EXCEPT !.pc = pc, !.kind = kind, !.state = st, !.on = on]
  <2>1. r.pc = pc BY DEF Resting
  <2>2. handlers' = [handlers EXCEPT ![h] = r] BY <1>2 DEF Begin
  <2> HIDE DEF r
  <2> QED BY <1>2, <2>1, <2>2, NotWriting
<1>3. CASE \E h \in Handlers, st \in StateIds : CompleteOIDCCallback(h, st)
  BY <1>2, <1>3 DEF CompleteOIDCCallback
<1>4. CASE \E h \in Handlers : Administer(h)
  BY <1>2, <1>4 DEF Administer
<1>5. ASSUME NEW h \in Handlers, HandlerStep(h)
      PROVE  \A k \in Handlers : CountedMore(handlers'[k])
  <2>1. CASE WriteRow(h)
    <3>1. CASE End(h) BY <3>1, EndCounted
    <3>2. CASE \E b : handlers' = [handlers EXCEPT ![h].pc = "grant", ![h].on = b]
      <4>1. PICK b : handlers' = [handlers EXCEPT ![h].pc = "grant", ![h].on = b] BY <3>2
      <4>2. PICK s \in HandlerType : s = handlers[h] BY Handling DEF AdminsInv
      <4> DEFINE r == [s EXCEPT !.pc = "grant", !.on = b]
      <4>3. r.pc = "grant" BY DEF HandlerType
      <4>4. handlers' = [handlers EXCEPT ![h] = r]
        BY <4>1, <4>2 DEF AdminsInv, AccountsInv, AccountsTypeOK, HandlerType
      <4> HIDE DEF r
      <4> QED BY <4>3, <4>4, NotWriting
    <3> QED BY <2>1, <3>1, <3>2 DEF WriteRow
  <2>2. CASE Grant(h) \/ StatementFails(h)
    BY <2>2, EndCounted DEF Grant, StatementFails
  <2> QED BY <1>5, <2>1, <2>2, LoginCounted, ReadCounted, EnsuredCounted DEF HandlerStep
<1>6. CASE Restart
  <2>1. \A k \in Handlers : handlers'[k] = Resting BY <1>6 DEF Restart
  <2> QED BY <2>1 DEF CountedMore, Resting
<1> QED BY <1>1, <1>3, <1>4, <1>5, <1>6 DEF AccountsNext

\* A row that is written for an account of its own, or that stays, keeps the
\* administrators there are.
LEMMA AdminStays ==
    ASSUME NEW a \in Accounts, rows[a].name = None \/ ActiveAdminRow(rows'[a]),
           \A b \in Accounts : b # a => rows'[b] = rows[b]
    PROVE  ActiveAdmins \subseteq ActiveAdmins'
BY DEF ActiveAdmins, IsActiveAdmin, IsActive, Exists, ActiveAdminRow

LEMMA InsertStays ==
    ASSUME AccountsInv, NEW row, Insert(row)
    PROVE  ActiveAdmins \subseteq ActiveAdmins'
<1>1. Fresh \in Accounts /\ rows[Fresh].name = None BY DEF Insert, Fresh, Exists
<1>2. \A b \in Accounts : b # Fresh => rows'[b] = rows[b]
  BY DEF Insert, AccountsInv, AccountsTypeOK
<1> HIDE DEF Fresh
<1> QED BY <1>1, <1>2, AdminStays

\* An administrator can go only by the write of a handler.
LEMMA OthersKeepAdmins ==
    ASSUME AccountsInv, AccountsNext, \A h \in Handlers : ~WriteRow(h)
    PROVE  ActiveAdmins \subseteq ActiveAdmins'
<1>0. ASSUME rows' = rows PROVE ActiveAdmins \subseteq ActiveAdmins'
  BY <1>0 DEF ActiveAdmins, IsActiveAdmin, IsActive, Exists
<1>1. CASE CreateAccount BY <1>1, InsertStays DEF CreateAccount
<1>2. CASE Restart
  <2>1. CASE \E a \in Named(Bootstrap.name) :
                /\ rows[a].role = "admin" /\ rows' = [rows EXCEPT ![a].status = "active"]
    <3>1. PICK a \in Accounts : /\ rows[a].name = Bootstrap.name /\ rows[a].role = "admin"
                                /\ rows' = [rows EXCEPT ![a].status = "active"]
      BY <2>1 DEF Named
    <3>2. PICK row \in RowType : row = rows[a] BY DEF AccountsInv, AccountsTypeOK
    <3> DEFINE n == [row EXCEPT !.status = "active"]
    <3>3. n.name = row.name /\ n.role = row.role /\ n.status = "active" BY DEF RowType
    <3>4. rows' = [rows EXCEPT ![a] = n] BY <3>1, <3>2
    <3>5. rows'[a] = n /\ \A b \in Accounts : b # a => rows'[b] = rows[b]
      BY <3>4 DEF AccountsInv, AccountsTypeOK
    <3> HIDE DEF n
    <3>6. ActiveAdminRow(rows'[a])
      BY <3>1, <3>2, <3>3, <3>5, AccountsConstants DEF ActiveAdminRow
    <3> QED BY <3>5, <3>6, AdminStays
  <2>2. CASE Insert(BootstrapRow) BY <2>2, InsertStays
  <2> QED BY <1>0, <1>2, <2>1, <2>2 DEF Restart
<1>3. CASE \/ \E st \in StateIds : StartOIDCLogin(st) \/ StateExpires(st)
           \/ \E h \in Handlers, st \in StateIds : CompleteOIDCCallback(h, st)
           \/ \E h \in Handlers : Administer(h)
           \/ \E a \in Accounts : Login(a)
  BY <1>0, <1>3 DEF StartOIDCLogin, StateExpires, CompleteOIDCCallback, Administer, Login
<1>4. CASE \E h \in Handlers : HandlerStep(h)
  BY <1>0, <1>4 DEF HandlerStep, ExchangeCode, ReadIdentity, ResolveUsername, ResolveCandidate,
                    ResolveEmail, ResolveFallback, ReadRow, EnsureNotLastActiveAdmin, Grant,
                    StatementFails, OnlyHandlers
<1> QED BY <1>1, <1>2, <1>3, <1>4 DEF AccountsNext

\* The write that leaves no administrator was decided on another row or count.
LEMMA LastWriteOvertaken ==
    ASSUME AdminsInv, NEW h \in Handlers, WriteRow(h),
           ActiveAdmins # {}, ActiveAdmins' = {}
    PROVE  AtStep(h, "write") /\ handlers'[h] # handlers[h] /\ Overtaken(h)
<1>1. PICK s \in HandlerType : s = handlers[h] /\ Owns(rows, s)
  BY Handling DEF AdminsInv
<1>2. /\ AtStep(h, "write") /\ s.pc = "write" BY <1>1 DEF WriteRow, AtStep
<1>3. ~(ActiveAdmins \subseteq ActiveAdmins') OBVIOUS
<1>4. rows' # rows BY <1>3 DEF ActiveAdmins, IsActiveAdmin, IsActive, Exists
<1>5. s.on \in Accounts /\ rows' = [rows EXCEPT ![s.on] = s.next]
      /\ (End(h) \/ \E b : handlers' = [handlers EXCEPT ![h].pc = "grant", ![h].on = b])
  <2>1. ~Insert(s.next) BY <1>3, InsertStays DEF AdminsInv
  <2>2. s.on # None /\ rows' = [rows EXCEPT ![s.on] = s.next]
        /\ (End(h) \/ \E b : handlers' = [handlers EXCEPT ![h].pc = "grant", ![h].on = b])
    BY <1>1, <1>4, <2>1 DEF WriteRow
  <2>3. s.on \in Accounts BY <2>2 DEF HandlerType
  <2> QED BY <2>2, <2>3
<1>6. handlers'[h] # handlers[h]
  <2>1. CASE End(h)
    <3>1. handlers'[h] = Resting BY <2>1 DEF End, AdminsInv, AccountsInv, AccountsTypeOK
    <3> QED BY <1>1, <1>2, <3>1 DEF Resting
  <2>2. CASE \E b : handlers' = [handlers EXCEPT ![h].pc = "grant", ![h].on = b]
    <3>1. PICK b : handlers' = [handlers EXCEPT ![h].pc = "grant", ![h].on = b] BY <2>2
    <3>2. handlers'[h].pc = "grant"
      BY <3>1 DEF AdminsInv, AccountsInv, AccountsTypeOK, HandlerType
    <3> QED BY <1>1, <1>2, <3>2
  <2> QED BY <1>5, <2>1, <2>2
<1> PICK a \in Accounts : a = s.on BY <1>5
<1>7. rows'[a] = s.next /\ \A b \in Accounts : b # a => rows'[b] = rows[b]
  BY <1>5 DEF AdminsInv, AccountsInv, AccountsTypeOK
<1>8. ~ActiveAdminRow(s.next)
  BY <1>7 DEF ActiveAdmins, IsActiveAdmin, IsActive, Exists, ActiveAdminRow
<1>9. ActiveAdmins = {a} /\ ActiveAdminRow(rows[a])
  BY <1>7 DEF ActiveAdmins, IsActiveAdmin, IsActive, Exists, ActiveAdminRow
<1>10. Cardinality(ActiveAdmins) = 1 BY <1>9, FS_Singleton
<1>11. Overtaken(h)
  <2> SUFFICES ASSUME rows[a] = s.seen
               PROVE  Demotes(h) /\ s.count # Cardinality(ActiveAdmins)
    BY <1>1 DEF Overtaken
  <2>1. Demotes(h) BY <1>1, <1>8, <1>9 DEF Demotes
  <2>2. s.count > 1 BY <1>1, <1>2, <1>8, <1>9 DEF AdminsInv, CountedMore
  <2>3. s.count # 1 BY <2>2 DEF HandlerType
  <2> QED BY <1>10, <2>1, <2>3
<1> QED BY <1>2, <1>6, <1>11

\* SSO is left without an active administrator only by a write that another one
\* overtook: whoever counts alone never takes the last one away.
THEOREM AdministratorsRemain == AccountsSpec => AdminsRemain
<1> DEFINE Loses == ActiveAdmins # {} /\ ActiveAdmins' = {} =>
                      \E h \in Handlers : AtStep(h, "write") /\ handlers'[h] # handlers[h]
                                          /\ Overtaken(h)
<1>1. AccountsInit => AdminsInv
  BY AccountsInitially DEF AdminsInv, AccountsInit, CountedMore, Resting
<1>2. AdminsInv /\ [AccountsNext]_accountVars => AdminsInv'
  BY AccountsStep, AccountsStutter, CountedStep DEF AdminsInv, accountVars
<1>3. ASSUME AdminsInv, [AccountsNext]_accountVars PROVE [Loses]_accountVars
  <2> SUFFICES ASSUME AccountsNext, ActiveAdmins # {}, ActiveAdmins' = {}
               PROVE  \E h \in Handlers : WriteRow(h)
    BY <1>3, LastWriteOvertaken
  <2> QED BY <1>3, OthersKeepAdmins DEF AdminsInv
<1> QED BY <1>1, <1>2, <1>3, PTL DEF AccountsSpec, AdminsRemain

-----------------------------------------------------------------------------
(* Telemetry: the inductive invariant *)

\* The slot of a stream is given back no sooner than its handler leaves, and
\* the second Close finds it given back.
Closes(i) ==
    /\ Pc(i) \in {"target", "acquire", "attach"} \cup Bridged => ~streams[i].released
    /\ Pc(i) = "wait" => streams[i].released

Counted ==
    \A k \in Kinds :
        /\ limiter[k].total = Cardinality(Holding(k))
        /\ limiter[k].total <= MaxTotal[k]
        /\ \A u \in Actors : limiter[k].of[u] = Cardinality(Served(k, u))

\* Not only all the streams of an actor fit into a limit one of them read, any
\* of them do: with one stream closed the others must fit still, and the one
\* admitted last of those that are left was admitted into room for them.
Fitting(held, table) ==
    \A some \in SUBSET held :
        some = {} \/ \E i \in some : Cardinality(some) <= AtLeastOne(table[i].limit)
Fits == \A k \in Kinds, u \in Actors : Fitting(Served(k, u), streams)

StreamsInv ==
    /\ StreamsTypeOK
    /\ \A i \in Streams : Closes(i)
    /\ Counted
    /\ Fits

-----------------------------------------------------------------------------
(* What a step does to the streams: all but one stay, and that one takes a  *)
(* slot, gives one back, or does neither.                                   *)

Typed == streams \in [Streams -> StreamType]
Elsewhere(i) == \A j \in Streams : j # i => streams'[j] = streams[j]
SameOwner(i) ==
    /\ streams'[i].kind = streams[i].kind
    /\ streams'[i].actor = streams[i].actor
    /\ streams'[i].limit = streams[i].limit

Quiet(i) ==
    /\ limiter' = limiter
    /\ Holds(i)' <=> Holds(i)
    /\ Holds(i) => SameOwner(i)
Takes(i) ==
    /\ Acquire(i) /\ HasSlot(i)
    /\ ~Holds(i) /\ Holds(i)' /\ SameOwner(i)
Gives(i) ==
    /\ Release(i)
    /\ Holds(i) /\ ~Holds(i)'
Moves(i) ==
    /\ Typed' /\ Closes(i)' /\ Elsewhere(i)
    /\ Quiet(i) \/ Takes(i) \/ Gives(i)

LEMMA Written ==
    ASSUME NEW s \in StreamType, NEW writer \in {"done", "reading"}
    PROVE  [s EXCEPT !.mutex = "free", !.writer = writer] \in StreamType
BY DEF StreamType

LEMMA Serving ==
    ASSUME NEW s \in StreamType
    PROVE  [s EXCEPT !.pc = "serve"] \in StreamType
BY DEF StreamType

LEMMA BothStart ==
    ASSUME NEW s \in StreamType
    PROVE  [s EXCEPT !.reader = "reading", !.writer = "reading"] \in StreamType
BY DEF StreamType

USE DEF Kinds, Pc, Terminal, Bridged

LEMMA Updating ==
    ASSUME Typed, NEW i \in Streams, NEW r \in StreamType, streams' = [streams EXCEPT ![i] = r]
    PROVE  Typed' /\ Elsewhere(i) /\ streams'[i] = r
  BY DEF Typed, Elsewhere

LEMMA Opening ==
    ASSUME Typed, NEW i \in Streams, NEW k \in Kinds, NEW u \in Actors, Open(i, k, u)
    PROVE  Moves(i)
<1> DEFINE r == [Unused(k, u) EXCEPT !.pc = "target"]
<1>1. r \in StreamType /\ r.pc = "target" /\ ~r.released
  BY DEF StreamType, Unused
<1>2. streams' = [streams EXCEPT ![i] = r]
  BY DEF Open
<1>3. Typed' /\ Elsewhere(i) /\ streams'[i] = r
  BY <1>1, <1>2, Updating
<1>4. Closes(i)'
  BY <1>1, <1>3 DEF Closes
<1>5. ~Holds(i) /\ ~Holds(i)' /\ limiter' = limiter
  BY <1>1, <1>3 DEF Open, Holds
<1> QED BY <1>3, <1>4, <1>5 DEF Moves, Quiet

LEMMA Preparing ==
    ASSUME Typed, NEW i \in Streams, Closes(i), Prepare(i)
    PROVE  Moves(i)
<1>1. streams[i] \in StreamType /\ streams[i].kind \in Kinds
  BY DEF Typed, StreamType
<1>2. CASE Goto(i, "done")
  BY <1>2 DEF Typed, StreamType, Prepare, Goto, Moves, Closes, Elsewhere, Quiet, Holds, SameOwner
<1>3. ASSUME NEW n \in Limits[streams[i].kind],
             streams' = [streams EXCEPT ![i].pc = "acquire", ![i].limit = n]
      PROVE  Moves(i)
  <2>1. n \in Nat
    BY <1>1, StreamsConstants
  <2> DEFINE r == [streams[i] EXCEPT !.pc = "acquire", !.limit = n]
  <2>2. r \in StreamType /\ r.pc = "acquire" /\ r.released = streams[i].released
    BY <1>1, <2>1 DEF StreamType
  <2>3. streams' = [streams EXCEPT ![i] = r]
    BY <1>3 DEF Typed, StreamType
  <2> HIDE DEF r
  <2>4. Typed' /\ Elsewhere(i) /\ streams'[i] = r
    BY <2>2, <2>3, Updating
  <2>5. Closes(i)' /\ ~Holds(i) /\ ~Holds(i)' /\ limiter' = limiter
    BY <2>2, <2>4 DEF Prepare, Closes, Holds
  <2> QED BY <2>4, <2>5 DEF Moves, Quiet
<1> QED BY <1>2, <1>3 DEF Prepare

LEMMA Acquiring ==
    ASSUME Typed, NEW i \in Streams, Closes(i), Acquire(i)
    PROVE  Moves(i)
<1>1. PICK pc \in {"attach", "done"} :
          /\ streams' = [streams EXCEPT ![i].pc = pc]
          /\ pc = "attach" <=> HasSlot(i)
          /\ pc = "done" => limiter' = limiter
  BY DEF Acquire, Goto
<1> DEFINE r == [streams[i] EXCEPT !.pc = pc]
<1>2. streams[i] \in StreamType
  BY DEF Typed
<1>3. r \in StreamType /\ r.pc = pc /\ r.released = streams[i].released
      /\ r.kind = streams[i].kind /\ r.actor = streams[i].actor /\ r.limit = streams[i].limit
  BY <1>2 DEF StreamType
<1>4. streams' = [streams EXCEPT ![i] = r]
  BY <1>1 DEF Typed, StreamType
<1> HIDE DEF r
<1>5. Typed' /\ Elsewhere(i) /\ streams'[i] = r
  BY <1>3, <1>4, Updating
<1>6. Pc(i) = "acquire" /\ ~streams[i].released
  BY DEF Acquire, Closes
<1>7. Closes(i)' /\ ~Holds(i) /\ SameOwner(i) /\ (Holds(i)' <=> pc = "attach")
  BY <1>3, <1>5, <1>6 DEF Closes, Holds, SameOwner
<1>8. CASE pc = "attach"
  BY <1>1, <1>5, <1>7, <1>8 DEF Moves, Takes
<1>9. CASE pc = "done"
  BY <1>1, <1>5, <1>7, <1>9 DEF Moves, Quiet
<1> QED BY <1>8, <1>9

LEMMA Attaching ==
    ASSUME Typed, NEW i \in Streams, Closes(i), Attach(i)
    PROVE  Moves(i)
<1>1. CASE Goto(i, "done") /\ Release(i)
  BY <1>1 DEF Typed, StreamType, Attach, Goto, Moves, Closes, Elsewhere, Gives, Holds, SameOwner
<1>2. CASE ~(Goto(i, "done") /\ Release(i))
  <2>1. PICK pc \in {"ready", "serve"}, writer \in {"none", "reading"} :
          streams' = [streams EXCEPT ![i].pc = pc, ![i].writer = writer]
    BY <1>2 DEF Attach
  <2> DEFINE r == [streams[i] EXCEPT !.pc = pc, !.writer = writer]
  <2>0. streams[i] \in StreamType
    BY DEF Typed
  <2>2. r \in StreamType /\ r.pc = pc /\ r.released = streams[i].released
        /\ r.kind = streams[i].kind /\ r.actor = streams[i].actor /\ r.limit = streams[i].limit
    BY <2>0 DEF StreamType
  <2>3. streams' = [streams EXCEPT ![i] = r]
    BY <2>1 DEF Typed, StreamType
  <2> HIDE DEF r
  <2>4. Typed' /\ Elsewhere(i) /\ streams'[i] = r
    BY <2>2, <2>3, Updating
  <2>5. Closes(i)' /\ Holds(i) /\ Holds(i)' /\ SameOwner(i)
    BY <2>2, <2>4 DEF Attach, Closes, Holds, SameOwner
  <2> QED BY <1>2, <2>4, <2>5 DEF Attach, Moves, Quiet
<1> QED BY <1>1, <1>2

\* The client, the process, the reader and the writer take and give no slot.
Inner(i) == Environment(i) \/ ReaderStep(i) \/ WriterStep(i)

LEMMA Surroundings ==
    ASSUME Typed, NEW i \in Streams, Closes(i), Environment(i)
    PROVE  Moves(i)
<1>1. UNCHANGED limiter
  BY DEF Environment
<1>2. CASE OutputEnds(i)
  <2> DEFINE r == [streams[i] EXCEPT !.process = FALSE]
  <2>0. streams[i] \in StreamType
    BY DEF Typed
  <2>1. r \in StreamType /\ r.pc = streams[i].pc /\ r.released = streams[i].released
        /\ r.kind = streams[i].kind /\ r.actor = streams[i].actor /\ r.limit = streams[i].limit
    BY <2>0 DEF StreamType
  <2>2. streams' = [streams EXCEPT ![i] = r]
    BY <1>2 DEF OutputEnds, Typed, StreamType
  <2> HIDE DEF r
  <2>3. Typed' /\ Elsewhere(i) /\ streams'[i] = r
    BY <2>1, <2>2, Updating
  <2>4. Closes(i)' /\ (Holds(i)' <=> Holds(i)) /\ SameOwner(i)
    BY <2>1, <2>3 DEF Closes, Holds, SameOwner
  <2> QED BY <1>1, <2>3, <2>4 DEF Moves, Quiet
<1>3. CASE ~OutputEnds(i)
  <2>1. PICK client \in {"reads", "stalled", "gone"} :
          streams' = [streams EXCEPT ![i].client = client]
    BY <1>3 DEF Environment, ClientStalls, ClientResumes, ClientLeaves
  <2> QED
    BY <1>1, <2>1 DEF Typed, StreamType, Moves, Closes, Elsewhere, Quiet, Holds, SameOwner
<1> QED BY <1>2, <1>3

LEMMA Reading ==
    ASSUME Typed, NEW i \in Streams, Closes(i), ReaderStep(i)
    PROVE  Moves(i)
<1>1. CASE ReadMessage(i)
  BY <1>1 DEF ReaderStep, Typed, StreamType, ReadMessage, Reads, Moves, Closes, Elsewhere, Quiet, Holds, SameOwner
<1>2. CASE ~ReadMessage(i)
  BY <1>2 DEF ReaderStep, Typed, StreamType, ReadFails, InputWritten, InputFails, LockReply,
              Replied, Reads, Moves, Closes, Elsewhere, Quiet, Holds, SameOwner
<1> QED BY <1>1, <1>2

LEMMA WritingOut ==
    ASSUME Typed, NEW i \in Streams, Closes(i), WriterStep(i)
    PROVE  Moves(i)
<1>1. CASE ReadOutput(i) \/ ReadEnd(i) \/ LockOutput(i) \/ DropLine(i)
  BY <1>1 DEF WriterStep, Typed, StreamType, ReadOutput, ReadEnd, LockOutput, DropLine,
              Writes, Moves, Closes, Elsewhere, Quiet, Holds, SameOwner
<1>2. CASE Sent(i)
  <2>1. PICK writer \in {"done", "reading"} :
          streams' = [streams EXCEPT ![i].mutex = "free", ![i].writer = writer]
    BY <1>2 DEF Sent
  <2> DEFINE r == [streams[i] EXCEPT !.mutex = "free", !.writer = writer]
  <2>0. streams[i] \in StreamType
    BY DEF Typed
  <2>2. /\ r \in StreamType
        /\ r.pc = streams[i].pc /\ r.released = streams[i].released
        /\ r.kind = streams[i].kind /\ r.actor = streams[i].actor /\ r.limit = streams[i].limit
    <3>1. r \in StreamType
      BY <2>0, Written
    <3>2. /\ r.pc = streams[i].pc /\ r.released = streams[i].released
          /\ r.kind = streams[i].kind /\ r.actor = streams[i].actor /\ r.limit = streams[i].limit
      BY <2>0 DEF StreamType
    <3> QED BY <3>1, <3>2
  <2>3. streams' = [streams EXCEPT ![i] = r]
    BY <2>1 DEF Typed, StreamType
  <2> HIDE DEF r
  <2>4. Typed' /\ Elsewhere(i) /\ streams'[i] = r
    BY <2>2, <2>3, Updating
  <2>5. Closes(i)' /\ (Holds(i)' <=> Holds(i)) /\ SameOwner(i)
    BY <2>2, <2>4 DEF Closes, Holds, SameOwner
  <2> QED BY <2>4, <2>5 DEF WriterStep, Moves, Quiet
<1>3. CASE HandLine(i)
  BY <1>3 DEF WriterStep, Typed, StreamType, HandLine, Moves, Closes, Elsewhere, Quiet,
              Holds, SameOwner
<1> QED BY <1>1, <1>2, <1>3 DEF WriterStep

-----------------------------------------------------------------------------
(* The handler *)

LEMMA Staying ==
    ASSUME Typed, NEW i \in Streams, Closes(i),
           Ready(i) \/ MaxDurationPasses(i) \/ LockNotice(i) \/ LogWritten(i)
    PROVE  Moves(i)
<1>1. CASE Ready(i)
  <2> DEFINE r == [streams[i] EXCEPT !.pc = "serve", !.reader = "reading", !.writer = "reading"]
  <2>0. streams[i] \in StreamType
    BY DEF Typed
  <2>1. /\ r \in StreamType
        /\ r.pc = "serve" /\ r.released = streams[i].released
        /\ r.kind = streams[i].kind /\ r.actor = streams[i].actor /\ r.limit = streams[i].limit
    <3> DEFINE q == [streams[i] EXCEPT !.pc = "serve"]
    <3>1. q \in StreamType
      BY <2>0, Serving
    <3>2. /\ q.pc = "serve" /\ q.released = streams[i].released
          /\ q.kind = streams[i].kind /\ q.actor = streams[i].actor /\ q.limit = streams[i].limit
      BY <2>0 DEF StreamType
    <3>3. r = [q EXCEPT !.reader = "reading", !.writer = "reading"]
      OBVIOUS
    <3> HIDE DEF q, r
    <3>4. r \in StreamType
      BY <3>1, <3>3, BothStart
    <3> QED BY <3>1, <3>2, <3>3, <3>4 DEF StreamType
  <2>2. streams' = [streams EXCEPT ![i] = r]
    BY <1>1 DEF Ready, Typed, StreamType
  <2> HIDE DEF r
  <2>3. Typed' /\ Elsewhere(i) /\ streams'[i] = r
    BY <2>1, <2>2, Updating
  <2>4. Closes(i)' /\ Holds(i)' /\ Holds(i) /\ SameOwner(i)
    BY <1>1, <2>1, <2>3 DEF Ready, Closes, Holds, SameOwner
  <2> QED BY <1>1, <2>3, <2>4 DEF Ready, Moves, Quiet
<1>3. CASE MaxDurationPasses(i)
  <2> DEFINE r == [streams[i] EXCEPT !.expired = TRUE]
  <2>0. streams[i] \in StreamType
    BY DEF Typed
  <2>1. r \in StreamType /\ r.pc = streams[i].pc /\ r.released = streams[i].released
        /\ r.kind = streams[i].kind /\ r.actor = streams[i].actor /\ r.limit = streams[i].limit
    BY <2>0 DEF StreamType
  <2>2. streams' = [streams EXCEPT ![i] = r]
    BY <1>3 DEF MaxDurationPasses, Typed, StreamType
  <2> HIDE DEF r
  <2>3. Typed' /\ Elsewhere(i) /\ streams'[i] = r
    BY <2>1, <2>2, Updating
  <2>4. Closes(i)' /\ (Holds(i)' <=> Holds(i)) /\ SameOwner(i)
    BY <2>1, <2>3 DEF Closes, Holds, SameOwner
  <2> QED BY <1>3, <2>3, <2>4 DEF MaxDurationPasses, Moves, Quiet
<1>2. CASE LockNotice(i) \/ LogWritten(i)
  BY <1>2 DEF LockNotice, LogWritten, Goto, Typed, StreamType, Moves, Closes, Elsewhere,
              Quiet, Holds, SameOwner
<1> QED BY <1>1, <1>2, <1>3

LEMMA Silent ==
    ASSUME NEW s \in StreamType
    PROVE  [s EXCEPT !.client = "gone", !.process = FALSE] \in StreamType
<1>1. [s EXCEPT !.client = "gone"] \in StreamType
  BY DEF StreamType
<1>2. ASSUME NEW r \in StreamType
      PROVE  [r EXCEPT !.process = FALSE] \in StreamType
  BY DEF StreamType
<1>3. [s EXCEPT !.client = "gone", !.process = FALSE]
        = [[s EXCEPT !.client = "gone"] EXCEPT !.process = FALSE]
  OBVIOUS
<1> QED BY <1>1, <1>2, <1>3

LEMMA SlotGiven ==
    ASSUME NEW s \in StreamType
    PROVE  [s EXCEPT !.pc = "wait", !.released = TRUE] \in StreamType
BY DEF StreamType

LEMMA LimitForgotten ==
    ASSUME NEW s \in StreamType
    PROVE  [s EXCEPT !.limit = 0] \in StreamType
BY DEF StreamType

LEMMA ClosedTyped ==
    ASSUME NEW s \in StreamType
    PROVE  Closed(s) \in StreamType /\ Closed(s).pc = "wait" /\ Closed(s).released
<1> DEFINE r == [s EXCEPT !.pc = "wait", !.released = TRUE]
           q == [r EXCEPT !.client = "gone", !.process = FALSE]
<1>1. Closed(s) = [q EXCEPT !.limit = 0]
  BY DEF Closed
<1>2. r \in StreamType
  BY SlotGiven
<1>3. r.pc = "wait" /\ r.released
  BY DEF StreamType
<1>4. q = [r EXCEPT !.client = "gone", !.process = FALSE]
  OBVIOUS
<1> HIDE DEF r, q
<1>5. q \in StreamType
  BY <1>2, <1>4, Silent
<1>6. q.pc = "wait" /\ q.released
  BY <1>2, <1>3, <1>4 DEF StreamType
<1>7. Closed(s) \in StreamType
  BY <1>1, <1>5, LimitForgotten
<1> QED BY <1>1, <1>5, <1>6, <1>7 DEF StreamType

LEMMA Closing ==
    ASSUME Typed, NEW i \in Streams, Closes(i), Pc(i) \in Bridged, CloseOnce(i),
           NEW mutex \in {"free", "handler", "reader", "writer"},
           streams' = [streams EXCEPT ![i] = [Closed(streams[i]) EXCEPT !.mutex = mutex]]
    PROVE  Moves(i)
<1>1. Release(i)
  BY DEF CloseOnce, Closes
<1> DEFINE q == Closed(streams[i])  r == [q EXCEPT !.mutex = mutex]
<1>2. q \in StreamType /\ q.pc = "wait" /\ q.released
  BY ClosedTyped DEF Typed
<1>3. r = [q EXCEPT !.mutex = mutex]
  OBVIOUS
<1>4. streams' = [streams EXCEPT ![i] = r]
  OBVIOUS
<1> HIDE DEF q, r
<1>5. r \in StreamType /\ r.pc = "wait" /\ r.released
  BY <1>2, <1>3 DEF StreamType
<1>6. Typed' /\ Elsewhere(i) /\ streams'[i] = r
  BY <1>4, <1>5, Updating
<1>7. Closes(i)' /\ Holds(i) /\ ~Holds(i)'
  BY <1>5, <1>6 DEF Closes, Holds
<1> QED BY <1>1, <1>6, <1>7 DEF Moves, Gives

LEMMA Leaving ==
    ASSUME Typed, NEW i \in Streams, Closes(i), Pc(i) \in Bridged, Leave(i)
    PROVE  Moves(i)
<1> DEFINE s == streams[i]
<1>1. s \in StreamType /\ s.mutex \in {"free", "handler", "reader", "writer"}
  BY DEF Typed, StreamType
<1>2. Closed(s) = [Closed(s) EXCEPT !.mutex = s.mutex]
  BY <1>1 DEF StreamType, Closed
<1>3. CloseOnce(i) /\ streams' = [streams EXCEPT ![i] = Closed(s)]
  BY DEF Leave
<1> QED BY <1>1, <1>2, <1>3, Closing

LEMMA Deciding ==
    ASSUME Typed, NEW i \in Streams, Closes(i),
           Select(i) \/ Inspect(i) \/ LogsEnd(i) \/ EndWritten(i)
    PROVE  Moves(i)
<1>1. Pc(i) \in Bridged
  BY DEF Select, Inspect, LogsEnd, EndWritten
<1>2. CASE Leave(i)
  BY <1>1, <1>2, Leaving
<1>3. CASE ~Leave(i)
  <2>1. UNCHANGED limiter /\ \E pc \in {"inspect", "notify"} : Goto(i, pc)
    BY <1>3 DEF Select, Inspect, LogsEnd, EndWritten
  <2> QED
    BY <1>1, <2>1 DEF Goto, Typed, StreamType, Moves, Closes, Elsewhere, Quiet, Holds, SameOwner
<1> QED BY <1>2, <1>3

LEMMA Notifying ==
    ASSUME Typed, NEW i \in Streams, Closes(i), Notified(i)
    PROVE  Moves(i)
BY Closing DEF Notified

LEMMA Returning ==
    ASSUME Typed, NEW i \in Streams, Closes(i), Return(i)
    PROVE  Moves(i)
<1>1. UNCHANGED limiter
  BY DEF Return, CloseOnce, Closes
<1> QED
  BY <1>1 DEF Return, Goto, Typed, StreamType, Moves, Closes, Elsewhere, Quiet, Holds, SameOwner

LEMMA Stepping ==
    ASSUME Typed, NEW i \in Streams, Closes(i),
           StreamStep(i) \/ (\E k \in Kinds, u \in Actors : Open(i, k, u))
    PROVE  Moves(i)
BY Opening, Preparing, Acquiring, Attaching, Surroundings, Reading, WritingOut, Staying,
   Deciding, Notifying, Returning DEF StreamStep, HandlerProceeds

-----------------------------------------------------------------------------
(* What the moves do to the counts *)

LEMMA HoldingIsFinite ==
    ASSUME NEW k \in Kinds, NEW u \in Actors
    PROVE  /\ IsFiniteSet(Holding(k)) /\ IsFiniteSet(Served(k, u))
           /\ IsFiniteSet(Holding(k))' /\ IsFiniteSet(Served(k, u))'
BY StreamsConstants, FS_Subset DEF Holding, Served

\* The counts of one kind and actor change by d, all others stay.
LimiterChange(kk, uu, d) ==
    /\ limiter' \in [Kinds -> [of : [Actors -> Int], total : Int]]
    /\ \A k \in Kinds :
         /\ limiter'[k].total = IF k = kk THEN limiter[k].total + d ELSE limiter[k].total
         /\ \A u \in Actors : limiter'[k].of[u] =
                IF k = kk /\ u = uu THEN limiter[k].of[u] + d ELSE limiter[k].of[u]

LimiterRow == [of : [Actors -> Int], total : Int]

LEMMA RowEdited ==
    ASSUME NEW r \in LimiterRow, NEW u \in Actors, NEW d \in Int
    PROVE  [r EXCEPT !.of[u] = @ + d, !.total = @ + d] \in LimiterRow
<1> DEFINE f == [r.of EXCEPT ![u] = @ + d]  n == r.total + d
<1>1. f \in [Actors -> Int] /\ n \in Int
  BY DEF LimiterRow
<1> HIDE DEF f, n
<1>2. [r EXCEPT !.of = f, !.total = n] \in LimiterRow
  BY <1>1 DEF LimiterRow
<1> QED BY <1>2 DEF f, n

LimiterWith(k, u, d) == [limiter EXCEPT ![k].of[u] = @ + d, ![k].total = @ + d]

LEMMA OneSlot ==
    ASSUME limiter \in [Kinds -> LimiterRow],
           NEW kk \in Kinds, NEW uu \in Actors, NEW d \in Int,
           limiter' = LimiterWith(kk, uu, d)
    PROVE  LimiterChange(kk, uu, d)
<1> DEFINE r == [limiter[kk] EXCEPT !.of[uu] = @ + d, !.total = @ + d]
<1>1. r \in LimiterRow
  BY RowEdited
<1>2. limiter' = [limiter EXCEPT ![kk] = r]
  BY DEF LimiterWith
<1>3. /\ r.total = limiter[kk].total + d
      /\ r.of[uu] = limiter[kk].of[uu] + d
      /\ \A u \in Actors \ {uu} : r.of[u] = limiter[kk].of[u]
  BY DEF LimiterRow
<1> HIDE DEF r
<1>4. limiter' \in [Kinds -> LimiterRow]
  BY <1>1, <1>2
<1>5. limiter'[kk] = r /\ \A k \in Kinds \ {kk} : limiter'[k] = limiter[k]
  BY <1>2
<1>6. ASSUME NEW k \in Kinds
      PROVE  /\ limiter'[k].total = IF k = kk THEN limiter[k].total + d ELSE limiter[k].total
             /\ \A u \in Actors : limiter'[k].of[u] =
                    IF k = kk /\ u = uu THEN limiter[k].of[u] + d ELSE limiter[k].of[u]
  <2>1. CASE k = kk
    BY <1>3, <1>5, <2>1
  <2>2. CASE k # kk
    BY <1>5, <2>2
  <2> QED BY <2>1, <2>2
<1> QED BY <1>4, <1>6 DEF LimiterChange, LimiterRow

LEMMA Positive ==
    ASSUME StreamsInv, NEW i \in Streams, Holds(i)
    PROVE  LET k == streams[i].kind
               u == streams[i].actor
           IN  /\ k \in Kinds /\ u \in Actors
               /\ limiter[k].total \in Nat /\ limiter[k].total # 0
               /\ limiter[k].of[u] \in Nat /\ limiter[k].of[u] # 0
<1> DEFINE k == streams[i].kind  u == streams[i].actor
<1>1. k \in Kinds /\ u \in Actors
  BY DEF StreamsInv, StreamsTypeOK, StreamType
<1>2. i \in Holding(k) /\ i \in Served(k, u)
  BY DEF Holding, Served
<1> HIDE DEF k, u
<1>3. /\ Cardinality(Holding(k)) \in Nat /\ Cardinality(Holding(k)) # 0
      /\ Cardinality(Served(k, u)) \in Nat /\ Cardinality(Served(k, u)) # 0
  BY <1>1, <1>2, HoldingIsFinite, FS_CardinalityType, FS_EmptySet
<1>4. /\ limiter[k].total = Cardinality(Holding(k))
      /\ limiter[k].of[u] = Cardinality(Served(k, u))
  BY <1>1 DEF StreamsInv, Counted
<1> QED BY <1>1, <1>3, <1>4 DEF k, u

LEMMA TakesOne ==
    ASSUME StreamsInv, NEW i \in Streams, Takes(i)
    PROVE  LimiterChange(streams[i].kind, streams[i].actor, 1)
<1> DEFINE k == streams[i].kind  u == streams[i].actor
<1>1. k \in Kinds /\ u \in Actors
  BY DEF StreamsInv, StreamsTypeOK, StreamType
<1>2. limiter \in [Kinds -> LimiterRow]
  BY DEF StreamsInv, StreamsTypeOK, LimiterType, LimiterRow
<1>3. limiter' = LimiterWith(k, u, 1)
  BY DEF Takes, Acquire, LimiterWith
<1> HIDE DEF k, u
<1>4. LimiterChange(k, u, 1)
  BY <1>1, <1>2, <1>3, OneSlot
<1> QED BY <1>4 DEF k, u

LEMMA GivesOne ==
    ASSUME StreamsInv, NEW i \in Streams, Gives(i)
    PROVE  LimiterChange(streams[i].kind, streams[i].actor, -1)
<1> DEFINE k == streams[i].kind  u == streams[i].actor
<1>1. k \in Kinds /\ u \in Actors /\ limiter[k].of[u] \in Nat /\ limiter[k].of[u] # 0
  BY Positive DEF Gives
<1>2. limiter \in [Kinds -> LimiterRow]
  BY DEF StreamsInv, StreamsTypeOK, LimiterType, LimiterRow
<1>3. limiter' = IF limiter[k].of[u] <= 0 THEN limiter
                 ELSE [limiter EXCEPT ![k].of[u] = @ - 1, ![k].total = @ - 1]
  BY DEF Gives, Release
<1> HIDE DEF k, u
<1>4. limiter' = [limiter EXCEPT ![k].of[u] = @ - 1, ![k].total = @ - 1]
  BY <1>1, <1>3
<1>5. limiter' = LimiterWith(k, u, -1)
  BY <1>1, <1>2, <1>4 DEF LimiterRow, LimiterWith
<1>6. LimiterChange(k, u, -1)
  BY <1>1, <1>2, <1>5, OneSlot
<1> QED BY <1>6 DEF k, u

LEMMA QuietKeeps ==
    ASSUME StreamsInv, NEW i \in Streams, Elsewhere(i), Quiet(i)
    PROVE  Counted'
<1>1. \A j \in Streams : Holds(j)' = Holds(j) /\ (Holds(j) => SameOwner(j))
  BY DEF Elsewhere, Quiet, Holds, SameOwner
<1>2. ASSUME NEW k \in Kinds, NEW u \in Actors
      PROVE  Holding(k)' = Holding(k) /\ Served(k, u)' = Served(k, u)
  BY <1>1 DEF Holding, Served, SameOwner
<1> SUFFICES ASSUME NEW k \in Kinds
             PROVE  /\ limiter'[k].total = Cardinality(Holding(k)')
                    /\ limiter'[k].total <= MaxTotal[k]
                    /\ \A u \in Actors : limiter'[k].of[u] = Cardinality(Served(k, u)')
  BY DEF Counted
<1>3. limiter' = limiter /\ Holding(k)' = Holding(k)
  BY <1>2, StreamsConstants DEF Quiet
<1> QED BY <1>2, <1>3 DEF StreamsInv, Counted

LEMMA GivenBack ==
    ASSUME StreamsInv, NEW i \in Streams, Elsewhere(i), Gives(i)
    PROVE  Counted'
<1> DEFINE kk == streams[i].kind  uu == streams[i].actor
<1> kk \in Kinds /\ uu \in Actors
  BY DEF StreamsInv, StreamsTypeOK, StreamType
<1>1. i \in Holding(kk) /\ i \in Served(kk, uu)
  BY DEF Gives, Holding, Served
<1>2. ASSUME NEW k \in Kinds
      PROVE  Holding(k)' = IF k = kk THEN Holding(k) \ {i} ELSE Holding(k)
  BY DEF Gives, Elsewhere, Holding, Holds, SameOwner
<1>3. ASSUME NEW k \in Kinds, NEW u \in Actors
      PROVE  Served(k, u)' = IF k = kk /\ u = uu THEN Served(k, u) \ {i} ELSE Served(k, u)
  BY <1>2 DEF Gives, Elsewhere, Holding, Served, Holds, SameOwner
<1>4. /\ Cardinality(Holding(kk) \ {i}) = Cardinality(Holding(kk)) - 1
      /\ Cardinality(Served(kk, uu) \ {i}) = Cardinality(Served(kk, uu)) - 1
  BY <1>1, HoldingIsFinite, FS_RemoveElement
<1>7. LimiterChange(kk, uu, -1)
  BY GivesOne
<1> SUFFICES ASSUME NEW k \in Kinds
             PROVE  /\ limiter'[k].total = Cardinality(Holding(k)')
                    /\ limiter'[k].total <= MaxTotal[k]
                    /\ \A u \in Actors : limiter'[k].of[u] = Cardinality(Served(k, u)')
  BY DEF Counted
<1>8. /\ limiter[k].total \in Nat /\ limiter[k].total <= MaxTotal[k] /\ MaxTotal[k] \in Nat
      /\ limiter[k].total = Cardinality(Holding(k))
  BY StreamsConstants DEF StreamsInv, Counted, StreamsTypeOK, LimiterType
<1>9. limiter'[k].total = Cardinality(Holding(k)') /\ limiter'[k].total <= MaxTotal[k]
  <2>1. CASE k = kk
    <3>1. Holding(k)' = Holding(k) \ {i}
      BY <1>2, <2>1
    <3>2. limiter'[k].total = limiter[k].total - 1
      BY <1>7, <2>1 DEF LimiterChange
    <3>3. Cardinality(Holding(k) \ {i}) = Cardinality(Holding(k)) - 1
      BY <1>4, <2>1
    <3> QED BY <1>8, <3>1, <3>2, <3>3
  <2>2. CASE k # kk
    <3>1. Holding(k)' = Holding(k)
      BY <1>2, <2>2
    <3>2. limiter'[k].total = limiter[k].total
      BY <1>7, <2>2 DEF LimiterChange
    <3> QED BY <1>8, <3>1, <3>2
  <2> QED BY <2>1, <2>2
<1>10. ASSUME NEW u \in Actors
       PROVE  limiter'[k].of[u] = Cardinality(Served(k, u)')
  <2>1. limiter[k].of[u] \in Nat /\ limiter[k].of[u] = Cardinality(Served(k, u))
    BY StreamsConstants DEF StreamsInv, Counted, StreamsTypeOK, LimiterType
  <2>2. CASE k = kk /\ u = uu
    <3>1. Served(k, u)' = Served(k, u) \ {i}
      BY <1>3, <2>2
    <3>3. Cardinality(Served(k, u) \ {i}) = Cardinality(Served(k, u)) - 1
      BY <1>4, <2>2
    <3>2. limiter'[k].of[u] = limiter[k].of[u] - 1
      BY <1>7, <2>2 DEF LimiterChange
    <3> QED BY <2>1, <3>1, <3>2, <3>3
  <2>3. CASE ~(k = kk /\ u = uu)
    <3>1. Served(k, u)' = Served(k, u)
      BY <1>3, <2>3
    <3>2. limiter'[k].of[u] = limiter[k].of[u]
      BY <1>7, <2>3 DEF LimiterChange
    <3> QED BY <2>1, <3>1, <3>2
  <2> QED BY <2>2, <2>3
<1> QED BY <1>9, <1>10

LEMMA Taken ==
    ASSUME StreamsInv, NEW i \in Streams, Elsewhere(i), Takes(i)
    PROVE  Counted'
<1> DEFINE kk == streams[i].kind  uu == streams[i].actor
<1> kk \in Kinds /\ uu \in Actors
  BY DEF StreamsInv, StreamsTypeOK, StreamType
<1>1. i \notin Holding(kk) /\ i \notin Served(kk, uu)
  BY DEF Takes, Holding, Served
<1>2. ASSUME NEW k \in Kinds
      PROVE  Holding(k)' = IF k = kk THEN Holding(k) \cup {i} ELSE Holding(k)
  BY DEF Takes, Elsewhere, Holding, Holds, SameOwner
<1>3. ASSUME NEW k \in Kinds, NEW u \in Actors
      PROVE  Served(k, u)' = IF k = kk /\ u = uu THEN Served(k, u) \cup {i} ELSE Served(k, u)
  BY <1>2 DEF Takes, Elsewhere, Holding, Served, Holds, SameOwner
<1>4. /\ Cardinality(Holding(kk) \cup {i}) = Cardinality(Holding(kk)) + 1
      /\ Cardinality(Served(kk, uu) \cup {i}) = Cardinality(Served(kk, uu)) + 1
  BY <1>1, HoldingIsFinite, FS_AddElement
<1>5. limiter[kk].total < MaxTotal[kk]
  BY DEF Takes, HasSlot
<1>7. LimiterChange(kk, uu, 1)
  BY TakesOne
<1> SUFFICES ASSUME NEW k \in Kinds
             PROVE  /\ limiter'[k].total = Cardinality(Holding(k)')
                    /\ limiter'[k].total <= MaxTotal[k]
                    /\ \A u \in Actors : limiter'[k].of[u] = Cardinality(Served(k, u)')
  BY DEF Counted
<1>8. /\ limiter[k].total \in Nat /\ limiter[k].total <= MaxTotal[k] /\ MaxTotal[k] \in Nat
      /\ limiter[k].total = Cardinality(Holding(k))
  BY StreamsConstants DEF StreamsInv, Counted, StreamsTypeOK, LimiterType
<1>9. limiter'[k].total = Cardinality(Holding(k)') /\ limiter'[k].total <= MaxTotal[k]
  <2>1. CASE k = kk
    <3>1. Holding(k)' = Holding(k) \cup {i}
      BY <1>2, <2>1
    <3>2. limiter'[k].total = limiter[k].total + 1
      BY <1>7, <2>1 DEF LimiterChange
    <3>3. Cardinality(Holding(k) \cup {i}) = Cardinality(Holding(k)) + 1
      BY <1>4, <2>1
    <3>4. limiter[k].total < MaxTotal[k]
      BY <1>5, <2>1
    <3> QED BY <1>8, <3>1, <3>2, <3>3, <3>4
  <2>2. CASE k # kk
    <3>1. Holding(k)' = Holding(k)
      BY <1>2, <2>2
    <3>2. limiter'[k].total = limiter[k].total
      BY <1>7, <2>2 DEF LimiterChange
    <3> QED BY <1>8, <3>1, <3>2
  <2> QED BY <2>1, <2>2
<1>10. ASSUME NEW u \in Actors
       PROVE  limiter'[k].of[u] = Cardinality(Served(k, u)')
  <2>1. limiter[k].of[u] \in Nat /\ limiter[k].of[u] = Cardinality(Served(k, u))
    BY StreamsConstants DEF StreamsInv, Counted, StreamsTypeOK, LimiterType
  <2>2. CASE k = kk /\ u = uu
    <3>1. Served(k, u)' = Served(k, u) \cup {i}
      BY <1>3, <2>2
    <3>3. Cardinality(Served(k, u) \cup {i}) = Cardinality(Served(k, u)) + 1
      BY <1>4, <2>2
    <3>2. limiter'[k].of[u] = limiter[k].of[u] + 1
      BY <1>7, <2>2 DEF LimiterChange
    <3> QED BY <2>1, <3>1, <3>2, <3>3
  <2>3. CASE ~(k = kk /\ u = uu)
    <3>1. Served(k, u)' = Served(k, u)
      BY <1>3, <2>3
    <3>2. limiter'[k].of[u] = limiter[k].of[u]
      BY <1>7, <2>3 DEF LimiterChange
    <3> QED BY <2>1, <3>1, <3>2
  <2> QED BY <2>2, <2>3
<1> QED BY <1>9, <1>10

-----------------------------------------------------------------------------
(* The counts stay within the type, and the invariant is kept *)

\* A release finds both counts positive, so neither ever falls below zero.
-----------------------------------------------------------------------------
(* The streams of an actor keep fitting *)

\* One that is admitted into room for all of them, itself included, fits with
\* any of them.
LEMMA FittingMore ==
    ASSUME NEW held \in SUBSET Streams, NEW i \in Streams, i \notin held, Fitting(held, streams),
           Cardinality(held) < AtLeastOne(streams[i].limit), streams[i].limit \in Nat,
           \A j \in held \cup {i} : streams'[j].limit = streams[j].limit
    PROVE  Fitting(held \cup {i}, streams')
<1> SUFFICES ASSUME NEW some \in SUBSET (held \cup {i}), some # {}
             PROVE  \E j \in some : Cardinality(some) <= AtLeastOne(streams'[j].limit)
  BY DEF Fitting
<1>1. CASE i \notin some
  <2>1. some \in SUBSET held
    BY <1>1
  <2> QED BY <2>1 DEF Fitting
<1>2. CASE i \in some
  <2>1. IsFiniteSet(held) /\ IsFiniteSet(held \cup {i})
    BY StreamsConstants, FS_Subset
  <2>2. Cardinality(held \cup {i}) = Cardinality(held) + 1 /\ Cardinality(held) \in Nat
    BY <2>1, FS_AddElement, FS_CardinalityType
  <2>3. Cardinality(some) <= Cardinality(held \cup {i}) /\ Cardinality(some) \in Nat
    BY <2>1, FS_Subset, FS_CardinalityType
  <2>4. AtLeastOne(streams[i].limit) \in Nat
    BY DEF AtLeastOne
  <2>5. Cardinality(some) <= AtLeastOne(streams[i].limit)
    BY <2>2, <2>3, <2>4
  <2>6. streams'[i].limit = streams[i].limit
    OBVIOUS
  <2> QED BY <1>2, <2>5, <2>6
<1> QED BY <1>1, <1>2

LEMMA FitsKept ==
    ASSUME StreamsInv, NEW i \in Streams, Elsewhere(i), Quiet(i) \/ Takes(i) \/ Gives(i)
    PROVE  Fits'
<1> SUFFICES ASSUME NEW k \in Kinds, NEW u \in Actors
             PROVE  Fitting(Served(k, u)', streams')
  BY DEF Fits
<1> DEFINE held == Served(k, u)
<1>1. Fitting(held, streams) /\ held \in SUBSET Streams
  BY DEF StreamsInv, Fits, Served, Holding
<1>2. \A j \in Streams \ {i} : (j \in held' <=> j \in held) /\ streams'[j] = streams[j]
  BY DEF Elsewhere, Served, Holding, Holds
<1>3. held' \subseteq Streams
  BY DEF Served, Holding
<1>4. CASE i \in held' /\ i \notin held
  <2>1. Takes(i) /\ streams[i].kind = k /\ streams[i].actor = u
    BY <1>4 DEF Quiet, Gives, Takes, Served, Holding, Holds, SameOwner
  <2>2. held' = held \cup {i}
    BY <1>1, <1>2, <1>3, <1>4
  <2>3. limiter[k].of[u] = Cardinality(held)
    BY DEF StreamsInv, Counted
  <2>4. Cardinality(held) < AtLeastOne(streams[i].limit) /\ streams[i].limit \in Nat
    BY <2>1, <2>3 DEF Takes, HasSlot, StreamsInv, StreamsTypeOK, StreamType
  <2>5. \A j \in held \cup {i} : streams'[j].limit = streams[j].limit
    BY <1>1, <1>2, <2>1 DEF Takes, SameOwner
  <2> HIDE DEF held
  <2>6. Fitting(held \cup {i}, streams')
    BY <1>1, <1>4, <2>4, <2>5, FittingMore
  <2> QED BY <2>2, <2>6 DEF held
<1>5. CASE ~(i \in held' /\ i \notin held)
  <2>1. held' \in SUBSET held
    BY <1>2, <1>3, <1>5
  <2>2. ASSUME i \in held'
        PROVE  streams'[i].limit = streams[i].limit
    BY <1>5, <2>2 DEF Quiet, Gives, Takes, Served, Holding, Holds, SameOwner
  <2>3. \A j \in held' : streams'[j].limit = streams[j].limit
    BY <1>2, <1>3, <2>2
  <2> QED BY <1>1, <2>1, <2>3 DEF Fitting
<1> QED BY <1>4, <1>5

-----------------------------------------------------------------------------
(* The counts stay within the type, and the invariant is kept *)

\* A release finds both counts positive, so neither ever falls below zero.
LEMMA LimiterTyped ==
    ASSUME StreamsInv, NEW i \in Streams, Elsewhere(i), Quiet(i) \/ Takes(i) \/ Gives(i)
    PROVE  limiter' \in LimiterType
<1> DEFINE kk == streams[i].kind  uu == streams[i].actor
<1> kk \in Kinds /\ uu \in Actors
  BY DEF StreamsInv, StreamsTypeOK, StreamType
<1>1. CASE Quiet(i)
  BY <1>1 DEF StreamsInv, StreamsTypeOK, Quiet
<1>2. ASSUME NEW d \in {1, -1}, LimiterChange(kk, uu, d),
             d = -1 => limiter[kk].total # 0 /\ limiter[kk].of[uu] # 0
      PROVE  limiter' \in LimiterType
  <2>1. \A k \in Kinds : limiter[k].total \in Nat /\ limiter[k].of \in [Actors -> Nat]
    BY DEF StreamsInv, StreamsTypeOK, LimiterType
  <2>2. ASSUME NEW k \in Kinds
        PROVE  limiter'[k] \in [of : [Actors -> Nat], total : Nat]
    <3>1. limiter'[k] \in [of : [Actors -> Int], total : Int]
      BY <1>2 DEF LimiterChange
    <3>2. limiter'[k].total \in Nat
      BY <1>2, <2>1 DEF LimiterChange
    <3>3. \A u \in Actors : limiter'[k].of[u] \in Nat
      BY <1>2, <2>1 DEF LimiterChange
    <3>4. limiter'[k].of \in [Actors -> Nat]
      BY <3>1, <3>3
    <3> QED BY <3>1, <3>2, <3>4
  <2>3. limiter' = [k \in Kinds |-> limiter'[k]]
    BY <1>2 DEF LimiterChange
  <2> QED BY <2>2, <2>3 DEF LimiterType
<1>3. CASE Takes(i)
  BY <1>2, <1>3, TakesOne
<1>4. CASE Gives(i)
  <2>1. limiter[kk].total # 0 /\ limiter[kk].of[uu] # 0
    BY <1>4, Positive DEF Gives
  <2>2. LimiterChange(kk, uu, -1)
    BY <1>4, GivesOne
  <2> HIDE DEF kk, uu
  <2> QED BY <1>2, <2>1, <2>2
<1> QED BY <1>1, <1>3, <1>4

LEMMA MoveKeeps ==
    ASSUME StreamsInv, NEW i \in Streams, Moves(i)
    PROVE  StreamsInv'
<1>1. StreamsTypeOK'
  BY LimiterTyped DEF StreamsTypeOK, Typed, Moves
<1>2. \A j \in Streams : Closes(j)'
  BY DEF Moves, Elsewhere, Closes, StreamsInv
<1>3. Counted' /\ Fits'
  BY QuietKeeps, GivenBack, Taken, FitsKept DEF Moves
<1> QED BY <1>1, <1>2, <1>3 DEF StreamsInv

LEMMA StreamsInitially ==
    ASSUME StreamsInit
    PROVE  StreamsInv
<1>1. (CHOOSE u \in Actors : TRUE) \in Actors
  BY StreamsConstants
<1>2. StreamsTypeOK
  BY <1>1 DEF StreamsInit, Unused, StreamsTypeOK, StreamType, LimiterType
<1>3. \A i \in Streams : Pc(i) = "idle"
  BY DEF StreamsInit, Unused
<1>4. ASSUME NEW k \in Kinds, NEW u \in Actors
      PROVE  Holding(k) = {} /\ Served(k, u) = {}
  BY <1>3 DEF Holding, Served, Holds
<1>5. ASSUME NEW k \in Kinds, NEW u \in Actors
      PROVE  limiter[k].total = 0 /\ limiter[k].of[u] = 0
  BY DEF StreamsInit
<1>6. ASSUME NEW k \in Kinds
      PROVE  limiter[k].total = 0 /\ Holding(k) = {}
  BY <1>1, <1>4, <1>5
<1>7. Cardinality({}) = 0 /\ MaxTotal \in [Kinds -> Nat]
  BY FS_EmptySet, StreamsConstants
<1>8. Counted
  <2> SUFFICES ASSUME NEW k \in Kinds
               PROVE  /\ limiter[k].total = Cardinality(Holding(k))
                      /\ limiter[k].total <= MaxTotal[k]
                      /\ \A u \in Actors : limiter[k].of[u] = Cardinality(Served(k, u))
    BY DEF Counted
  <2>1. limiter[k].total = Cardinality(Holding(k)) /\ limiter[k].total <= MaxTotal[k]
    BY <1>6, <1>7
  <2>2. \A u \in Actors : limiter[k].of[u] = Cardinality(Served(k, u))
    BY <1>4, <1>5, <1>7
  <2> QED BY <2>1, <2>2
<1>9. Fits
  BY <1>4 DEF Fits, Fitting
<1> QED BY <1>2, <1>3, <1>8, <1>9 DEF StreamsInv, Closes

LEMMA StreamsStep ==
    ASSUME StreamsInv, [StreamsNext]_streamVars
    PROVE  StreamsInv'
<1>1. CASE StreamsNext
  <2>1. PICK i \in Streams : StreamStep(i) \/ (\E k \in Kinds, u \in Actors : Open(i, k, u))
    BY <1>1 DEF StreamsNext
  <2>2. Moves(i)
    BY <2>1, Stepping DEF StreamsInv, StreamsTypeOK, Typed
  <2> QED BY <2>2, MoveKeeps
<1>2. CASE UNCHANGED streamVars
  BY <1>2 DEF streamVars, StreamsInv, StreamsTypeOK, Closes, Counted, Fits, Fitting, Served,
              Holding, Holds
<1> QED BY <1>1, <1>2

-----------------------------------------------------------------------------

\* Type correctness of the streams and their limiters.
THEOREM StreamsTyped == StreamsSpec => []StreamsTypeOK
<1>1. StreamsInv => StreamsTypeOK
  BY DEF StreamsInv
<1> QED BY <1>1, StreamsInitially, StreamsStep, PTL DEF StreamsSpec

\* Telemetry's limiters count exactly the streams between their admission and
\* their first Close, within the total and, for each actor, within a limit that
\* one of its streams was admitted under; for any number of streams and actors,
\* and any limits, changed at any time.
THEOREM SlotsMatch == StreamsSpec => []SlotsMatchStreams
<1>1. ASSUME StreamsInv
      PROVE  SlotsMatchStreams
  <2>1. ASSUME NEW k \in Kinds, NEW u \in Actors
        PROVE  WithinLimit(limiter[k].of[u], Served(k, u))
    <3>1. limiter[k].of[u] = Cardinality(Served(k, u)) /\ Fitting(Served(k, u), streams)
      BY <1>1 DEF StreamsInv, Counted, Fits
    <3> QED BY <3>1 DEF Fitting, WithinLimit
  <2> QED BY <1>1, <2>1 DEF StreamsInv, Counted, SlotsMatchStreams
<1> QED BY <1>1, StreamsInitially, StreamsStep, PTL DEF StreamsSpec

-----------------------------------------------------------------------------
(* The composition: the inductive invariant *)

\* A ticket has opened nothing before it is spent, and then one stream.
OpensOne(ticket) ==
    /\ ticket.pc # "spent" => ticket.opened = {}
    /\ ticket.opened = {} \/ \E i \in Streams : ticket.opened = {i}

TicketsInv ==
    /\ tickets \in [Tickets -> TicketType]
    /\ \A t \in Tickets : OpensOne(tickets[t])

GatewayInv == AccountsInv /\ StreamsInv /\ TicketsInv

-----------------------------------------------------------------------------
(* The tickets *)

LEMMA TicketChanges ==
    ASSUME TicketsInv, NEW t \in Tickets, NEW r \in TicketType, OpensOne(r),
           tickets' = [tickets EXCEPT ![t] = r]
    PROVE  TicketsInv'
<1>1. \A u \in Tickets : tickets'[u] = IF u = t THEN r ELSE tickets[u]
  BY DEF TicketsInv
<1> QED BY <1>1 DEF TicketsInv

LEMMA Verifying ==
    ASSUME GatewayInv, NEW t \in Tickets, VerifyAccessToken(t)
    PROVE  TicketsInv'
<1>1. PICK a \in tokens, kind \in Kinds, scope \in {"user", "admin"} :
         tickets' = [tickets EXCEPT ![t] =
           [pc |-> "verified", actor |-> <<scope, a>>, kind |-> kind, opened |-> {}]]
  BY DEF VerifyAccessToken, Scopes
<1> DEFINE actor == <<scope, a>>
           r == [pc |-> "verified", actor |-> actor, kind |-> kind, opened |-> {}]
<1>2. a \in Accounts
  BY DEF GatewayInv, AccountsInv, AccountsTypeOK
<1>3. actor \in Actors
  BY <1>2, GatewayConstants
<1> HIDE DEF actor
<1>4. r \in TicketType /\ OpensOne(r)
  BY <1>3 DEF TicketType, OpensOne
<1> QED BY <1>1, <1>4, TicketChanges DEF GatewayInv, actor

LEMMA Advancing ==
    ASSUME TicketsInv, NEW t \in Tickets, Issue(t) \/ Discard(t)
    PROVE  TicketsInv'
<1>1. PICK s \in TicketType : s = tickets[t] /\ OpensOne(s) /\ s.pc \in {"verified", "issued"}
  BY DEF TicketsInv, Issue, Discard
<1>2. PICK pc \in {"issued", "spent"} : tickets' = [tickets EXCEPT ![t].pc = pc]
  BY DEF Issue, Discard
<1> DEFINE r == [s EXCEPT !.pc = pc]
<1>3. r \in TicketType /\ r.opened = {}
  BY <1>1 DEF TicketType, OpensOne
<1>4. tickets' = [tickets EXCEPT ![t] = r]
  BY <1>1, <1>2
<1> HIDE DEF r
<1>5. OpensOne(r)
  BY <1>3 DEF OpensOne
<1> QED BY <1>3, <1>4, <1>5, TicketChanges

LEMMA Consuming ==
    ASSUME TicketsInv, NEW t \in Tickets, Consume(t)
    PROVE  /\ TicketsInv'
           /\ \E i \in Streams, k \in Kinds, u \in Actors : Open(i, k, u)
<1>1. PICK s \in TicketType : s = tickets[t] /\ s.opened = {} /\ s.pc = "issued"
  BY DEF TicketsInv, OpensOne, Consume
<1>2. PICK i \in Streams :
         /\ tickets' = [tickets EXCEPT ![t].pc = "spent", ![t].opened = @ \cup {i}]
         /\ Open(i, tickets[t].kind, tickets[t].actor)
  BY DEF Consume, Deleted
<1> DEFINE r == [s EXCEPT !.pc = "spent", !.opened = {i}]
<1>3. r \in TicketType /\ r.opened = {i} /\ r.pc = "spent"
  BY DEF TicketType
<1>4. tickets' = [tickets EXCEPT ![t] = r]
  BY <1>1, <1>2 DEF TicketsInv, TicketType
<1> HIDE DEF r
<1>5. OpensOne(r)
  BY <1>3 DEF OpensOne
<1>6. s.kind \in Kinds /\ s.actor \in Actors
  BY DEF TicketType
<1> QED BY <1>1, <1>2, <1>3, <1>4, <1>5, <1>6, TicketChanges

-----------------------------------------------------------------------------
(* Every step is one of a part's, or neither part's *)

LEMMA StepOfParts ==
    ASSUME GatewayInv, [Next]_vars
    PROVE  [AccountsNext]_accountVars /\ [StreamsNext]_streamVars /\ TicketsInv'
<1>1. CASE SSO
  BY <1>1 DEF SSO, GatewayInv, TicketsInv
<1>2. CASE Telemetry
  BY <1>2 DEF Telemetry, StreamsNext, GatewayInv, TicketsInv
<1>3. ASSUME NEW t \in Tickets, TicketStep(t)
      PROVE  [AccountsNext]_accountVars /\ [StreamsNext]_streamVars /\ TicketsInv'
  <2>1. CASE Consume(t)
    <3>1. UNCHANGED accountVars
      BY <2>1 DEF Consume
    <3>2. TicketsInv' /\ \E i \in Streams, k \in Kinds, u \in Actors : Open(i, k, u)
      BY <2>1, Consuming DEF GatewayInv
    <3> QED BY <3>1, <3>2 DEF StreamsNext
  <2>2. CASE ~Consume(t)
    <3>1. UNCHANGED accountVars /\ UNCHANGED streamVars
      BY <1>3, <2>2 DEF TicketStep, VerifyAccessToken, Issue, Discard
    <3>2. TicketsInv'
      BY <1>3, <2>2, Verifying, Advancing DEF TicketStep, GatewayInv
    <3> QED BY <3>1, <3>2
  <2> QED BY <2>1, <2>2
<1>4. CASE UNCHANGED vars
  BY <1>4 DEF vars, GatewayInv, TicketsInv
<1> QED BY <1>1, <1>2, <1>3, <1>4 DEF Next

LEMMA GatewayInitially ==
    ASSUME Init
    PROVE  GatewayInv
<1>1. (CHOOSE u \in Actors : TRUE) \in Actors
  BY StreamsConstants
<1>2. TicketsInv
  BY <1>1 DEF Init, TicketsInv, TicketType, OpensOne, Kinds
<1> QED BY <1>2, AccountsInitially, StreamsInitially DEF Init, GatewayInv

LEMMA GatewayStep ==
    ASSUME GatewayInv, [Next]_vars
    PROVE  GatewayInv'
BY StepOfParts, AccountsStep, AccountsStutter, StreamsStep DEF GatewayInv

LEMMA GatewayInvariant == Spec => []GatewayInv
BY GatewayInitially, GatewayStep, PTL DEF Spec

-----------------------------------------------------------------------------

\* Type correctness of the composition.
THEOREM GatewayTyped == Spec => []TypeOK
<1>1. GatewayInv => TypeOK
  BY DEF GatewayInv, AccountsInv, StreamsInv, TicketsInv, TypeOK
<1> QED BY <1>1, GatewayInvariant, PTL

\* The composition implements SSO and Telemetry: no step of the gateway makes
\* either of them do what it would not do by itself.
THEOREM PartsImplemented == Spec => AccountsSpec /\ StreamsSpec
<1>1. Init => AccountsInit /\ StreamsInit
  BY DEF Init
<1> QED BY <1>1, StepOfParts, GatewayInvariant, PTL DEF Spec, AccountsSpec, StreamsSpec

\* Behind the gateway too, Telemetry's limiters count exactly the streams that
\* hold a slot, and each scope of an account, as a user and as an administrator,
\* has a limit of its own.
THEOREM SlotsMatchBehindGateway == Spec => []SlotsMatchStreams
BY PartsImplemented, SlotsMatch, PTL

\* Behind the gateway too, an identity signs in to the one account that carries
\* it, and an account keeps its identity.
THEOREM LoginsOwnedBehindGateway == Spec => LoginsAreOwned
BY PartsImplemented, LoginsOwned, PTL

\* And it is left without an active administrator only by an overtaken write.
THEOREM AdminsRemainBehindGateway == Spec => AdminsRemain
BY PartsImplemented, AdministratorsRemain, PTL

\* No two callbacks proceed on one state, no two streams on one ticket, for any
\* number of handlers, tickets and streams.
THEOREM SessionsUsedOnce == Spec => []UsedOnce
<1>1. ASSUME GatewayInv
      PROVE  UsedOnce
  <2>1. ASSUME NEW t \in Tickets
        PROVE  Cardinality(tickets[t].opened) <= 1
    <3>1. tickets[t].opened = {} \/ \E i \in Streams : tickets[t].opened = {i}
      BY <1>1 DEF GatewayInv, TicketsInv, OpensOne
    <3>2. CASE tickets[t].opened = {}
      <4>1. Cardinality({}) = 0
        BY FS_EmptySet
      <4>2. Cardinality(tickets[t].opened) = 0
        BY <3>2, <4>1
      <4> QED BY <4>2
    <3>3. ASSUME NEW i \in Streams, tickets[t].opened = {i}
          PROVE  Cardinality(tickets[t].opened) <= 1
      <4>1. Cardinality({i}) = 1
        BY FS_Singleton
      <4>2. Cardinality(tickets[t].opened) = 1
        BY <3>3, <4>1
      <4> QED BY <4>2
    <3> QED BY <3>1, <3>2, <3>3
  <2> QED BY <1>1, <2>1 DEF UsedOnce, GatewayInv, AccountsInv, Separate
<1> QED BY <1>1, GatewayInvariant, PTL

=============================================================================
