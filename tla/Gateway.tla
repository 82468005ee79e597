------------------------------ MODULE Gateway -------------------------------
(***************************************************************************)
(* The gateway between a browser, SSO and Telemetry.  A request with a     *)
(* token is verified by SSO, which reads the account, and then obtains a   *)
(* ticket for a scope: the account as a user, or, on the routes under      *)
(* /admin, as an administrator.  Whoever presents the ticket within its    *)
(* time has one stream of Telemetry opened in that scope.  Tickets live in *)
(* the gateway's memory: a restart loses them, which is their expiry here. *)
(***************************************************************************)
EXTENDS Accounts, TelemetrySessions

CONSTANTS
    Tickets,
    Mixes   \* bound: how many account requests, tickets of a kind and tickets of
            \* administrators a behaviour has

ASSUME GatewayConstants ==
    /\ Actors = {"user", "admin"} \X Accounts
    /\ IsFiniteSet(Tickets)
    /\ Mixes \subseteq [requests : Nat, logs : Nat, terminal : Nat, admin : Nat]

VARIABLE
    tickets     \* TelemetryTicketStore, and the requests that ask for one
vars == <<accountVars, streamVars, tickets>>

TicketType ==
    [pc : {"none", "verified", "issued", "spent"}, actor : Actors, kind : Kinds,
     opened : SUBSET Streams]

TypeOK ==
    /\ AccountsTypeOK
    /\ StreamsTypeOK
    /\ tickets \in [Tickets -> TicketType]

Init ==
    /\ AccountsInit
    /\ StreamsInit
    /\ tickets = [t \in Tickets |->
         [pc |-> "none", actor |-> CHOOSE u \in Actors : TRUE, kind |-> "logs",
          opened |-> {}]]

Unasked == {t \in Tickets : tickets[t].pc = "none"}
Asked(P(_)) == Cardinality({t \in Tickets \ Unasked : P(tickets[t])})
Mixed ==
    \E mix \in Mixes :
        /\ requests <= mix.requests
        /\ \A k \in Kinds : Asked(LAMBDA ticket : ticket.kind = k) <= mix[k]
        /\ Asked(LAMBDA ticket : ticket.actor[1] = "admin") <= mix.admin

\* The middlewares Auth and RequirePermission: SSO accepts a token of an active
\* account, and for the routes under /admin only an administrator's.
Scopes(a) == IF IsActiveAdmin(a) THEN {"user", "admin"} ELSE {"user"}
VerifyAccessToken(t) ==
    /\ up
    /\ t \in Unasked /\ t = CHOOSE u \in Unasked : TRUE
    /\ \E a \in {b \in tokens : IsActive(b)}, kind \in Kinds : \E scope \in Scopes(a) :
         tickets' = [tickets EXCEPT ![t] =
           [pc |-> "verified", actor |-> <<scope, a>>, kind |-> kind, opened |-> {}]]
    /\ UNCHANGED <<accountVars, streamVars>>
    /\ Mixed'

Issue(t) ==
    /\ tickets[t].pc = "verified"
    /\ tickets' = [tickets EXCEPT ![t].pc = "issued"]
    /\ UNCHANGED <<accountVars, streamVars>>

\* The ticket's time is over, or it was presented for another container or route.
Discard(t) ==
    /\ tickets[t].pc = "issued"
    /\ tickets' = [tickets EXCEPT ![t].pc = "spent"]
    /\ UNCHANGED <<accountVars, streamVars>>

Kept(t) == "issued"
Deleted(t) == "spent"
Consume(t) ==
    /\ tickets[t].pc = "issued"
    /\ \E i \in Streams : Pc(i) = "idle"
    /\ LET i == CHOOSE j \in Streams : Pc(j) = "idle"
       IN  /\ tickets' = [tickets EXCEPT ![t].pc = Deleted(t), ![t].opened = @ \cup {i}]
           /\ Open(i, tickets[t].kind, tickets[t].actor)
    /\ UNCHANGED accountVars

TicketStep(t) ==
    VerifyAccessToken(t) \/ Issue(t) \/ Discard(t) \/ Consume(t)

SSO ==
    /\ AccountsNext
    /\ UNCHANGED <<streamVars, tickets>>
    /\ Mixed'

Telemetry == \E i \in Streams : StreamStep(i) /\ UNCHANGED <<accountVars, tickets>>

Next == SSO \/ (\E t \in Tickets : TicketStep(t)) \/ Telemetry

Spec == Init /\ [][Next]_vars
FairSpec == Spec /\ StreamFairness

-----------------------------------------------------------------------------
(* Properties.                                                             *)

\* What opens a session is used up by it: two callbacks never proceed on one
\* OIDC state, two connections never on one ticket, even when they come at once.
UsedOnce ==
    /\ \A h, k \in Handlers :
          handlers[h].state = handlers[k].state /\ handlers[h].state # None => h = k
    /\ \A t \in Tickets : Cardinality(tickets[t].opened) <= 1

=============================================================================
