---------------------------- MODULE TokenReserve ----------------------------
(***************************************************************************)
(* One GitHub token shared by the clients of gitcrawl and by other          *)
(* programs, and the reserve a guarded client leaves of its quota           *)
(* (internal/github/client.go).                                            *)
(*                                                                         *)
(* GitHub counts the requests of a token per resource, in windows.  A       *)
(* guarded client reads /rate_limit, which costs nothing, before each       *)
(* request that costs something, and refuses the request that would take    *)
(* the quota below the reserve.  Nothing orders the reading and the request *)
(* with what the token's other users do in between.  A client holds         *)
(* requestMu from the reading to the answer: one request of a client is     *)
(* under way at a time.                                                     *)
(***************************************************************************)
EXTENDS Naturals, FiniteSets

CONSTANTS
  Clients,    \* guarded clients, each with its own snapshots
  Resources,  \* "core" and "graphql"
  Limit,      \* requests of a window, per resource
  Reserve,    \* Options.RateLimitReserve
  MaxOthers   \* bound on the requests of other programs in a window, per resource

ASSUME ReserveAssumption ==
  /\ IsFiniteSet(Clients) /\ Resources # {}
  /\ Reserve \in Nat \ {0}
  /\ Limit \in [Resources -> Nat] /\ MaxOthers \in [Resources -> Nat]
  /\ \A r \in Resources : Reserve < Limit[r]

VARIABLES
  quota,   \* what GitHub has left of each resource in this window
  others,  \* what other programs have used of it in this window
  request  \* the request of each client

tokenVars == <<quota, others, request>>

(* do() makes a request at most twice.                                      *)
MaxAttempts == 2

(* The cost of every request but GET /rate_limit.                           *)
Cost == 1

(* "room" is whether the snapshot the client has just read leaves the       *)
(* reserve after the request, "again" that it had to read a second time;    *)
(* "current" says that the window of the reading, or of a refusal by        *)
(* GitHub, is not over.                                                     *)
Request ==
  {q \in [step : {"none", "check", "granted", "afterReset", "afterDelay",
                  "refused", "failed"},
          resource : Resources, attempt : 1..MaxAttempts,
          room : BOOLEAN, again : BOOLEAN, current : BOOLEAN] :
     q.step \in {"afterReset", "afterDelay"} => q.attempt < MaxAttempts}

(* No request: the other fields are then of no account.                     *)
NoRequest == [step |-> "none", resource |-> CHOOSE r \in Resources : TRUE,
              attempt |-> 1, room |-> FALSE, again |-> FALSE, current |-> TRUE]

TokenTypeOK ==
  /\ quota \in [Resources -> Nat] /\ \A r \in Resources : quota[r] <= Limit[r]
  /\ others \in [Resources -> Nat] /\ \A r \in Resources : others[r] <= MaxOthers[r]
  /\ request \in [Clients -> Request]

TokenInit ==
  /\ quota = Limit
  /\ others = [r \in Resources |-> 0]
  /\ request = [c \in Clients |-> NoRequest]

-----------------------------------------------------------------------------
(* A guarded client *)

(* Mutant: the reserve is compared without the cost of the request.         *)
SparesBefore(remaining) == remaining >= Reserve

(* beforeRequest: a quota that keeps the reserve after one more request.    *)
Spares(remaining) == remaining >= Cost + Reserve

(* The answer of /rate_limit replaces the client's snapshots.               *)
Read(c, r, attempt, again) ==
  /\ request' = [request EXCEPT ![c] =
       [step |-> "check", resource |-> r, attempt |-> attempt,
        room |-> Spares(quota[r]), again |-> again, current |-> TRUE]]
  /\ UNCHANGED <<quota, others>>

Ends(c, step) == request' = [request EXCEPT ![c] = [NoRequest EXCEPT !.step = step]]

Ask(c, r) == request[c].step = "none" /\ Read(c, r, 1, FALSE)

(* The window of the snapshot is over: the client reads /rate_limit once    *)
(* more, and gives up when that window is over too.                         *)
Expired(c) ==
  /\ request[c].step = "check" /\ ~request[c].current
  /\ \/ /\ ~request[c].again
        /\ Read(c, request[c].resource, request[c].attempt, TRUE)
     \/ /\ request[c].again
        /\ Ends(c, "failed") /\ UNCHANGED <<quota, others>>

Grant(c) ==
  /\ request[c].step = "check" /\ request[c].current /\ request[c].room
  /\ request' = [request EXCEPT ![c].step = "granted", ![c].again = FALSE]
  /\ UNCHANGED <<quota, others>>

Refuse(c) ==
  /\ request[c].step = "check" /\ request[c].current /\ ~request[c].room
  /\ Ends(c, "refused") /\ UNCHANGED <<quota, others>>

(* GitHub counts the request and answers it, well or with an error.  A      *)
(* redirection is an error: a guarded client does not follow it.            *)
Answer(c, step) ==
  /\ request[c].step = "granted" /\ quota[request[c].resource] >= Cost
  /\ quota' = [quota EXCEPT ![request[c].resource] = @ - Cost]
  /\ Ends(c, step)
  /\ UNCHANGED others

(* Mutant: do() calls itself, so that it waits each time.                   *)
WaitsEachTime(c, step) ==
  request' = [request EXCEPT ![c].step = step, ![c].current = TRUE]

(* A 403 or 429, for a quota that is used up or for a delay GitHub asks     *)
(* for: do() waits and makes the request a second time, and no more.        *)
Waits(c, step) ==
  \/ /\ request[c].attempt < MaxAttempts
     /\ request' = [request EXCEPT ![c].step = step, ![c].current = TRUE]
  \/ /\ request[c].attempt = MaxAttempts
     /\ Ends(c, "failed")

Exhausted(c) ==
  /\ request[c].step = "granted" /\ quota[request[c].resource] < Cost
  /\ Waits(c, "afterReset")
  /\ UNCHANGED <<quota, others>>

Delayed(c) ==
  /\ request[c].step = "granted" /\ quota[request[c].resource] >= Cost
  /\ quota' = [quota EXCEPT ![request[c].resource] = @ - Cost]
  /\ Waits(c, "afterDelay")
  /\ UNCHANGED others

Retry(c) ==
  /\ \/ request[c].step = "afterReset" /\ ~request[c].current
     \/ request[c].step = "afterDelay"
  /\ Read(c, request[c].resource, request[c].attempt + 1, FALSE)

(* A reading of /rate_limit or a request that gets no answer.               *)
Breaks(c) ==
  /\ request[c].step \in {"check", "granted"}
  /\ Ends(c, "failed") /\ UNCHANGED <<quota, others>>

(* The command takes the error, or is killed: its client goes with it.      *)
Drop(c) == Ends(c, "none") /\ UNCHANGED <<quota, others>>

-----------------------------------------------------------------------------
(* The token *)

OtherSpends(r) ==
  /\ quota[r] >= Cost /\ others[r] < MaxOthers[r]
  /\ quota' = [quota EXCEPT ![r] = @ - Cost]
  /\ others' = [others EXCEPT ![r] = @ + Cost]
  /\ UNCHANGED request

(* The window of a resource ends.                                           *)
Reset(r) ==
  /\ quota' = [quota EXCEPT ![r] = Limit[r]]
  /\ others' = [others EXCEPT ![r] = 0]
  /\ request' = [c \in Clients |->
       IF request[c].resource = r /\ request[c].step \in {"check", "afterReset"}
       THEN [request[c] EXCEPT !.current = FALSE, !.room = FALSE] ELSE request[c]]

ClientNext(c) ==
  \/ \E r \in Resources : Ask(c, r)
  \/ Expired(c) \/ Grant(c) \/ Refuse(c)
  \/ Answer(c, "none") \/ Answer(c, "failed")
  \/ Exhausted(c) \/ Delayed(c) \/ Retry(c) \/ Breaks(c) \/ Drop(c)

TokenNext ==
  \/ \E c \in Clients : ClientNext(c)
  \/ \E r \in Resources : OtherSpends(r) \/ Reset(r)

TokenSpec == TokenInit /\ [][TokenNext]_tokenVars

-----------------------------------------------------------------------------
(* The reserve is best effort (docs/commands.md): however often they ask,   *)
(* the clients together take a resource below the reserve by less than one  *)
(* request each, and what other programs spend.                            *)
ReserveKept ==
  \A r \in Resources :
    quota[r] + others[r] + Cardinality(Clients) > Reserve
=============================================================================
