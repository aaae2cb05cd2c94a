------------------------------ MODULE RateLimit ------------------------------
(***************************************************************************)
(* RateLimitMiddleware (bot/middleware/rate_limit.py): the times of a      *)
(* user's last events, in a window that slides.  The middleware decides    *)
(* before it awaits the handler.                                           *)
(***************************************************************************)
EXTENDS Integers, FiniteSetsExt, SequencesExt

CONSTANTS
  Users,
  MaxEvents,     \* RATE_LIMIT_MAX_EVENTS
  Window,        \* RATE_LIMIT_WINDOW_SECONDS
  EventKinds     \* what the dispatcher calls the middleware with

ASSUME RateAssumption ==
  /\ MaxEvents \in Nat
  /\ Window \in Nat
  /\ EventKinds \subseteq {"message", "callback", "update"}

VARIABLES
  now,      \* time.monotonic()
  hits,     \* _hits: a deque of times for each user
  handled,  \* when the handler ran for each user, in order
  refused   \* the user who has just been told to slow down, {} otherwise

rateVars == <<now, hits, handled, refused>>

RateInit ==
  /\ now = 0
  /\ hits = [u \in Users |-> <<>>]
  /\ handled = [u \in Users |-> <<>>]
  /\ refused = {}

(* self._max                                                               *)
Limit == Max({1, MaxEvents})

(* An aiogram Update wraps the message or the callback query of the user   *)
(* and has no from_user of its own.                                        *)
HasUser(kind) == kind # "update"

\* Faulty: a hit at the very edge of the window has left it.
LapsedEarly(u) ==
  CHOOSE n \in 0..Len(hits[u]) :
    /\ \A i \in 1..n : now - hits[u][i] >= Window
    /\ n < Len(hits[u]) => now - hits[u][n + 1] < Window

(* How many of the oldest hits have left the window: popleft takes them    *)
(* out one after the other, up to the first that has not.                  *)
Lapsed(u) ==
  CHOOSE n \in 0..Len(hits[u]) :
    /\ \A i \in 1..n : now - hits[u][i] > Window
    /\ n < Len(hits[u]) => now - hits[u][n + 1] <= Window

(* The deque without them.                                                 *)
Recent(u) == SubSeq(hits[u], Lapsed(u) + 1, Len(hits[u]))

\* Faulty: refused events count as hits.
RefuseCounting(u, kind) ==
  /\ HasUser(kind)
  /\ Len(Recent(u)) >= Limit
  /\ hits' = [hits EXCEPT ![u] = Append(Recent(u), now)]
  /\ refused' = {u}
  /\ UNCHANGED <<now, handled>>

Refuse(u, kind) ==
  /\ HasUser(kind)
  /\ Len(Recent(u)) >= Limit
  /\ hits' = [hits EXCEPT ![u] = Recent(u)]
  /\ refused' = {u}
  /\ UNCHANGED <<now, handled>>

(* The handler is called: for an event without a user, without a count.    *)
Admit(u, kind) ==
  /\ \/ HasUser(kind) /\ Len(Recent(u)) < Limit
        /\ hits' = [hits EXCEPT ![u] = Append(Recent(u), now)]
     \/ ~HasUser(kind) /\ UNCHANGED hits
  /\ handled' = [handled EXCEPT ![u] = Append(@, now)]
  /\ refused' = {}
  /\ UNCHANGED now

Tick == now' = now + 1 /\ refused' = {} /\ UNCHANGED <<hits, handled>>

RateTypeOK ==
  /\ now \in Nat
  /\ hits \in [Users -> Seq(0..now)]
  /\ handled \in [Users -> Seq(0..now)]
  /\ refused \subseteq Users

-----------------------------------------------------------------------------
(* How often the handler ran for u in the Window that ends at t.           *)
Within(u, t) == Quantify(DOMAIN handled[u], LAMBDA i : handled[u][i] \in (t - Window)..t)

(* "Sliding-window per-user limit applied to Telegram updates."            *)
(* (rate_limit.py): wherever a window of that length is laid, both ends    *)
(* included, no user has more than Limit events handled in it.             *)
WindowKept == \A u \in Users : \A t \in 0..now : Within(u, t) <= Limit

(* No more than that: a user who is refused has used up the window, and    *)
(* what was refused before does not count.                                 *)
RefusedWithReason == \A u \in refused : Within(u, now) >= Limit
=============================================================================
