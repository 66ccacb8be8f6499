------------------------------- MODULE Limiter -------------------------------
(***************************************************************************)
(* The fixed-window rate limits of cmd/core/main.go over one counter in      *)
(* Valkey: requests that are counted, the limit that an admin may change     *)
(* while they are, and the one notification that a tripped limit is worth.   *)
(* Every call on Valkey or the database may fail; once a request's client is *)
(* gone, those that are left do.                                             *)
(***************************************************************************)
EXTENDS Integers

CONSTANTS
  Hits,          \* requests under way that fall on the counter's key
  Limits,        \* values an admin may give the limit
  DefaultLimit,  \* what a failing read of the setting gives
  MaxHits        \* bound: requests counted, and changes of the limit

ASSUME LimiterAssumption ==
  /\ Limits \subseteq Nat \ {0} /\ DefaultLimit \in Limits
  /\ MaxHits \in Nat

VARIABLES
  count,     \* the counter, 0 when its key is absent
  max,       \* the limit in core_settings
  hit,       \* what each request is doing
  window,    \* history: the number of the counter's current window
  passed,    \* history: requests of this window that were let through ...
  uncounted, \* history: ... because the counter could not be asked
  toasts,    \* history: notifications published for this window
  moved,     \* history: the limit changed while this window was open
  misread,   \* history: a request of this window compared with another limit
  lost,      \* history: the announcement of this window's trip was lost
  hits

limiterVars == <<count, max, hit, window, passed, uncounted, toasts, moved, misread, lost, hits>>

-----------------------------------------------------------------------------
NoHit == [pc |-> "idle", n |-> 0, window |-> 0]

LimiterInit ==
  /\ count = 0 /\ max = DefaultLimit
  /\ hit = [h \in Hits |-> NoHit]
  /\ window = 1 /\ passed = 0 /\ uncounted = 0 /\ toasts = 0
  /\ moved = FALSE /\ misread = FALSE /\ lost = FALSE /\ hits = 0

(* rateLimitMiddleware counts the request: one script in Valkey, which gives *)
(* a new key its window.                                                     *)
IncrExpire(h) ==
  /\ hit[h] = NoHit /\ hits < MaxHits
  /\ hits' = hits + 1
  /\ count' = count + 1
  /\ hit' = [hit EXCEPT ![h] = [pc |-> "max", n |-> count + 1, window |-> window]]
  /\ UNCHANGED <<max, window, passed, uncounted, toasts, moved, misread, lost>>

(* The call fails, and the request is let through (fail open). The script    *)
(* may have run all the same, if only its answer was lost.                   *)
FailOpen ==
  /\ hits < MaxHits /\ hits' = hits + 1
  /\ passed' = passed + 1 /\ uncounted' = uncounted + 1
  /\ \/ UNCHANGED <<count, lost>>
     \/ count' = count + 1 /\ lost' = (lost \/ count = max)
  /\ UNCHANGED <<max, hit, window, toasts, moved, misread>>

TripsMutant(n, limit) == n > limit

(* Only the request that trips the limit announces it.                       *)
Trips(n, limit) == n = limit + 1

(* readRateLimitInt gives the default when the setting cannot be read.       *)
SeenMax == {max, DefaultLimit}

Compare(h) ==
  /\ hit[h].pc = "max"
  /\ \E limit \in SeenMax :
       /\ hit' = [hit EXCEPT ![h] = IF Trips(hit[h].n, limit) THEN [@ EXCEPT !.pc = "publish"]
                                    ELSE NoHit]
       /\ passed' = IF hit[h].n <= limit /\ hit[h].window = window THEN passed + 1 ELSE passed
       /\ misread' = (misread \/ (limit # max /\ hit[h].window = window))
  /\ UNCHANGED <<count, max, window, uncounted, toasts, moved, lost, hits>>

(* A failing Publish is logged only. The audit entry that follows is         *)
(* AuditLog's.                                                               *)
Announce(h) ==
  /\ hit[h].pc = "publish"
  /\ IF hit[h].window # window THEN UNCHANGED <<toasts, lost>>
     ELSE \/ toasts' = toasts + 1 /\ UNCHANGED lost
          \/ lost' = TRUE /\ UNCHANGED toasts
  /\ hit' = [hit EXCEPT ![h] = NoHit]
  /\ UNCHANGED <<count, max, window, passed, uncounted, moved, misread, hits>>

(* The key expires, or resetRateLimitHandler deletes it.                     *)
WindowEnds ==
  /\ count > 0
  /\ count' = 0 /\ window' = window + 1
  /\ passed' = 0 /\ uncounted' = 0 /\ toasts' = 0
  /\ moved' = FALSE /\ misread' = FALSE /\ lost' = FALSE
  /\ UNCHANGED <<max, hit, hits>>

SetLimit(m) ==
  /\ m \in Limits \ {max} /\ hits < MaxHits
  /\ max' = m /\ moved' = TRUE /\ hits' = hits + 1
  /\ UNCHANGED <<count, hit, window, passed, uncounted, toasts, misread, lost>>

LimiterNext ==
  \/ \E h \in Hits : IncrExpire(h) \/ Compare(h) \/ Announce(h)
  \/ FailOpen
  \/ WindowEnds
  \/ \E m \in Limits : SetLimit(m)

-----------------------------------------------------------------------------
(* While a window is open, nobody moves the limit and it can be read,        *)
(* concurrent requests get at most the limit through, and one more for each  *)
(* that could not be counted. Admins are told of a trip once: never twice,   *)
(* and not never once every request was answered, unless that one message    *)
(* was lost: the call failed, or the request that was to send it died.       *)
OneToastPerTrip ==
  ~moved /\ ~misread =>
    /\ passed <= max + uncounted
    /\ toasts <= 1
    /\ (count > max /\ ~lost /\ \A h \in Hits : hit[h].window # window) => toasts = 1
=============================================================================
