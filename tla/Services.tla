------------------------------- MODULE Services -------------------------------
(***************************************************************************)
(* Services of the process that share nothing but the process, composed: the *)
(* mail worker and the SMTP settings (Mail), the job runner (Jobs), the      *)
(* update check (CoreUpdate), the rate limiter (Limiter), the news feeds     *)
(* (News) and the quick links (QuickLinks). The process may die at any point *)
(* and is started again by its supervisor; so a behaviour exercises one of   *)
(* them, and crashes at every point of it, rather than their product.        *)
(***************************************************************************)
EXTENDS Mail, Limiter, Jobs, CoreUpdate, News, QuickLinks

CONSTANT MaxCrashes   \* bound: crashes of the process

ASSUME ServicesAssumption == MaxCrashes \in Nat

VARIABLES up, crashes, part

vars == <<mailVars, limiterVars, jobVars, updateVars, newsVars, linkVars, up, crashes, part>>

-----------------------------------------------------------------------------
Init ==
  /\ MailInit /\ LimiterInit /\ JobsInit /\ UpdateInit /\ NewsInit /\ LinksInit
  /\ up = TRUE /\ crashes = 0
  /\ part \in {"mail", "limiter", "jobs", "update", "news", "links"}
  /\ part # "mail" => smtp = Empty

Step ==
  \/ part = "mail" /\ MailNext
     /\ UNCHANGED <<limiterVars, jobVars, updateVars, newsVars, linkVars>>
  \/ part = "limiter" /\ LimiterNext
     /\ UNCHANGED <<mailVars, jobVars, updateVars, newsVars, linkVars>>
  \/ part = "jobs" /\ JobsNext
     /\ UNCHANGED <<mailVars, limiterVars, updateVars, newsVars, linkVars>>
  \/ part = "update" /\ UpdateNext
     /\ UNCHANGED <<mailVars, limiterVars, jobVars, newsVars, linkVars>>
  \/ part = "news" /\ NewsNext
     /\ UNCHANGED <<mailVars, limiterVars, jobVars, updateVars, linkVars>>
  \/ part = "links" /\ LinksNext
     /\ UNCHANGED <<mailVars, limiterVars, jobVars, updateVars, newsVars>>

(* Goroutines and what they hold are gone; Valkey and the database are not.  *)
Crash ==
  /\ up /\ crashes < MaxCrashes
  /\ up' = FALSE /\ crashes' = crashes + 1
  /\ MailCrash
  /\ hit' = [h \in Hits |-> NoHit]
  /\ lost' = (lost \/ \E h \in Hits : hit[h].window = window /\ hit[h].n = max + 1)
  /\ due' = {} /\ running' = {} /\ inv' = [i \in Invocations |-> Free]
  /\ chk' = [c \in Checkers |-> NoCheck]
  /\ faults' = [v \in 1 .. MaxVersion |->
                  IF \E c \in Checkers : chk[c].pc = "record" /\ chk[c].v = v THEN faults[v] + 1 ELSE faults[v]]
  /\ rd' = [r \in Readers |-> NoRead] /\ ed' = [e \in Editors |-> NoEdit]
  /\ late' = late \cup {ed[e].id : e \in {e \in Editors : ed[e].pc = "del"}}
  /\ patches' = {} /\ adding' = {} /\ deleting' = {} /\ loading' = NoLoad
  /\ muddled' = TRUE
  /\ UNCHANGED <<adminLinks, userLinks, order, nextTile, grid, moves>>
  /\ UNCHANGED <<feeds, subs, cache, nextId, reads, changes>>
  /\ UNCHANGED <<count, max, window, passed, uncounted, toasts, moved, misread, hits, ticks,
                 latest, known, notified, announced, mixed, checks, part>>

Restart ==
  /\ ~up /\ up' = TRUE
  /\ UNCHANGED <<mailVars, limiterVars, jobVars, updateVars, newsVars, linkVars, crashes, part>>

Next ==
  \/ up /\ Step /\ UNCHANGED <<up, crashes, part>>
  \/ Crash
  \/ Restart

(* The Go scheduler runs every goroutine that can run, a dispatch ends by    *)
(* its deadline (DeadlinedReturns of ConnPool), a fetch by its own, and the  *)
(* supervisor starts the process again.                                      *)
DispatchGoesOn(i) ==
  /\ up /\ part = "jobs" /\ dispatchJob(i)
  /\ UNCHANGED <<mailVars, limiterVars, updateVars, newsVars, linkVars, up, crashes, part>>

ReadingGoesOn(r) ==
  /\ up /\ part = "news" /\ ReadGoesOn(r)
  /\ UNCHANGED <<mailVars, limiterVars, jobVars, updateVars, linkVars, up, crashes, part>>

Fairness ==
  /\ WF_vars(Restart)
  /\ \A i \in Invocations : WF_vars(DispatchGoesOn(i))
  /\ \A r \in Readers : WF_vars(ReadingGoesOn(r))

Spec == Init /\ [][Next]_vars /\ Fairness
=============================================================================
