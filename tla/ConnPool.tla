------------------------------ MODULE ConnPool ------------------------------
(***************************************************************************)
(* The connection pool of one Deno worker (modules/deno.go): dispatch, with  *)
(* its one retry, checks a Unix-socket connection out of a bounded pool with *)
(* getConn, does one round trip on it and gives it back with releaseConn,    *)
(* while stop may drain the pool and kill the process at any moment.         *)
(*                                                                           *)
(* Every critical section of w.mu and every channel operation is one action, *)
(* so the interleavings of several dispatch calls are those of the code. The *)
(* channel connPool is a set of idle connections: which of them a receive    *)
(* yields makes no difference to any property. As in the Go runtime, a send  *)
(* with a receiver blocked on the channel hands the value to that receiver.  *)
(***************************************************************************)
EXTENDS Integers, FiniteSets

CONSTANTS
  Clients,    \* goroutines that call dispatch (HTTP requests, jobs)
  Deadlined,  \* the ones whose ctx has a deadline (dispatchJob, QueryEgressHosts)
  Conns,      \* identities of open sockets
  NoConn,     \* no socket
  PoolSize    \* w.poolSize

ASSUME DeadlinedAssumption == Deadlined \subseteq Clients
ASSUME ClientsAssumption == IsFiniteSet(Clients)
ASSUME NoConnAssumption == NoConn \notin Conns
ASSUME PoolSizeAssumption == PoolSize \in Nat \ {0}

VARIABLES
  idle,      \* w.connPool: the connections in the channel's buffer
  numConns,  \* w.numConns
  stopping,  \* progress of stop(); w.stopping is stopping # "no"
  alive,     \* the Deno process runs and its socket accepts
  drained,   \* connections stop() took out of the pool
  pc,        \* where each dispatch call is
  attempt,   \* 1, or 2 once dispatch retries
  conn,      \* the connection each call has checked out
  wire       \* per connection: the calls whose request is written and whose
             \* response is not yet read

vars == <<idle, numConns, stopping, alive, drained, pc, attempt, conn, wire>>

PCs == {"ready", "get", "lock", "dial", "undial", "select", "wait",
        "write", "read", "free", "put"}

(* The places at which a call owns a slot counted in numConns.               *)
SlotPCs == {"dial", "undial", "write", "read", "free", "put"}
(* The places at which it owns an open connection.                           *)
ConnPCs == {"write", "read", "put"}

Open == idle \cup {conn[c] : c \in {d \in Clients : conn[d] # NoConn}}
Waiting == {c \in Clients : pc[c] = "wait"}

Goto(c, label) == pc' = [pc EXCEPT ![c] = label]

Init ==
  /\ idle = {}
  /\ numConns = 0
  /\ stopping = "no"
  /\ alive = TRUE
  /\ drained = 0
  /\ pc = [c \in Clients |-> "ready"]
  /\ attempt = [c \in Clients |-> 1]
  /\ conn = [c \in Clients |-> NoConn]
  /\ wire = [k \in Conns |-> {}]

-----------------------------------------------------------------------------
(* dispatch *)

(* A caller that found w in the pool's map calls dispatch. It may still hold *)
(* w after stop() ran: Dispatch reads the map before it calls.               *)
Dispatch(c) ==
  /\ pc[c] = "ready"
  /\ Goto(c, "get")
  /\ attempt' = [attempt EXCEPT ![c] = 1]
  /\ UNCHANGED <<idle, numConns, stopping, alive, drained, conn, wire>>

-----------------------------------------------------------------------------
(* getConn *)

(* A receive from connPool that yields a pooled connection.                  *)
Checkout(c) ==
  \E k \in idle :
    /\ idle' = idle \ {k}
    /\ conn' = [conn EXCEPT ![c] = k]
    /\ Goto(c, "write")

(* The first select: non-blocking receive.                                   *)
GetIdle(c) ==
  /\ pc[c] = "get"
  /\ Checkout(c)
  /\ UNCHANGED <<numConns, stopping, alive, drained, attempt, wire>>

GetNone(c) ==
  /\ pc[c] = "get"
  /\ idle = {}
  /\ Goto(c, "lock")
  /\ UNCHANGED <<idle, numConns, stopping, alive, drained, attempt, conn, wire>>

BelowSize == numConns < PoolSize

(* The critical section that reserves a slot, or finds the pool at its size. *)
Reserve(c) ==
  /\ pc[c] = "lock"
  /\ IF BelowSize
     THEN numConns' = numConns + 1 /\ Goto(c, "dial")
     ELSE UNCHANGED numConns /\ Goto(c, "select")
  /\ UNCHANGED <<idle, stopping, alive, drained, attempt, conn, wire>>

DialOK(c) ==
  /\ pc[c] = "dial"
  /\ alive
  /\ \E k \in Conns \ Open : conn' = [conn EXCEPT ![c] = k]
  /\ Goto(c, "write")
  /\ UNCHANGED <<idle, numConns, stopping, alive, drained, attempt, wire>>

DialError(c) ==
  /\ pc[c] = "dial"
  /\ Goto(c, "undial")
  /\ UNCHANGED <<idle, numConns, stopping, alive, drained, attempt, conn, wire>>

(* The slot stays reserved when the dial fails.                              *)
UndialMutant(c) ==
  /\ pc[c] = "undial"
  /\ Goto(c, "ready")
  /\ UNCHANGED <<idle, numConns, stopping, alive, drained, attempt, conn, wire>>

Undial(c) ==
  /\ pc[c] = "undial"
  /\ numConns' = numConns - 1
  /\ Goto(c, "ready")
  /\ UNCHANGED <<idle, stopping, alive, drained, attempt, conn, wire>>

(* The second select: receive a connection, or block on the channel.         *)
SelectIdle(c) ==
  /\ pc[c] = "select"
  /\ Checkout(c)
  /\ UNCHANGED <<numConns, stopping, alive, drained, attempt, wire>>

SelectBlocks(c) ==
  /\ pc[c] = "select"
  /\ idle = {}
  /\ Goto(c, "wait")
  /\ UNCHANGED <<idle, numConns, stopping, alive, drained, attempt, conn, wire>>

(* The blocking select has no ctx.Done() case.                               *)
CtxDoneMutant(c) ==
  /\ pc[c] = "select"
  /\ Goto(c, "ready")
  /\ UNCHANGED <<idle, numConns, stopping, alive, drained, attempt, conn, wire>>

(* ctx ends: the deadline passes, or the HTTP client goes away.              *)
CtxDone(c) ==
  /\ pc[c] \in {"select", "wait"}
  /\ Goto(c, "ready")
  /\ UNCHANGED <<idle, numConns, stopping, alive, drained, attempt, conn, wire>>

-----------------------------------------------------------------------------
(* roundTrip *)

RoundTripWrite(c) ==
  /\ pc[c] = "write"
  /\ alive
  /\ wire' = [wire EXCEPT ![conn[c]] = @ \cup {c}]
  /\ Goto(c, "read")
  /\ UNCHANGED <<idle, numConns, stopping, alive, drained, attempt, conn>>

(* A response to a request outstanding on this connection.                   *)
RoundTripRead(c) ==
  /\ pc[c] = "read"
  /\ \E d \in wire[conn[c]] : wire' = [wire EXCEPT ![conn[c]] = @ \ {d}]
  /\ Goto(c, "put")
  /\ UNCHANGED <<idle, numConns, stopping, alive, drained, attempt, conn>>

(* The connection of a failed round trip is given back as a healthy one.     *)
RoundTripErrorMutant1(c) ==
  /\ pc[c] \in {"write", "read"}
  /\ Goto(c, "put")
  /\ UNCHANGED <<idle, numConns, stopping, alive, drained, attempt, conn, wire>>

(* A write or read error, the 30s or ctx deadline, or an unparsable line:    *)
(* dispatch closes the connection, before it calls releaseConn(nil).         *)
RoundTripError(c) ==
  /\ pc[c] \in {"write", "read"}
  /\ conn' = [conn EXCEPT ![c] = NoConn]
  /\ wire' = [wire EXCEPT ![conn[c]] = {}]
  /\ Goto(c, "free")
  /\ UNCHANGED <<idle, numConns, stopping, alive, drained, attempt>>

-----------------------------------------------------------------------------
(* releaseConn *)

(* releaseConn(nil): frees the slot; dispatch then retries once.             *)
FreeSlot(c) ==
  /\ pc[c] = "free"
  /\ numConns' = numConns - 1
  /\ IF attempt[c] = 1
     THEN attempt' = [attempt EXCEPT ![c] = 2] /\ Goto(c, "get")
     ELSE UNCHANGED attempt /\ Goto(c, "ready")
  /\ UNCHANGED <<idle, stopping, alive, drained, conn, wire>>

(* The send hands the connection to a getConn blocked on the channel ...     *)
PutHandoff(c) ==
  /\ pc[c] = "put"
  /\ \E d \in Waiting :
       /\ conn' = [conn EXCEPT ![d] = conn[c], ![c] = NoConn]
       /\ pc' = [pc EXCEPT ![d] = "write", ![c] = "ready"]
  /\ UNCHANGED <<idle, numConns, stopping, alive, drained, attempt, wire>>

(* ... or stores it in the buffer; were that full, it would close it and     *)
(* free the slot.                                                            *)
Put(c) ==
  /\ pc[c] = "put"
  /\ Waiting = {}
  /\ IF Cardinality(idle) < PoolSize
     THEN idle' = idle \cup {conn[c]} /\ UNCHANGED numConns
     ELSE numConns' = numConns - 1 /\ UNCHANGED idle
  /\ conn' = [conn EXCEPT ![c] = NoConn]
  /\ Goto(c, "ready")
  /\ UNCHANGED <<stopping, alive, drained, attempt, wire>>

-----------------------------------------------------------------------------
(* stop, and the process *)

(* stop() runs once: whoever calls it has just taken w out of the map.       *)
StopBegin ==
  /\ stopping = "no"
  /\ stopping' = "draining"
  /\ UNCHANGED <<idle, numConns, alive, drained, pc, attempt, conn, wire>>

(* One turn of the drain loop. numConns keeps counting what it closes.       *)
StopDrain ==
  /\ stopping = "draining"
  /\ \E k \in idle : idle' = idle \ {k}
  /\ drained' = drained + 1
  /\ UNCHANGED <<numConns, stopping, alive, pc, attempt, conn, wire>>

(* The loop found the channel empty; cancel() kills the process and the      *)
(* socket file is removed.                                                   *)
StopKill ==
  /\ stopping = "draining"
  /\ idle = {}
  /\ stopping' = "done"
  /\ alive' = FALSE
  /\ UNCHANGED <<idle, numConns, drained, pc, attempt, conn, wire>>

(* The process exits on its own.                                             *)
ProcessExit ==
  /\ alive
  /\ alive' = FALSE
  /\ UNCHANGED <<idle, numConns, stopping, drained, pc, attempt, conn, wire>>

-----------------------------------------------------------------------------
GetConn(c) ==
  \/ GetIdle(c) \/ GetNone(c) \/ Reserve(c) \/ DialOK(c) \/ DialError(c)
  \/ Undial(c) \/ SelectIdle(c) \/ SelectBlocks(c)

RoundTrip(c) ==
  \/ RoundTripWrite(c) \/ RoundTripRead(c) \/ RoundTripError(c)

ReleaseConn(c) == FreeSlot(c) \/ PutHandoff(c) \/ Put(c)

Stop == StopBegin \/ StopDrain \/ StopKill

Next ==
  \/ \E c \in Clients :
       Dispatch(c) \/ GetConn(c) \/ CtxDone(c) \/ RoundTrip(c) \/ ReleaseConn(c)
  \/ Stop
  \/ ProcessExit

(* A goroutine that can run does run, a round trip ends (roundTrip always    *)
(* sets a deadline) and a ctx that has a deadline ends. Nothing obliges a    *)
(* caller to dispatch again, an HTTP client to go away, stop to be called or *)
(* the process to die.                                                       *)
Fairness ==
  /\ \A c \in Clients : WF_vars(GetConn(c) \/ RoundTrip(c) \/ ReleaseConn(c))
  /\ \A c \in Deadlined : WF_vars(CtxDone(c))
  /\ WF_vars(StopDrain \/ StopKill)

Spec == Init /\ [][Next]_vars
FairSpec == Spec /\ Fairness

-----------------------------------------------------------------------------
(* Properties *)

Holders == {c \in Clients : pc[c] \in SlotPCs}

TypeOK ==
  /\ idle \subseteq Conns
  /\ numConns \in Nat
  /\ stopping \in {"no", "draining", "done"}
  /\ alive \in BOOLEAN
  /\ drained \in Nat
  /\ pc \in [Clients -> PCs]
  /\ attempt \in [Clients -> {1, 2}]
  /\ conn \in [Clients -> Conns \cup {NoConn}]
  /\ wire \in [Conns -> SUBSET Clients]

(* numConns is exact: it counts the pooled connections, the slots held by    *)
(* calls between getConn and releaseConn, whichever error path they are on,  *)
(* and what stop() drained; and it never passes poolSize (getConn).          *)
SlotsAccounted ==
  /\ numConns = Cardinality(idle) + Cardinality(Holders) + drained
  /\ numConns <= PoolSize

(* The default branch of releaseConn's send "shouldn't happen given numConns *)
(* accounting": a healthy connection always finds room in the channel.       *)
RoomToRelease ==
  \A c \in Clients : pc[c] = "put" /\ Waiting = {} => Cardinality(idle) < PoolSize

(* No connection is used by two calls at once, or used while it is pooled:   *)
(* each has its own, from getConn until releaseConn or Close.                *)
ConnsExclusive ==
  \A c \in Clients : conn[c] # NoConn =>
    /\ conn[c] \notin idle
    /\ \A d \in Clients \ {c} : conn[d] # conn[c]

(* The response a dispatch call returns answers its own request, although    *)
(* connections are reused and a response may arrive after its caller gave    *)
(* up: no checked-out connection has another call's response still to come.  *)
OwnResponse ==
  \A c \in Clients :
    /\ pc[c] = "write" => wire[conn[c]] = {}
    /\ pc[c] = "read" => wire[conn[c]] = {c}

(* A dispatch call whose ctx has a deadline returns, whatever the process    *)
(* and stop() do in the meantime.                                            *)
DeadlinedReturns ==
  \A c \in Deadlined : pc[c] # "ready" ~> pc[c] = "ready"

(* getConn's comment: it blocks "until one is released (or ctx ends)" once   *)
(* the pool has reached w.poolSize. A call blocked while the pool is below   *)
(* its size is eventually let through.                                       *)
BlockedCallResumes ==
  \A c \in Clients : pc[c] = "wait" /\ numConns < PoolSize ~> pc[c] # "wait"

=============================================================================
