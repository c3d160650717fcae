--------------------------- MODULE DistributedLock ----------------------------
(***************************************************************************)
(* app/core/distributed_lock.py: DistributedLock objects of several        *)
(* clients over one Redis key.  A method sends one command and acts on the *)
(* answer; between the two time passes, the key may expire, or the         *)
(* connection may break.  Then the method raises before it assigns         *)
(* anything, and Redis may execute the command earlier, later or never.    *)
(* Nothing in the repository uses the class, so clients call acquire and   *)
(* release in any order; `with` (__enter__, __exit__) is one such order.   *)
(***************************************************************************)
EXTENDS Naturals

CONSTANTS
  Clients,     \* DistributedLock objects with one name; each has its own uuid4
  Ttl,         \* ttl_seconds, in ticks
  NoOwner      \* the key does not exist

\* The constructor's ValueError; a uuid is never the value of no key.
ASSUME LockAssumption ==
  /\ Ttl \in Nat \ {0}
  /\ NoOwner \notin Clients

VARIABLES
  key,        \* the Redis key: its value and the time it has left
  pc,         \* of each client: its method, and Redis' answer to that
  acquired,   \* the attribute
  late,       \* commands of broken connections that Redis may still execute
  sent,       \* time since the acquire under way was sent, up to Ttl (history)
  since,      \* time since the latest granted acquire was sent, up to Ttl, which is
              \* also its value once release was called (history)
  undone      \* a late release removed the key since that acquire (history)

methods == <<pc, acquired, late>>
history == <<sent, since, undone>>
vars == <<key, methods, history>>

Free == [owner |-> NoOwner, ttl |-> 0]

\* acquire, release: sent and not executed.  granted, denied, deleted, kept: executed,
\* with the answer under way.
Pc == {"idle", "acquire", "granted", "denied", "release", "deleted", "kept"}

Init ==
  /\ key = Free
  /\ pc = [c \in Clients |-> "idle"]
  /\ acquired = [c \in Clients |-> FALSE]
  /\ late = [c \in Clients |-> {}]
  /\ sent = [c \in Clients |-> 0]
  /\ since = [c \in Clients |-> Ttl]
  /\ undone = [c \in Clients |-> FALSE]

-----------------------------------------------------------------------------
(* Methods.                                                                 *)

CallAcquire(c) ==
  /\ pc[c] = "idle"
  /\ pc' = [pc EXCEPT ![c] = "acquire"]
  /\ UNCHANGED <<key, acquired, late, history>>

CallRelease(c) ==
  /\ pc[c] = "idle"
  /\ pc' = [pc EXCEPT ![c] = "release"]
  /\ since' = [since EXCEPT ![c] = Ttl]
  /\ UNCHANGED <<key, acquired, late, sent, undone>>

\* The answer arrives.  acquire assigns it whatever it is, ...
Granted(c) ==
  /\ pc[c] = "granted"
  /\ pc' = [pc EXCEPT ![c] = "idle"]
  /\ acquired' = [acquired EXCEPT ![c] = TRUE]
  /\ since' = [since EXCEPT ![c] = sent[c]]
  /\ sent' = [sent EXCEPT ![c] = 0]
  /\ UNCHANGED <<key, late, undone>>

Denied(c) ==
  /\ pc[c] = "denied"
  /\ pc' = [pc EXCEPT ![c] = "idle"]
  /\ acquired' = [acquired EXCEPT ![c] = FALSE]
  /\ sent' = [sent EXCEPT ![c] = 0]
  /\ UNCHANGED <<key, late, since, undone>>

\* ... release only when the key was deleted.
ReleaseReturns(c) ==
  /\ pc[c] \in {"deleted", "kept"}
  /\ pc' = [pc EXCEPT ![c] = "idle"]
  /\ acquired' = [acquired EXCEPT ![c] = @ /\ pc[c] = "kept"]
  /\ UNCHANGED <<key, late, history>>

\* The connection breaks and the method raises.  A command that was not executed is
\* lost, or is executed later.
CallBreaks(c) ==
  /\ pc[c] # "idle"
  /\ pc' = [pc EXCEPT ![c] = "idle"]
  /\ \/ UNCHANGED late
     \/ /\ pc[c] \in {"acquire", "release"}
        /\ late' = [late EXCEPT ![c] = @ \cup {pc[c]}]
  /\ sent' = [sent EXCEPT ![c] = 0]
  /\ UNCHANGED <<key, acquired, since, undone>>

-----------------------------------------------------------------------------
(* Redis.                                                                   *)

\* Slip: the key lives one tick less.
SetNxEx_ShortLived(c) ==
  key' = IF key.owner = NoOwner THEN [owner |-> c, ttl |-> Ttl - 1] ELSE key

\* Slip: SET without NX.
SetNxEx_Overwrites(c) == key' = [owner |-> c, ttl |-> Ttl]

\* Slip: acquiring again renews the key.
SetNxEx_Renews(c) ==
  key' = IF key.owner \in {NoOwner, c} THEN [owner |-> c, ttl |-> Ttl] ELSE key

\* SET key owner NX EX ttl.
SetNxEx(c) == key' = IF key.owner = NoOwner THEN [owner |-> c, ttl |-> Ttl] ELSE key

\* Slip: DEL without the comparison.
CompareAndDelete_AnyOwner(c) == key' = Free

\* _RELEASE_SCRIPT: compare and delete, atomically.
CompareAndDelete(c) == key' = IF key.owner = c THEN Free ELSE key

ExecuteAcquire(c) ==
  /\ pc[c] = "acquire"
  /\ SetNxEx(c)
  /\ pc' = [pc EXCEPT ![c] = IF key.owner = NoOwner THEN "granted" ELSE "denied"]
  /\ undone' = [undone EXCEPT ![c] = @ /\ key.owner # NoOwner]
  /\ UNCHANGED <<acquired, late, sent, since>>

ExecuteRelease(c) ==
  /\ pc[c] = "release"
  /\ CompareAndDelete(c)
  /\ pc' = [pc EXCEPT ![c] = IF key.owner = c THEN "deleted" ELSE "kept"]
  /\ UNCHANGED <<acquired, late, history>>

\* A command whose caller has given it up.
ExecuteLateAcquire(c) ==
  /\ "acquire" \in late[c]
  /\ SetNxEx(c)
  /\ late' = [late EXCEPT ![c] = @ \ {"acquire"}]
  /\ UNCHANGED <<pc, acquired, history>>

ExecuteLateRelease(c) ==
  /\ "release" \in late[c]
  /\ CompareAndDelete(c)
  /\ late' = [late EXCEPT ![c] = @ \ {"release"}]
  /\ undone' = [undone EXCEPT ![c] = @ \/ key.owner = c]
  /\ UNCHANGED <<pc, acquired, sent, since>>

\* Time passes for all; a key whose time is over is gone.  Ages count up to Ttl.
Older(n) == IF n < Ttl THEN n + 1 ELSE n

Tick ==
  /\ key' = IF key.ttl > 1 THEN [owner |-> key.owner, ttl |-> key.ttl - 1] ELSE Free
  /\ sent' = [c \in Clients |->
                IF pc[c] \in {"acquire", "granted", "denied"} THEN Older(sent[c]) ELSE sent[c]]
  /\ since' = [c \in Clients |-> Older(since[c])]
  /\ UNCHANGED <<methods, undone>>

Next ==
  \/ Tick
  \/ \E c \in Clients :
       \/ CallAcquire(c) \/ CallRelease(c)
       \/ Granted(c) \/ Denied(c) \/ ReleaseReturns(c) \/ CallBreaks(c)
       \/ ExecuteAcquire(c) \/ ExecuteRelease(c)
       \/ ExecuteLateAcquire(c) \/ ExecuteLateRelease(c)

Spec == Init /\ [][Next]_vars

\* Redis' clock goes on.  Nothing is asked of clients, who may stop anywhere.
FairSpec == Spec /\ WF_vars(Tick)

-----------------------------------------------------------------------------

KeyTypeOK ==
  /\ key \in [owner : Clients \cup {NoOwner}, ttl : 0..Ttl]
  /\ key.owner = NoOwner <=> key.ttl = 0

TypeOK ==
  /\ KeyTypeOK
  /\ pc \in [Clients -> Pc]
  /\ acquired \in [Clients -> BOOLEAN]
  /\ late \in [Clients -> SUBSET {"acquire", "release"}]
  /\ sent \in [Clients -> 0..Ttl]
  /\ since \in [Clients -> 0..Ttl]
  /\ undone \in [Clients -> BOOLEAN]

\* A client relies on the lock from the granted acquire until it calls release, as
\* long as less than ttl_seconds have passed since it sent that acquire.
Relies(c) == acquired[c] /\ since[c] < Ttl

\* Two clients never rely on the lock at once, however late answers come.  The one
\* exception is a client's own doing: ownership is an object's, not an acquisition's,
\* so that an earlier release executed late takes the later acquisition away.
Exclusive ==
  \A c, d \in Clients :
    Relies(c) /\ Relies(d) /\ ~undone[c] /\ ~undone[d] => c = d

\* Why Exclusive holds: the key lives at least as long as its owner relies on it.
Outlives(c, age) ==
  age < Ttl => (key.owner = c /\ key.ttl + age >= Ttl) \/ undone[c]

KeyOutlivesReliance ==
  \A c \in Clients :
    /\ pc[c] = "granted" => Outlives(c, sent[c])
    /\ acquired[c] => Outlives(c, since[c])
    /\ pc[c] = "release" => since[c] = Ttl

IndInv == TypeOK /\ KeyOutlivesReliance

\* "Ownership-safe release" (README.md:24): an owner loses the key to its own release
\* or to the clock, never to another client's release, however late that arrives.
OwnershipSafe ==
  [][\A c \in Clients :
       key.owner = c /\ key'.owner # c =>
         \/ key.ttl = 1
         \/ pc[c] = "release"
         \/ "release" \in late[c]]_vars

\* Whatever its owner does or fails to do, the lock becomes free again.
LockIsFreed == (key.owner # NoOwner) ~> (key.owner = NoOwner)
=============================================================================
