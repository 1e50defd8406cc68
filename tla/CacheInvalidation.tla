-------------------------- MODULE CacheInvalidation --------------------------
(***************************************************************************)
(* How the processes of a deployment invalidate a namespace of the shared  *)
(* Redis cache (config/cache.ts).  Cached values lie under keys that       *)
(* contain the namespace's version; a write increments the version.  A     *)
(* process whose increment missed Redis remembers it, reads no cached      *)
(* value until it has replayed it, and tells the other processes over the  *)
(* cluster bus, which increment the version for it.                        *)
(*                                                                         *)
(* A write is of one of two kinds.  Through afterCommit, or without a      *)
(* transaction around it, the increment follows the commit.  The other     *)
(* functions of cache-invalidation.ts increment as soon as they are called,*)
(* and where runAuditedTransaction calls them that is before the commit,   *)
(* which may still fail.                                                   *)
(*                                                                         *)
(* A Redis command that misses its deadline may still be executed later    *)
(* (withRedisDeadline), and a message of the bus may not arrive.  The      *)
(* limit of 10 000 remembered entries and the lifetime of cached values    *)
(* are left out.                                                           *)
(***************************************************************************)
EXTENDS Integers, FiniteSets

CONSTANTS
  Process,     \* processes that share Redis and the database
  Connected,   \* processes that reach Redis again after an outage
  MaxWrites,   \* bound: writes to the cached data
  MaxFaults,   \* bound: failed commands, lost messages, restarts, outages
               \* and rollbacks
  None

ASSUME ProcessAssumption ==
  /\ Connected \subseteq Process
  /\ MaxWrites \in Nat
  /\ MaxFaults \in Nat
  /\ None \notin Nat

VARIABLES
  db,         \* number of committed writes
  landed,     \* db when the version was last incremented; values cached
              \* from then on contain these writes
  cached,     \* Redis: the writes that the value under the current version
              \* contains, or None
  incrs,      \* INCR commands given up by their process, not yet executed
  open,       \* processes whose breaker is open or connection is down
  audited,    \* processes in a transaction that has invalidated already
  bumping,    \* processes that committed a write and have to invalidate it
  pending,    \* pending[p]: entry of pendingInvalidations ("taken": the
              \* entry object that the replay in flight captured)
  replay,     \* replay[p]: state of replayInFlight
  queue,      \* processes with a relay in relayQueue
  inbox,      \* processes with an unhandled 'cache.bump' message
  faults,     \* faults so far
  last,       \* history: last[p]: number of the last write of p that is
              \* invalidated after its commit
  restarted,  \* history: processes that restarted
  unheard     \* history: a message of the bus was lost

vars == <<db, landed, cached, incrs, open, audited, bumping, pending, replay,
          queue, inbox, faults, last, restarted, unheard>>

TypeOK ==
  /\ db \in Nat
  /\ landed \in 0..db
  /\ cached \in (landed..db) \cup {None}
  /\ incrs \in Nat
  /\ open \subseteq Process
  /\ audited \subseteq Process
  /\ bumping \subseteq Process
  /\ pending \in [Process -> {"none", "fresh", "taken"}]
  /\ replay \in [Process -> {"idle", "sent", "executed"}]
  /\ queue \subseteq Process
  /\ inbox \subseteq Process
  /\ faults \in Nat
  /\ last \in [Process -> 0..db]
  /\ restarted \subseteq Process
  /\ unheard \in BOOLEAN

Init ==
  /\ db = 0 /\ landed = 0 /\ cached = None /\ incrs = 0
  /\ open = {} /\ audited = {} /\ bumping = {}
  /\ pending = [p \in Process |-> "none"]
  /\ replay = [p \in Process |-> "idle"]
  /\ queue = {} /\ inbox = {}
  /\ faults = 0
  /\ last = [p \in Process |-> 0]
  /\ restarted = {}
  /\ unheard = FALSE

Fault == faults < MaxFaults /\ faults' = faults + 1

(* withRedisDeadline: a timeout or a broken connection opens the breaker,  *)
(* an error reply does not.                                                *)
CommandFails(p) == Fault /\ open' \in {open, open \cup {p}}

-----------------------------------------------------------------------------
(* Redis as the processes see it *)

(* INCR of the version: what was cached lies under an old key. *)
Incr == landed' = db /\ cached' = None

(* A command its process gave up is executed after all. *)
LateIncr ==
  /\ incrs > 0
  /\ incrs' = incrs - 1
  /\ Incr
  /\ UNCHANGED <<db, open, audited, bumping, pending, replay, queue, inbox, faults, last,
                 restarted, unheard>>

(* The connection of p breaks ('error' and 'reconnecting' events), or a    *)
(* command outside the cache fails.                                        *)
Trip(p) ==
  /\ p \notin open
  /\ Fault
  /\ open' = open \cup {p}
  /\ UNCHANGED <<db, landed, cached, incrs, audited, bumping, pending, replay, queue, inbox, last,
                 restarted, unheard>>

(* The client is ready and the breaker's time has passed. *)
Reconnect(p) ==
  /\ p \in open
  /\ open' = open \ {p}
  /\ UNCHANGED <<db, landed, cached, incrs, audited, bumping, pending, replay, queue, inbox, faults, last,
                 restarted, unheard>>

-----------------------------------------------------------------------------
(* Writes and their invalidation *)

(* Writes that committed or are under way are bounded. *)
MayWrite == db + Cardinality(audited) < MaxWrites

(* A write commits; its invalidation is work for after the commit. *)
Commit(p) ==
  /\ MayWrite
  /\ p \notin bumping
  /\ db' = db + 1
  /\ last' = [last EXCEPT ![p] = db + 1]
  /\ bumping' = bumping \cup {p}
  /\ UNCHANGED <<landed, cached, incrs, open, audited, pending, replay, queue, inbox, faults,
                 restarted, unheard>>

(* Mutant: a missed invalidation is not relayed. *)
RememberOnly(p, relay) ==
  /\ pending' = [pending EXCEPT ![p] = "fresh"]
  /\ UNCHANGED queue

(* rememberPendingInvalidation and relayInvalidation: a new entry object   *)
(* replaces the one a replay may have captured.                            *)
Remember(p, relay) ==
  /\ pending' = [pending EXCEPT ![p] = "fresh"]
  /\ queue' = IF relay THEN queue \cup {p} ELSE queue

(* bumpVersion *)
BumpVersion(p, relay) ==
  \/ /\ p \in open
     /\ Remember(p, relay)
     /\ UNCHANGED <<landed, cached, incrs, open, faults>>
  \/ /\ p \notin open
     /\ Incr
     /\ UNCHANGED <<incrs, open, faults, pending, queue>>
  \/ /\ p \notin open
     /\ CommandFails(p)
     /\ incrs' = incrs + 1
     /\ Remember(p, relay)
     /\ UNCHANGED <<landed, cached>>

Invalidate(p) ==
  /\ p \in bumping
  /\ bumping' = bumping \ {p}
  /\ BumpVersion(p, TRUE)
  /\ UNCHANGED <<db, audited, replay, inbox, last, restarted, unheard>>

(* invalidateCourseReadCaches and others inside runAuditedTransaction: the *)
(* write of the open transaction is not visible yet.                       *)
InvalidateEarly(p) ==
  /\ MayWrite
  /\ p \notin audited
  /\ audited' = audited \cup {p}
  /\ BumpVersion(p, TRUE)
  /\ UNCHANGED <<db, bumping, replay, inbox, last, restarted, unheard>>

(* The audit record is written and the transaction commits. *)
CommitAudited(p) ==
  /\ p \in audited
  /\ db' = db + 1
  /\ audited' = audited \ {p}
  /\ UNCHANGED <<landed, cached, incrs, open, bumping, pending, replay, queue, inbox, faults,
                 last, restarted, unheard>>

(* The audit record or the commit fails. *)
Rollback(p) ==
  /\ p \in audited
  /\ Fault
  /\ audited' = audited \ {p}
  /\ UNCHANGED <<db, landed, cached, incrs, open, bumping, pending, replay, queue, inbox, last,
                 restarted, unheard>>

(* flushInvalidationRelay and publish: the message reaches every process,  *)
(* or NOTIFY fails or a listener is down.                                  *)
FlushRelay(p) ==
  /\ p \in queue
  /\ queue' = queue \ {p}
  /\ \/ inbox' = inbox \cup (Process \ {p}) /\ UNCHANGED <<faults, unheard>>
     \/ /\ \E reached \in SUBSET (Process \ {p}) : inbox' = inbox \cup reached
        /\ unheard' = TRUE
        /\ Fault
  /\ UNCHANGED <<db, landed, cached, incrs, open, audited, bumping, pending, replay, last, restarted>>

(* Mutant: a relayed bump that misses Redis is relayed again. *)
RelayedAgain == TRUE

Relayed == FALSE

(* The handler of 'cache.bump'. *)
ReceiveRelay(p) ==
  /\ p \in inbox
  /\ inbox' = inbox \ {p}
  /\ BumpVersion(p, Relayed)
  /\ UNCHANGED <<db, audited, bumping, replay, last, restarted, unheard>>

-----------------------------------------------------------------------------
(* Cached reads *)

(* cacheJson: a miss, or a read without the cache while an invalidation is *)
(* pending, loads what is committed and stores it under the version read   *)
(* before.  The load may have begun at any time since that version, and a  *)
(* store under an older one reaches nobody.                                *)
Fill(p) ==
  /\ p \notin open
  /\ cached = None \/ pending[p] # "none"
  /\ cached' \in landed..db
  /\ UNCHANGED <<db, landed, incrs, open, audited, bumping, pending, replay, queue, inbox, faults,
                 last, restarted, unheard>>

(* cachedReadsAllowed: a cached read of p finds an invalidation pending,   *)
(* goes to the database and starts the replay.                             *)
StartReplay(p) ==
  /\ p \notin open
  /\ pending[p] # "none"
  /\ replay[p] = "idle"
  /\ replay' = [replay EXCEPT ![p] = "sent"]
  /\ pending' = [pending EXCEPT ![p] = "taken"]
  /\ UNCHANGED <<db, landed, cached, incrs, open, audited, bumping, queue, inbox, faults, last,
                 restarted, unheard>>

ReplayIncr(p) ==
  /\ replay[p] = "sent"
  /\ Incr
  /\ replay' = [replay EXCEPT ![p] = "executed"]
  /\ UNCHANGED <<db, incrs, open, audited, bumping, pending, queue, inbox, faults, last,
                 restarted, unheard>>

(* Mutant: the key is deleted whatever entry it has now. *)
AnyEntry(p) == TRUE

SameEntry(p) == pending[p] = "taken"

ReplayReply(p) ==
  /\ replay[p] = "executed"
  /\ replay' = [replay EXCEPT ![p] = "idle"]
  /\ pending' = IF SameEntry(p) THEN [pending EXCEPT ![p] = "none"] ELSE pending
  /\ UNCHANGED <<db, landed, cached, incrs, open, audited, bumping, queue, inbox, faults, last,
                 restarted, unheard>>

ReplayFails(p) ==
  /\ replay[p] # "idle"
  /\ CommandFails(p)
  /\ replay' = [replay EXCEPT ![p] = "idle"]
  /\ incrs' = IF replay[p] = "sent" THEN incrs + 1 ELSE incrs
  /\ UNCHANGED <<db, landed, cached, audited, bumping, pending, queue, inbox, last,
                 restarted, unheard>>

-----------------------------------------------------------------------------
(* The process restarts: what it remembered is gone. *)
Restart(p) ==
  /\ Fault
  /\ open' = open \ {p}
  /\ audited' = audited \ {p}
  /\ bumping' = bumping \ {p}
  /\ pending' = [pending EXCEPT ![p] = "none"]
  /\ replay' = [replay EXCEPT ![p] = "idle"]
  /\ incrs' = IF replay[p] = "sent" THEN incrs + 1 ELSE incrs
  /\ queue' = queue \ {p}
  /\ inbox' = inbox \ {p}
  /\ restarted' = restarted \cup {p}
  /\ UNCHANGED <<db, landed, cached, last, unheard>>

Next ==
  \/ LateIncr
  \/ \E p \in Process :
       \/ Trip(p)
       \/ Reconnect(p)
       \/ Commit(p)
       \/ Invalidate(p)
       \/ InvalidateEarly(p)
       \/ CommitAudited(p)
       \/ Rollback(p)
       \/ FlushRelay(p)
       \/ ReceiveRelay(p)
       \/ Fill(p)
       \/ StartReplay(p)
       \/ ReplayIncr(p)
       \/ ReplayReply(p)
       \/ ReplayFails(p)
       \/ Restart(p)

Spec == Init /\ [][Next]_vars

(* Timers, the event loop and the database connection go on.  Only the     *)
(* processes of Connected are sure to reach Redis again and to serve the   *)
(* reads that start a replay.                                              *)
Fairness ==
  /\ \A p \in Process :
       WF_vars(Invalidate(p)) /\ WF_vars(FlushRelay(p)) /\ WF_vars(ReceiveRelay(p))
  /\ \A p \in Connected :
       /\ WF_vars(Reconnect(p))
       /\ WF_vars(StartReplay(p))
       /\ WF_vars(ReplayIncr(p))
       /\ WF_vars(ReplayReply(p))

LiveSpec == Spec /\ Fairness

-----------------------------------------------------------------------------
(* Properties *)

(* A write that is invalidated after its commit stays remembered by its    *)
(* process while Redis does not have the invalidation, unless the process  *)
(* restarted, so that it serves no older cached value: the end of an       *)
(* earlier replay never takes a newer entry with it, nor do increments     *)
(* inside transactions that are still open pass for it.                    *)
MissRemembered ==
  \A p \in Process :
    last[p] > landed /\ p \notin restarted => p \in bumping \/ pending[p] # "none"

(* The invalidation of every write that is invalidated after its commit    *)
(* reaches Redis: from its own process, or over the bus when that process  *)
(* stays cut off.  Only a restart of the process excuses it and, for one   *)
(* cut off, a lost message or a restart of whoever was told.               *)
InvalidationLands ==
  \A p \in Process :
    last[p] > landed ~> \/ last[p] <= landed
                        \/ p \in restarted
                        \/ p \notin Connected /\ (unheard \/ restarted # {})

(* Relays come to rest: processes that all miss Redis do not keep telling  *)
(* one another about the same write.                                       *)
RelaysEnd == <>[](queue = {} /\ inbox = {})

(* config/database.ts:116-118 of cache invalidation: it "must not run      *)
(* before other requests (or workers) can see the new data".  So without   *)
(* faults, once no committed write has to be invalidated any more, what    *)
(* lies under the current version contains every committed write.          *)
InvalidatedIsCurrent ==
  faults = 0 /\ bumping = {} => cached \in {None, db}

=============================================================================
