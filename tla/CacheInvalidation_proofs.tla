----------------------- MODULE CacheInvalidation_proofs -----------------------
(* Type correctness of CacheInvalidation, and that a missed invalidation   *)
(* of a committed write stays remembered until Redis has it, for any       *)
(* number of processes, writes and faults.                                 *)
EXTENDS CacheInvalidation, TLAPS

(* Every step keeps the types: what reached Redis stays within what was    *)
(* committed, and what is cached under the version is at least that new.   *)
LEMMA TypeStep == TypeOK /\ [Next]_vars => TypeOK'
<1> SUFFICES ASSUME TypeOK, [Next]_vars PROVE TypeOK'
  OBVIOUS
<1> USE DEF TypeOK
<1>1. CASE LateIncr
  BY <1>1 DEF LateIncr, Incr
<1>2. ASSUME NEW p \in Process, Trip(p) PROVE TypeOK'
  BY <1>2, ProcessAssumption DEF Trip, Fault
<1>3. ASSUME NEW p \in Process, Reconnect(p) PROVE TypeOK'
  BY <1>3 DEF Reconnect
<1>4. ASSUME NEW p \in Process, Commit(p) PROVE TypeOK'
  <2>1. /\ db' \in Nat
        /\ landed' \in 0..db'
        /\ cached' \in (landed'..db') \cup {None}
        /\ last' \in [Process -> 0..db']
    BY <1>4 DEF Commit
  <2> QED
    BY <1>4, <2>1 DEF Commit
<1>5. ASSUME NEW p \in Process, NEW relay \in BOOLEAN, BumpVersion(p, relay), UNCHANGED db
      PROVE /\ landed' \in 0..db'
            /\ cached' \in (landed'..db') \cup {None}
            /\ incrs' \in Nat
            /\ open' \subseteq Process
            /\ pending' \in [Process -> {"none", "fresh", "taken"}]
            /\ queue' \subseteq Process
            /\ faults' \in Nat
  <2>1. CASE /\ p \in open
             /\ Remember(p, relay)
             /\ UNCHANGED <<landed, cached, incrs, open, faults>>
    BY <1>5, <2>1 DEF Remember
  <2>2. CASE /\ p \notin open
             /\ Incr
             /\ UNCHANGED <<incrs, open, faults, pending, queue>>
    BY <1>5, <2>2 DEF Incr
  <2>3. CASE /\ p \notin open
             /\ CommandFails(p)
             /\ incrs' = incrs + 1
             /\ Remember(p, relay)
             /\ UNCHANGED <<landed, cached>>
    BY <1>5, <2>3, ProcessAssumption DEF CommandFails, Fault, Remember
  <2> QED
    BY <1>5, <2>1, <2>2, <2>3 DEF BumpVersion
<1>6. ASSUME NEW p \in Process, Invalidate(p) PROVE TypeOK'
  <2>1. BumpVersion(p, TRUE) /\ UNCHANGED db
    BY <1>6 DEF Invalidate
  <2> QED
    BY <1>5, <1>6, <2>1 DEF Invalidate
<1>7. ASSUME NEW p \in Process, FlushRelay(p) PROVE TypeOK'
  <2>1. inbox' \subseteq Process
    BY <1>7, ZenonT(30) DEF FlushRelay
  <2>2. faults' \in Nat
    BY <1>7 DEF FlushRelay, Fault
  <2>3. unheard' \in BOOLEAN
    BY <1>7, Zenon DEF FlushRelay
  <2> QED
    BY <1>7, <2>1, <2>2, <2>3 DEF FlushRelay
<1>8. ASSUME NEW p \in Process, ReceiveRelay(p) PROVE TypeOK'
  <2>1. BumpVersion(p, FALSE) /\ UNCHANGED db
    BY <1>8 DEF ReceiveRelay, Relayed
  <2> QED
    BY <1>5, <1>8, <2>1 DEF ReceiveRelay
<1>9. ASSUME NEW p \in Process, StartReplay(p) PROVE TypeOK'
  BY <1>9 DEF StartReplay
<1>10. ASSUME NEW p \in Process, ReplayIncr(p) PROVE TypeOK'
  BY <1>10 DEF ReplayIncr, Incr
<1>11. ASSUME NEW p \in Process, ReplayReply(p) PROVE TypeOK'
  BY <1>11 DEF ReplayReply
<1>12. ASSUME NEW p \in Process, ReplayFails(p) PROVE TypeOK'
  BY <1>12, ProcessAssumption DEF ReplayFails, CommandFails, Fault
<1>13. ASSUME NEW p \in Process, Restart(p) PROVE TypeOK'
  BY <1>13, ProcessAssumption DEF Restart, Fault
<1>14. CASE UNCHANGED vars
  BY <1>14 DEF vars
<1>15. ASSUME NEW p \in Process, InvalidateEarly(p) PROVE TypeOK'
  <2>1. BumpVersion(p, TRUE) /\ UNCHANGED db
    BY <1>15 DEF InvalidateEarly
  <2> QED
    BY <1>5, <1>15, <2>1 DEF InvalidateEarly
<1>16. ASSUME NEW p \in Process, CommitAudited(p) PROVE TypeOK'
  <2>1. /\ db' \in Nat
        /\ landed' \in 0..db'
        /\ cached' \in (landed'..db') \cup {None}
        /\ last' \in [Process -> 0..db']
    BY <1>16 DEF CommitAudited
  <2> QED
    BY <1>16, <2>1 DEF CommitAudited
<1>17. ASSUME NEW p \in Process, Rollback(p) PROVE TypeOK'
  BY <1>17, ProcessAssumption DEF Rollback, Fault
<1>18. ASSUME NEW p \in Process, Fill(p) PROVE TypeOK'
  <2>1. cached' \in (landed'..db') \cup {None}
    BY <1>18 DEF Fill
  <2> QED
    BY <1>18, <2>1 DEF Fill
<1> QED
  BY <1>1, <1>2, <1>3, <1>4, <1>6, <1>7, <1>8, <1>9, <1>10, <1>11, <1>12, <1>13, <1>14,
     <1>15, <1>16, <1>17, <1>18 DEF Next

(* Type correctness, with landed never ahead of the committed writes. *)
THEOREM TypeCorrect == Spec => []TypeOK
<1>1. ASSUME Init PROVE TypeOK
  <2>1. unheard \in BOOLEAN
    BY <1>1, Zenon DEF Init
  <2>2. 0 \in 0..0 /\ db \in Nat /\ landed \in 0..db /\ incrs \in Nat /\ faults \in Nat
    BY <1>1 DEF Init
  <2>3. cached \in (landed..db) \cup {None}
    BY <1>1 DEF Init
  <2>4. last \in [Process -> 0..db]
    BY <1>1, <2>2 DEF Init
  <2> QED
    BY <1>1, <2>1, <2>2, <2>3, <2>4 DEF Init, TypeOK
<1> QED
  BY <1>1, TypeStep, PTL DEF Spec

(* When a replay has been executed and the entry it captured is still the  *)
(* current one, Redis has every write of the process: a later write either *)
(* has yet to be invalidated or has put a new entry in its place.          *)
ReplayCovers(p) ==
  replay[p] = "executed" /\ pending[p] = "taken" /\ p \notin restarted =>
    p \in bumping \/ last[p] <= landed

Remembers(p) ==
  last[p] > landed /\ p \notin restarted => p \in bumping \/ pending[p] # "none"

RememberInv == \A p \in Process : ReplayCovers(p) /\ Remembers(p)

(* Each step keeps what a process remembers. *)
LEMMA RememberStep == TypeOK /\ RememberInv /\ [Next]_vars => RememberInv'
<1> SUFFICES ASSUME TypeOK, RememberInv, [Next]_vars,
                    NEW q \in Process
             PROVE (ReplayCovers(q) /\ Remembers(q))'
  BY DEF RememberInv
<1>0. /\ ReplayCovers(q) /\ Remembers(q)
      /\ db \in Nat /\ landed \in 0..db /\ last \in [Process -> 0..db] /\ last[q] \in 0..db
      /\ pending \in [Process -> {"none", "fresh", "taken"}]
      /\ replay \in [Process -> {"idle", "sent", "executed"}]
  BY DEF RememberInv, TypeOK
<1> USE <1>0 DEF ReplayCovers, Remembers
<1>1. CASE LateIncr
  BY <1>1 DEF LateIncr, Incr
<1>2. ASSUME NEW p \in Process, Trip(p) PROVE (ReplayCovers(q) /\ Remembers(q))'
  BY <1>2 DEF Trip
<1>3. ASSUME NEW p \in Process, Reconnect(p) PROVE (ReplayCovers(q) /\ Remembers(q))'
  BY <1>3 DEF Reconnect
<1>4. ASSUME NEW p \in Process, Commit(p) PROVE (ReplayCovers(q) /\ Remembers(q))'
  BY <1>4 DEF Commit
<1>5. ASSUME NEW p \in Process, NEW relay \in BOOLEAN, BumpVersion(p, relay),
             UNCHANGED <<db, last, replay, restarted>>,
             bumping \ {p} \subseteq bumping'
      PROVE (ReplayCovers(q) /\ Remembers(q))'
  <2>1. CASE Remember(p, relay) /\ UNCHANGED landed
    BY <1>5, <2>1 DEF Remember
  <2>2. CASE Incr /\ UNCHANGED pending
    BY <1>5, <2>2 DEF Incr
  <2> QED
    BY <1>5, <2>1, <2>2 DEF BumpVersion
<1>6. ASSUME NEW p \in Process, Invalidate(p) PROVE (ReplayCovers(q) /\ Remembers(q))'
  <2>1. /\ BumpVersion(p, TRUE)
        /\ UNCHANGED <<db, last, replay, restarted>>
        /\ bumping \ {p} \subseteq bumping'
    BY <1>6 DEF Invalidate
  <2> QED
    BY <1>5, <2>1
<1>7. ASSUME NEW p \in Process, FlushRelay(p) PROVE (ReplayCovers(q) /\ Remembers(q))'
  BY <1>7 DEF FlushRelay
<1>8. ASSUME NEW p \in Process, ReceiveRelay(p) PROVE (ReplayCovers(q) /\ Remembers(q))'
  <2>1. /\ BumpVersion(p, FALSE)
        /\ UNCHANGED <<db, last, replay, restarted>>
        /\ bumping \ {p} \subseteq bumping'
    BY <1>8 DEF ReceiveRelay, Relayed
  <2> QED
    BY <1>5, <2>1
<1>9. ASSUME NEW p \in Process, StartReplay(p) PROVE (ReplayCovers(q) /\ Remembers(q))'
  BY <1>9 DEF StartReplay
<1>10. ASSUME NEW p \in Process, ReplayIncr(p) PROVE (ReplayCovers(q) /\ Remembers(q))'
  BY <1>10 DEF ReplayIncr, Incr
<1>11. ASSUME NEW p \in Process, ReplayReply(p) PROVE (ReplayCovers(q) /\ Remembers(q))'
  BY <1>11 DEF ReplayReply, SameEntry
<1>12. ASSUME NEW p \in Process, ReplayFails(p) PROVE (ReplayCovers(q) /\ Remembers(q))'
  BY <1>12 DEF ReplayFails
<1>13. ASSUME NEW p \in Process, Restart(p) PROVE (ReplayCovers(q) /\ Remembers(q))'
  BY <1>13 DEF Restart
<1>14. CASE UNCHANGED vars
  BY <1>14 DEF vars
<1>15. ASSUME NEW p \in Process, InvalidateEarly(p) PROVE (ReplayCovers(q) /\ Remembers(q))'
  <2>1. /\ BumpVersion(p, TRUE)
        /\ UNCHANGED <<db, last, replay, restarted>>
        /\ bumping \ {p} \subseteq bumping'
        /\ UNCHANGED bumping
    BY <1>15 DEF InvalidateEarly
  <2> QED
    BY <1>5, <2>1
<1>16. ASSUME NEW p \in Process, CommitAudited(p) PROVE (ReplayCovers(q) /\ Remembers(q))'
  BY <1>16 DEF CommitAudited
<1>17. ASSUME NEW p \in Process, Rollback(p) PROVE (ReplayCovers(q) /\ Remembers(q))'
  BY <1>17 DEF Rollback
<1>18. ASSUME NEW p \in Process, Fill(p) PROVE (ReplayCovers(q) /\ Remembers(q))'
  BY <1>18 DEF Fill
<1> QED
  BY <1>1, <1>2, <1>3, <1>4, <1>6, <1>7, <1>8, <1>9, <1>10, <1>11, <1>12, <1>13, <1>14,
     <1>15, <1>16, <1>17, <1>18 DEF Next

(* A write that is invalidated after its commit (afterCommit, or no        *)
(* transaction) stays remembered by its process while bumpVersion has not  *)
(* reached Redis, unless the process restarted; invalidations of other     *)
(* requests inside open transactions overlap freely.                       *)
THEOREM MissedStaysRemembered == Spec => []MissRemembered
<1>1. ASSUME Init PROVE RememberInv
  <2> SUFFICES ASSUME NEW p \in Process PROVE ReplayCovers(p) /\ Remembers(p)
    BY DEF RememberInv
  <2>1. replay[p] = "idle" /\ last[p] = 0 /\ landed = 0
    BY <1>1 DEF Init
  <2> QED
    BY <2>1 DEF ReplayCovers, Remembers
<1>2. RememberInv => MissRemembered
  BY DEF RememberInv, Remembers, MissRemembered
<1> QED
  BY <1>1, <1>2, TypeCorrect, RememberStep, PTL DEF Spec

(* getCacheJson: a process that reads the cache at all finds its own       *)
(* writes there.                                                           *)
ReadsOwnWrites ==
  \A p \in Process :
    p \notin bumping \cup restarted /\ pending[p] = "none" /\ cached # None => cached >= last[p]

(* cachedReadsAllowed keeps a process from values older than its own       *)
(* writes that are invalidated after their commit: with no invalidation    *)
(* pending, what lies under the current version contains them.             *)
THEOREM OwnWritesRead == Spec => []ReadsOwnWrites
<1>1. ASSUME TypeOK, MissRemembered PROVE ReadsOwnWrites
  <2> SUFFICES ASSUME NEW p \in Process,
                      p \notin bumping \cup restarted, pending[p] = "none", cached # None
               PROVE  cached >= last[p]
    BY DEF ReadsOwnWrites
  <2>1. ~(last[p] > landed)
    BY <1>1 DEF MissRemembered
  <2>2. landed \in Nat /\ cached \in landed..db /\ last[p] \in Nat /\ db \in Nat
    BY <1>1 DEF TypeOK
  <2> QED
    BY <2>1, <2>2
<1> QED
  BY <1>1, TypeCorrect, MissedStaysRemembered, PTL

=============================================================================
