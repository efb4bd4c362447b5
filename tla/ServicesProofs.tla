---------------------------- MODULE ServicesProofs ----------------------------
(***************************************************************************)
(* What holds for every number of syncers, processes, providers, runs,     *)
(* viewers, messages and teammates: long-term memory gets a prefix of the  *)
(* turns and its watermark only grows (MemorySync); a run of the dashboard *)
(* that has settled has ended, and a shutdown reaches every run            *)
(* (AgentRuns); a process that exits is announced (ProcessRegistry); the   *)
(* messages of a busy session start in order, and only a failure strands   *)
(* them (GatewayRunner); an instance that a wait reports as finished has   *)
(* given its result to the root, and waits close no circle (AgentTeam).    *)
(* Side by side with the stores of SessionObjects and the orders of        *)
(* PortfolioOrders, each keeps its specification and its types             *)
(* (MCServices).                                                           *)
(***************************************************************************)
EXTENDS MCServices, SessionObjectsProofs, PortfolioOrdersProofs, FiniteSetTheorems, TLAPS

-----------------------------------------------------------------------------
(* MemorySync. *)

Come == {"marked", "turn", "giving", "given"}

\* What a call of sync_pending knows: the turns before the one it has come to
\* are with every provider, and its version is the checkpoint's only as long as
\* nobody has moved the watermark.
Knows(s) ==
  /\ sync[s].pc \in Come =>
       /\ sync[s].version < sync[s].next
       /\ sync[s].version <= checkpoint.version
       /\ sync[s].version = checkpoint.version => sync[s].next = checkpoint.mark + 1
       /\ \A p \in 1..Providers : 1 .. sync[s].next - 1 \subseteq given[p]
  /\ sync[s].pc \in {"turn", "giving", "given"} => sync[s].last <= stored
  /\ sync[s].pc \in {"giving", "given"} => sync[s].next <= sync[s].last
  /\ sync[s].pc = "giving" => \A q \in 1 .. sync[s].provider - 1 : sync[s].next \in given[q]
  /\ sync[s].pc = "given" => \A p \in 1..Providers : sync[s].next \in given[p]

MemoryInv ==
  /\ MemoryTypeOK
  /\ MemoryIsAPrefix
  /\ checkpoint.version <= checkpoint.mark
  /\ \A h \in Processes, p \in 1..Providers : synced[h] \subseteq given[p]
  /\ \A s \in Syncers : Knows(s)

\* The updates of a call's record.
SyncSteps == {"idle", "done", "failed"} \cup Syncing

LEMMA StepMoves ==
  ASSUME NEW x \in SyncRecord, NEW pc \in SyncSteps, NEW y, y = [x EXCEPT !.pc = pc]
  PROVE  /\ y \in SyncRecord /\ y.pc = pc /\ y.version = x.version /\ y.next = x.next
         /\ y.home = x.home /\ y.last = x.last /\ y.provider = x.provider
BY DEF SyncRecord, SyncSteps

Marks(x, pc, v, n) == [x EXCEPT !.pc = pc, !.version = v, !.next = n]
Pages(x, pc, l) == [x EXCEPT !.pc = pc, !.last = l]
Providing(x, pc, p) == [x EXCEPT !.pc = pc, !.provider = p]

LEMMA MarkMoves ==
  ASSUME NEW x \in SyncRecord, NEW pc \in SyncSteps,
         NEW v \in 0..MaxTurns, NEW n \in 1 .. MaxTurns + 1, NEW y, y = Marks(x, pc, v, n)
  PROVE  /\ y \in SyncRecord /\ y.pc = pc /\ y.version = v /\ y.next = n
         /\ y.home = x.home /\ y.last = x.last /\ y.provider = x.provider
BY DEF SyncRecord, SyncSteps, Marks

LEMMA PageMoves ==
  ASSUME NEW x \in SyncRecord, NEW pc \in SyncSteps, NEW l \in 0..MaxTurns,
         NEW y, y = Pages(x, pc, l)
  PROVE  /\ y \in SyncRecord /\ y.pc = pc /\ y.version = x.version /\ y.next = x.next
         /\ y.home = x.home /\ y.last = l /\ y.provider = x.provider
BY DEF SyncRecord, SyncSteps, Pages

LEMMA ProviderMoves ==
  ASSUME NEW x \in SyncRecord, NEW pc \in SyncSteps, NEW p \in 1..Providers,
         NEW y, y = Providing(x, pc, p)
  PROVE  /\ y \in SyncRecord /\ y.pc = pc /\ y.version = x.version /\ y.next = x.next
         /\ y.home = x.home /\ y.last = x.last /\ y.provider = p
BY DEF SyncRecord, SyncSteps, Providing

LEMMA MemoryStarts == MemoryInit => MemoryInv
<1> SUFFICES ASSUME MemoryInit PROVE MemoryInv
  OBVIOUS
<1>1. MemoryTypeOK
  BY SyncBounds DEF MemoryInit, MemoryTypeOK, SyncRecord, Syncing
<1>2. \A s \in Syncers : Knows(s)
  BY DEF MemoryInit, Knows, Come
<1>3. MemoryIsAPrefix
  BY DEF MemoryInit, MemoryIsAPrefix
<1>4. QED
  BY <1>1, <1>2, <1>3 DEF MemoryInit, MemoryInv

\* Only the call that moves may change what it knows; the others keep it as
\* long as the providers and the session only gain turns and the watermark
\* stands.
LEMMA KnowsKept ==
  ASSUME NEW s \in Syncers, Knows(s), MemoryTypeOK, MemoryTypeOK', sync'[s] = sync[s],
         stored <= stored', checkpoint' = checkpoint,
         \A p \in 1..Providers : given[p] \subseteq given'[p]
  PROVE  Knows(s)'
<1>1. /\ sync[s].provider \in 1..Providers /\ stored \in Nat /\ stored' \in Nat
      /\ sync[s].last \in Nat /\ Providers \in Nat
  BY SyncBounds DEF MemoryTypeOK, SyncRecord
<1>2. \A q \in 1 .. sync[s].provider - 1 : q \in 1..Providers
  BY <1>1
<1>3. QED
  BY <1>1, <1>2 DEF Knows

LEMMA CommitSyncs ==
  ASSUME MemoryInv, NEW s \in Syncers, CommitThenSync(s) PROVE MemoryInv'
<1>1. MemoryTypeOK'
  <2>1. stored' \in 0..MaxTurns /\ UNCHANGED <<checkpoint, given, synced>>
    BY SyncBounds DEF MemoryInv, CommitThenSync, MemoryTypeOK
  <2>2. sync' = [sync EXCEPT ![s] = [sync[s] EXCEPT !.pc = "committed"]]
    BY DEF CommitThenSync
  <2>3. sync \in [Syncers -> SyncRecord] /\ sync[s] \in SyncRecord /\ "committed" \in SyncSteps
    BY DEF MemoryInv, MemoryTypeOK, SyncSteps, Syncing
  <2>4. [sync[s] EXCEPT !.pc = "committed"] \in SyncRecord
    BY <2>3, StepMoves
  <2>5. QED
    BY <2>1, <2>2, <2>3, <2>4 DEF MemoryInv, MemoryTypeOK
<1>2. ASSUME NEW u \in Syncers PROVE Knows(u)'
  <2>1. CASE u = s
    BY <2>1 DEF MemoryInv, CommitThenSync, MemoryTypeOK, Knows, Come
  <2>2. CASE u # s
    BY <2>2, <1>1, KnowsKept DEF MemoryInv, CommitThenSync, MemoryTypeOK
  <2>3. QED
    BY <2>1, <2>2
<1>3. MemoryIsAPrefix'
  BY SyncBounds DEF MemoryInv, CommitThenSync, MemoryTypeOK, MemoryIsAPrefix, Turns
<1>4. QED
  BY <1>1, <1>2, <1>3 DEF MemoryInv, CommitThenSync

\* The steps that move only the call itself.
LEMMA QuietSyncs ==
  ASSUME MemoryInv, NEW s \in Syncers,
         ReadMark(s) \/ ListTurns(s) \/ NextTurn(s) \/ SyncFails(s)
  PROVE  MemoryInv'
<1>1. UNCHANGED <<stored, checkpoint, given, synced>>
  BY DEF ReadMark, ListTurns, NextTurn, SyncFails
<1>2. /\ sync[s] \in SyncRecord /\ stored \in 0..MaxTurns /\ MaxTurns \in Nat
      /\ checkpoint.version \in 0..MaxTurns /\ checkpoint.mark \in 0..MaxTurns
      /\ Providers \in Nat \ {0} /\ TurnPage \in Nat
  BY SyncBounds DEF MemoryInv, MemoryTypeOK
<1>3. sync \in [Syncers -> SyncRecord] /\ sync' = [sync EXCEPT ![s] = sync'[s]]
  BY DEF MemoryInv, MemoryTypeOK, ReadMark, ListTurns, NextTurn, SyncFails
<1>4. sync'[s] \in SyncRecord /\ Knows(s)'
  <2>0. Knows(s) /\ \A p \in 1..Providers : 1..checkpoint.mark \subseteq given[p]
    BY DEF MemoryInv, MemoryIsAPrefix
  <2>1. CASE ReadMark(s)
    <3>1. sync'[s] = Marks(sync[s], "marked", checkpoint.version, checkpoint.mark + 1)
      BY <1>3, <2>1 DEF ReadMark, Marks
    <3>2. "marked" \in SyncSteps /\ checkpoint.mark + 1 \in 1 .. MaxTurns + 1
      BY <1>2 DEF SyncSteps, Syncing
    <3>3. /\ sync'[s] \in SyncRecord
          /\ sync'[s].pc = "marked" /\ sync'[s].version = checkpoint.version
          /\ sync'[s].next = checkpoint.mark + 1
      BY <1>2, <3>1, <3>2, MarkMoves
    <3>4. checkpoint.version <= checkpoint.mark
      BY DEF MemoryInv
    <3>5. QED
      BY <1>1, <1>2, <2>0, <3>3, <3>4 DEF Knows, Come
  <2>2. CASE ListTurns(s)
    <3>1. PICK l : l = IF stored < TurnPage THEN stored ELSE TurnPage
      OBVIOUS
    <3>2. /\ "turn" \in SyncSteps /\ l \in 0..MaxTurns /\ l <= stored
          /\ sync'[s] = Pages(sync[s], "turn", l)
      <4>1. l \in 0..MaxTurns /\ l <= stored
        BY <1>2, <3>1
      <4>2. sync'[s] = Pages(sync[s], "turn", l)
        BY <1>3, <2>2, <3>1 DEF ListTurns, Pages
      <4>3. QED
        BY <4>1, <4>2 DEF SyncSteps, Syncing
    <3>3. /\ sync'[s] \in SyncRecord
          /\ sync'[s].pc = "turn" /\ sync'[s].version = sync[s].version
          /\ sync'[s].next = sync[s].next /\ sync'[s].last = l
      <4>1. sync[s] \in SyncRecord
        BY <1>2
      <4>2. QED
        BY <3>2, <4>1, PageMoves
    <3>4. QED
      BY <1>1, <1>2, <2>0, <2>2, <3>2, <3>3 DEF Knows, Come, ListTurns
  <2>3. CASE NextTurn(s)
    <3>1. PICK pc \in SyncSteps :
             /\ sync'[s] = Providing(sync[s], pc, 1)
             /\ pc = "done" \/ (pc \in {"given", "giving"} /\ sync[s].next <= sync[s].last)
             /\ pc = "given" => sync[s].next \in synced[sync[s].home]
      <4>1. sync'[s] = Providing(sync[s],
                 IF sync[s].next > sync[s].last THEN "done"
                 ELSE IF sync[s].next \in synced[sync[s].home] THEN "given" ELSE "giving", 1)
        BY <1>3, <2>3 DEF NextTurn, Providing
      <4>2. {"done", "given", "giving"} \subseteq SyncSteps
        BY DEF SyncSteps, Syncing
      <4>3. sync[s].next \in Int /\ sync[s].last \in Int
        BY <1>2 DEF SyncRecord
      <4>4. CASE sync[s].next > sync[s].last
        BY <4>1, <4>2, <4>4
      <4>5. CASE ~(sync[s].next > sync[s].last) /\ sync[s].next \in synced[sync[s].home]
        BY <4>1, <4>2, <4>3, <4>5
      <4>6. CASE ~(sync[s].next > sync[s].last) /\ sync[s].next \notin synced[sync[s].home]
        BY <4>1, <4>2, <4>3, <4>6
      <4>7. QED
        BY <4>4, <4>5, <4>6
    <3>2. 1 \in 1..Providers
      BY <1>2
    <3>3. /\ sync'[s] \in SyncRecord
          /\ sync'[s].pc = pc /\ sync'[s].version = sync[s].version
          /\ sync'[s].next = sync[s].next /\ sync'[s].last = sync[s].last
          /\ sync'[s].provider = 1
      BY <1>2, <3>1, <3>2, ProviderMoves
    <3>4. \A p \in 1..Providers : synced[sync[s].home] \subseteq given[p]
      BY <1>2 DEF MemoryInv, SyncRecord
    <3>5. CASE pc = "done"
      BY <3>3, <3>5 DEF Knows, Come
    <3>6. /\ sync[s].pc = "turn" /\ sync[s].last <= stored
          /\ sync[s].version < sync[s].next /\ sync[s].version <= checkpoint.version
          /\ sync[s].version = checkpoint.version => sync[s].next = checkpoint.mark + 1
          /\ \A p \in 1..Providers : 1 .. sync[s].next - 1 \subseteq given[p]
      BY <2>0, <2>3 DEF Knows, Come, NextTurn
    <3>7. CASE pc = "giving" /\ sync[s].next <= sync[s].last
      <4>1. 1 .. sync'[s].provider - 1 = {}
        BY <3>3
      <4>2. QED
        BY <1>1, <3>3, <3>6, <3>7, <4>1 DEF Knows, Come
    <3>8. CASE pc = "given" /\ sync[s].next <= sync[s].last
      <4>1. \A p \in 1..Providers : sync[s].next \in given[p]
        BY <3>1, <3>4, <3>8
      <4>2. QED
        BY <1>1, <3>3, <3>6, <3>8, <4>1 DEF Knows, Come
    <3>9. QED
      BY <3>1, <3>5, <3>7, <3>8
  <2>4. CASE SyncFails(s)
    <3>1. sync'[s] = [sync[s] EXCEPT !.pc = "failed"]
      BY <1>3, <2>4 DEF SyncFails
    <3>2. "failed" \in SyncSteps
      BY DEF SyncSteps
    <3>3. sync'[s] \in SyncRecord /\ sync'[s].pc = "failed"
      BY <1>2, <3>1, <3>2, StepMoves
    <3>4. QED
      BY <3>3 DEF Knows, Come
  <2>5. QED
    BY <2>1, <2>2, <2>3, <2>4
<1>5. MemoryTypeOK'
  BY <1>1, <1>3, <1>4 DEF MemoryInv, MemoryTypeOK
<1>6. ASSUME NEW u \in Syncers PROVE Knows(u)'
  <2>1. CASE u # s
    <3>1. sync'[u] = sync[u]
      BY <1>3, <2>1
    <3>2. Knows(u) /\ MemoryTypeOK /\ stored <= stored'
      BY <1>1, <1>2 DEF MemoryInv
    <3>3. QED
      BY <1>1, <1>5, <3>1, <3>2, KnowsKept
  <2>2. QED
    BY <1>4, <2>1
<1>7. QED
  BY <1>1, <1>5, <1>6 DEF MemoryInv, MemoryIsAPrefix

\* A turn that is given goes to the end of what the provider has, or is there.
LEMMA GivingSyncs ==
  ASSUME MemoryInv, NEW s \in Syncers, GiveTurn(s) PROVE MemoryInv'
<1> DEFINE p == sync[s].provider
           h == sync[s].home
           n == sync[s].next
<1>1. /\ sync[s] \in SyncRecord /\ stored \in 0..MaxTurns /\ MaxTurns \in Nat
      /\ checkpoint.version \in 0..MaxTurns /\ checkpoint.mark \in 0..MaxTurns
      /\ Providers \in Nat \ {0} /\ p \in 1..Providers /\ h \in Processes
      /\ given \in [1..Providers -> SUBSET Turns] /\ synced \in [Processes -> SUBSET Turns]
      /\ sync \in [Syncers -> SyncRecord] /\ n \in 1 .. MaxTurns + 1
      /\ sync[s].last \in 0..MaxTurns
  BY SyncBounds DEF MemoryInv, MemoryTypeOK, SyncRecord
<1>2. Knows(s) /\ sync[s].pc = "giving" /\ n <= stored /\ n \in Turns
  <2>1. Knows(s) /\ sync[s].pc = "giving"
    BY DEF MemoryInv, GiveTurn
  <2>2. n <= sync[s].last /\ sync[s].last <= stored
    BY <2>1 DEF Knows
  <2>3. QED
    BY <1>1, <2>1, <2>2 DEF Turns
<1>3. /\ given' = [given EXCEPT ![p] = @ \cup {n}]
      /\ stored' = stored /\ checkpoint' = checkpoint
  BY DEF GiveTurn
<1>4. /\ given' \in [1..Providers -> SUBSET Turns]
      /\ given'[p] = given[p] \cup {n}
      /\ \A q \in 1..Providers : q # p => given'[q] = given[q]
      /\ \A q \in 1..Providers : given[q] \subseteq given'[q]
  BY <1>1, <1>2, <1>3
<1>5. MemoryIsAPrefix'
  <2>1. ASSUME NEW q \in 1..Providers
        PROVE  /\ 1..checkpoint.mark \subseteq given'[q]
               /\ \A k \in given'[q] : k <= stored /\ 1..k \subseteq given'[q]
    <3>1. /\ 1..checkpoint.mark \subseteq given[q]
          /\ \A k \in given[q] : k <= stored /\ 1..k \subseteq given[q]
      BY DEF MemoryInv, MemoryIsAPrefix
    <3>2. 1 .. n - 1 \subseteq given[q]
      BY <1>2 DEF Knows, Come
    <3>3. CASE q = p
      <4>1. 1 .. n \subseteq given'[q]
        BY <1>1, <1>4, <3>2, <3>3
      <4>2. QED
        BY <1>2, <1>4, <3>1, <3>3, <4>1
    <3>4. QED
      BY <1>4, <3>1, <3>3
  <2>2. QED
    BY <1>3, <2>1 DEF MemoryIsAPrefix
<1>6. CASE p < Providers
  <2>1. synced' = synced /\ sync' = [sync EXCEPT ![s].provider = p + 1]
    BY <1>6 DEF GiveTurn
  <2>2. /\ sync'[s].pc = "giving" /\ sync'[s].next = n /\ sync'[s].version = sync[s].version
        /\ sync'[s].last = sync[s].last /\ sync'[s].provider = p + 1
        /\ sync' \in [Syncers -> SyncRecord]
        /\ \A u \in Syncers : u # s => sync'[u] = sync[u]
    <3>1. sync'[s] = Providing(sync[s], "giving", p + 1)
      BY <1>1, <1>2, <2>1 DEF SyncRecord, Providing
    <3>2. "giving" \in SyncSteps /\ p + 1 \in 1..Providers
      BY <1>1, <1>6 DEF SyncSteps, Syncing
    <3>3. /\ sync'[s] \in SyncRecord /\ sync'[s].pc = "giving" /\ sync'[s].next = n
          /\ sync'[s].version = sync[s].version /\ sync'[s].last = sync[s].last
          /\ sync'[s].provider = p + 1
      <4>1. sync[s] \in SyncRecord
        BY <1>1
      <4>2. QED
        BY <3>1, <3>2, <4>1, ProviderMoves
    <3>4. sync' = [sync EXCEPT ![s] = sync'[s]]
      BY <1>1, <2>1
    <3>5. QED
      BY <1>1, <3>3, <3>4
  <2>3. MemoryTypeOK'
    BY <1>1, <1>3, <1>4, <2>1, <2>2 DEF MemoryInv, MemoryTypeOK
  <2>4. \A q \in 1 .. sync'[s].provider - 1 : n \in given'[q]
    <3>1. SUFFICES ASSUME NEW q \in 1 .. p PROVE n \in given'[q]
      BY <1>1, <2>2
    <3>2. q \in 1..Providers /\ (q = p \/ q \in 1 .. p - 1)
      BY <1>1, <3>1
    <3>3. QED
      BY <1>2, <1>4, <3>2 DEF Knows
  <2>5. Knows(s)'
    BY <1>1, <1>2, <1>3, <1>4, <2>2, <2>4 DEF Knows, Come
  <2>6. ASSUME NEW u \in Syncers PROVE Knows(u)'
    BY <1>1, <1>3, <1>4, <2>2, <2>3, <2>5, KnowsKept DEF MemoryInv
  <2>7. \A g \in Processes, q \in 1..Providers : synced'[g] \subseteq given'[q]
    BY <1>4, <2>1 DEF MemoryInv
  <2>8. QED
    BY <1>3, <1>5, <2>3, <2>6, <2>7 DEF MemoryInv
<1>7. CASE p = Providers
  <2>1. synced' = [synced EXCEPT ![h] = @ \cup {n}] /\ sync' = [sync EXCEPT ![s].pc = "given"]
    BY <1>1, <1>7 DEF GiveTurn
  <2>2. /\ sync'[s].pc = "given" /\ sync'[s].next = n /\ sync'[s].version = sync[s].version
        /\ sync'[s].last = sync[s].last
        /\ sync' \in [Syncers -> SyncRecord]
        /\ \A u \in Syncers : u # s => sync'[u] = sync[u]
    <3>1. sync'[s] = [sync[s] EXCEPT !.pc = "given"] /\ "given" \in SyncSteps
      BY <1>1, <2>1 DEF SyncSteps, Syncing
    <3>2. QED
      BY <1>1, <2>1, <3>1, StepMoves
  <2>3. synced' \in [Processes -> SUBSET Turns]
    BY <1>1, <1>2, <2>1
  <2>4. MemoryTypeOK'
    BY <1>1, <1>3, <1>4, <2>2, <2>3 DEF MemoryInv, MemoryTypeOK
  <2>5. \A q \in 1..Providers : n \in given'[q]
    BY <1>1, <1>2, <1>4, <1>7 DEF Knows
  <2>6. Knows(s)'
    BY <1>1, <1>2, <1>3, <1>4, <2>2, <2>5 DEF Knows, Come
  <2>7. ASSUME NEW u \in Syncers PROVE Knows(u)'
    BY <1>1, <1>3, <1>4, <2>2, <2>4, <2>6, KnowsKept DEF MemoryInv
  <2>8. \A g \in Processes, q \in 1..Providers : synced'[g] \subseteq given'[q]
    BY <1>1, <1>4, <2>1, <2>5 DEF MemoryInv
  <2>9. QED
    BY <1>3, <1>5, <2>4, <2>7, <2>8 DEF MemoryInv
<1>8. QED
  BY <1>1, <1>6, <1>7

\* The version read last is the checkpoint's: then this call is the one that has
\* come to the turn after the watermark.
LEMMA MarkingSyncs ==
  ASSUME MemoryInv, NEW s \in Syncers, PutMark(s)
  PROVE  MemoryInv' /\ checkpoint'.mark = checkpoint.mark + 1
<1> DEFINE n == sync[s].next
<1>1. /\ sync[s] \in SyncRecord /\ stored \in 0..MaxTurns /\ MaxTurns \in Nat
      /\ checkpoint.version \in 0..MaxTurns /\ checkpoint.mark \in 0..MaxTurns
      /\ n \in 1 .. MaxTurns + 1 /\ sync[s].last \in 0..MaxTurns
      /\ sync[s].version \in 0..MaxTurns
      /\ sync \in [Syncers -> SyncRecord]
  BY SyncBounds DEF MemoryInv, MemoryTypeOK, SyncRecord
<1>2. /\ sync[s].pc = "given" /\ sync[s].version = checkpoint.version
      /\ n = checkpoint.mark + 1 /\ n <= sync[s].last /\ sync[s].version < n
      /\ sync[s].last <= stored
      /\ \A p \in 1..Providers : 1 .. n - 1 \subseteq given[p] /\ n \in given[p]
  BY DEF MemoryInv, PutMark, Knows, Come
<1>3. /\ checkpoint'.version = checkpoint.version + 1 /\ checkpoint'.mark = n
      /\ UNCHANGED <<stored, given, synced>>
      /\ checkpoint' \in [version: 0..MaxTurns, mark: 0..MaxTurns]
  BY <1>1, <1>2 DEF PutMark
<1>4. /\ sync'[s].pc = "turn" /\ sync'[s].version = sync[s].version + 1
      /\ sync'[s].next = n + 1 /\ sync'[s].last = sync[s].last
      /\ sync' \in [Syncers -> SyncRecord]
      /\ \A u \in Syncers : u # s => sync'[u] = sync[u]
  <2>1. sync' = [sync EXCEPT ![s] = Marks(sync[s], "turn", sync[s].version + 1, n + 1)]
    BY DEF PutMark, Marks
  <2>2. /\ "turn" \in SyncSteps /\ sync[s].version + 1 \in 0..MaxTurns
        /\ n + 1 \in 1 .. MaxTurns + 1
    BY <1>1, <1>2 DEF SyncSteps, Syncing
  <2>3. sync'[s] = Marks(sync[s], "turn", sync[s].version + 1, n + 1)
    BY <1>1, <2>1
  <2>4. /\ sync'[s] \in SyncRecord /\ sync'[s].pc = "turn"
        /\ sync'[s].version = sync[s].version + 1
        /\ sync'[s].next = n + 1 /\ sync'[s].last = sync[s].last
    <3>1. sync[s] \in SyncRecord
      BY <1>1
    <3>2. QED
      BY <2>2, <2>3, <3>1, MarkMoves
  <2>5. sync' = [sync EXCEPT ![s] = sync'[s]]
    BY <1>1, <2>1, <2>3
  <2>6. QED
    BY <1>1, <2>4, <2>5
<1>5. MemoryTypeOK'
  BY <1>3, <1>4 DEF MemoryInv, MemoryTypeOK
<1>6. \A p \in 1..Providers : 1 .. n \subseteq given[p]
  BY <1>1, <1>2
<1>7. MemoryIsAPrefix'
  BY <1>3, <1>6 DEF MemoryInv, MemoryIsAPrefix
<1>8. Knows(s)'
  BY <1>1, <1>2, <1>3, <1>4, <1>6 DEF Knows, Come
<1>9. ASSUME NEW u \in Syncers, u # s PROVE Knows(u)'
  <2>1. /\ Knows(u) /\ sync'[u] = sync[u] /\ sync[u].version \in Nat
        /\ sync[u].version <= checkpoint.version \/ sync[u].pc \notin Come
    <3>1. Knows(u) /\ sync'[u] = sync[u] /\ sync[u] \in SyncRecord
      BY <1>1, <1>4, <1>9 DEF MemoryInv
    <3>2. QED
      BY <1>1, <3>1 DEF SyncRecord, Knows
  <2>2. QED
    BY <1>1, <1>3, <2>1 DEF Knows
<1>10. QED
  BY <1>1, <1>2, <1>3, <1>5, <1>7, <1>8, <1>9 DEF MemoryInv

LEMMA StoppingSyncs ==
  ASSUME MemoryInv, NEW h \in Processes, ProcessStops(h) PROVE MemoryInv'
<1>1. /\ sync \in [Syncers -> SyncRecord]
      /\ synced' = [synced EXCEPT ![h] = {}] /\ UNCHANGED <<stored, checkpoint, given>>
      /\ \A s \in Syncers : sync'[s] = sync[s] \/ sync'[s] = [sync[s] EXCEPT !.pc = "failed"]
  BY DEF MemoryInv, MemoryTypeOK, ProcessStops
<1>2. MemoryTypeOK'
  <2>1. sync' \in [Syncers -> SyncRecord]
    <3>1. ASSUME NEW s \in Syncers PROVE sync'[s] \in SyncRecord
      <4>1. sync[s] \in SyncRecord /\ "failed" \in SyncSteps
        BY <1>1 DEF SyncSteps
      <4>2. [sync[s] EXCEPT !.pc = "failed"] \in SyncRecord
        BY <4>1, StepMoves
      <4>3. QED
        BY <1>1, <4>1, <4>2
    <3>2. QED
      BY <3>1 DEF ProcessStops
  <2>2. QED
    BY <1>1, <2>1 DEF MemoryInv, MemoryTypeOK
<1>3. ASSUME NEW s \in Syncers PROVE Knows(s)'
  <2>1. CASE sync'[s] = sync[s]
    BY <1>1, <1>2, <2>1, KnowsKept DEF MemoryInv, MemoryTypeOK
  <2>2. CASE sync'[s] = [sync[s] EXCEPT !.pc = "failed"]
    <3>1. sync'[s].pc = "failed"
      BY <1>1, <2>2 DEF SyncRecord
    <3>2. QED
      BY <3>1 DEF Knows, Come
  <2>3. QED
    BY <1>1, <2>1, <2>2
<1>4. QED
  BY <1>1, <1>2, <1>3 DEF MemoryInv, MemoryIsAPrefix, MemoryTypeOK

LEMMA MemoryMoves ==
  MemoryInv /\ [MemoryNext]_syncVars =>
    MemoryInv' /\ (checkpoint' = checkpoint \/ checkpoint'.mark = checkpoint.mark + 1)
<1> SUFFICES ASSUME MemoryInv, [MemoryNext]_syncVars
             PROVE  MemoryInv' /\ (checkpoint' = checkpoint \/ checkpoint'.mark = checkpoint.mark + 1)
  OBVIOUS
<1>1. ASSUME NEW s \in Syncers, CommitThenSync(s) PROVE MemoryInv' /\ checkpoint' = checkpoint
  BY <1>1, CommitSyncs DEF CommitThenSync
<1>2. ASSUME NEW s \in Syncers, ReadMark(s) \/ ListTurns(s) \/ NextTurn(s) \/ SyncFails(s)
      PROVE  MemoryInv' /\ checkpoint' = checkpoint
  BY <1>2, QuietSyncs DEF ReadMark, ListTurns, NextTurn, SyncFails
<1>3. ASSUME NEW s \in Syncers, GiveTurn(s) PROVE MemoryInv' /\ checkpoint' = checkpoint
  BY <1>3, GivingSyncs DEF GiveTurn
<1>4. ASSUME NEW h \in Processes, ProcessStops(h) PROVE MemoryInv' /\ checkpoint' = checkpoint
  BY <1>4, StoppingSyncs DEF ProcessStops
<1>5. CASE UNCHANGED syncVars
  BY <1>5 DEF syncVars, MemoryInv, MemoryTypeOK, MemoryIsAPrefix, Knows
<1>6. QED
  BY <1>1, <1>2, <1>3, <1>4, <1>5, MarkingSyncs DEF MemoryNext, SyncStep

\* Whatever syncs overlap, fail or are stopped, each provider has the session's
\* turns from the first on without a gap, and all of those below the watermark
\* (SessionMemorySyncWorker.sync_pending).
THEOREM MemoryHasAPrefix == MemorySpec => []MemoryIsAPrefix
<1>1. MemoryInv => MemoryIsAPrefix
  BY DEF MemoryInv
<1>2. QED
  BY <1>1, MemoryStarts, MemoryMoves, PTL DEF MemorySpec

\* The version check of put_checkpoint makes the watermark grow by one turn at a
\* time: no slow sync takes it back.
THEOREM WatermarkOnlyGrows == MemorySpec => WatermarkGrows
<1>1. MemoryInv /\ [MemoryNext]_syncVars => [checkpoint'.mark >= checkpoint.mark]_syncVars
  <2> SUFFICES ASSUME MemoryInv, [MemoryNext]_syncVars PROVE checkpoint'.mark >= checkpoint.mark
    OBVIOUS
  <2>1. checkpoint.mark \in Int
    BY DEF MemoryInv, MemoryTypeOK
  <2>2. QED
    BY <2>1, MemoryMoves
<1>2. MemoryInv /\ [MemoryNext]_syncVars => MemoryInv'
  BY MemoryMoves
<1>3. QED
  BY <1>1, <1>2, MemoryStarts, PTL DEF MemorySpec, WatermarkGrows

-----------------------------------------------------------------------------
(* AgentRuns. *)

RunRecord ==
  [known: BOOLEAN, status: {"running", "done", "error", "cancelled"},
   log: Seq(EventKinds), settled: BOOLEAN]

\* How a run's record x, its task and its creator agree.
Agrees(x, t, c) ==
  /\ c # "over" => t = "none"
  /\ c = "registered" => x.known
  /\ t \in {"none", "agent"} => Len(x.log) <= MaxEvents
  /\ t = "none" => x.log = <<>>
  /\ t \notin {"none", "agent"} => HasEnded(x.log) /\ Len(x.log) <= MaxEvents + 1
  /\ t \in {"completing", "reporting", "over"} => x.status # "running"
  /\ x.settled => t = "over"

RunAgrees(r) == Agrees(record[r], task[r], creator[r])

\* What shutdown has still to come to, or has come to.
RunIsReached(r) ==
  Alive(r) =>
    \/ r \in cancelled
    \/ manager = "open" /\ record[r].known
    \/ manager = "cancelling" /\ r \in sweep

RunsInv == RunsTypeOK /\ \A r \in LocalRuns : RunAgrees(r) /\ RunIsReached(r)

LEMMA RunsStart == RunsInit => RunsInv
<1> SUFFICES ASSUME RunsInit PROVE RunsInv
  OBVIOUS
<1>1. RunsTypeOK
  BY EventBound DEF RunsInit, RunsTypeOK, TaskStates, Watching
<1>2. \A r \in LocalRuns : RunAgrees(r) /\ RunIsReached(r)
  BY EventBound DEF RunsInit, RunAgrees, Agrees, RunIsReached, Alive
<1>3. QED
  BY <1>1, <1>2 DEF RunsInv

\* The last event of a run.
LEMMA LogCloses ==
  ASSUME NEW log \in Seq(EventKinds), NEW last \in {"done", "error"}
  PROVE  /\ Closed(log, last) \in Seq(EventKinds)
         /\ HasEnded(Closed(log, last))
         /\ Len(Closed(log, last)) <= Len(log) + 1
         /\ HasEnded(log) => Closed(log, last) = log
<1>1. last \in EventKinds
  BY DEF EventKinds
<1>2. CASE HasEnded(log)
  BY <1>2 DEF Closed
<1>3. CASE ~HasEnded(log)
  <2>1. PICK longer : longer = Append(log, last)
    OBVIOUS
  <2>2. /\ longer \in Seq(EventKinds) /\ Len(longer) = Len(log) + 1
        /\ longer[Len(log) + 1] = last
    BY <1>1, <2>1
  <2>3. HasEnded(longer)
    BY <2>2 DEF HasEnded
  <2>4. Closed(log, last) = longer
    BY <1>3, <2>1 DEF Closed
  <2>5. QED
    BY <1>3, <2>2, <2>3, <2>4
<1>4. QED
  BY <1>2, <1>3

\* The updates of a record.
WithKnown(x, k) == [x EXCEPT !.known = k]
WithStatus(x, outcome) == [x EXCEPT !.status = outcome]
WithLog(x, log) == [x EXCEPT !.log = log]
WithSettled(x) == [x EXCEPT !.settled = TRUE]

LEMMA KnownFields ==
  ASSUME NEW x \in RunRecord, NEW k \in BOOLEAN, NEW y, y = WithKnown(x, k)
  PROVE  /\ y \in RunRecord /\ y.known = k /\ y.status = x.status
         /\ y.log = x.log /\ y.settled = x.settled
BY DEF RunRecord, WithKnown

LEMMA StatusFields ==
  ASSUME NEW x \in RunRecord, NEW outcome \in {"running", "done", "error", "cancelled"},
         NEW y, y = WithStatus(x, outcome)
  PROVE  /\ y \in RunRecord /\ y.known = x.known /\ y.status = outcome
         /\ y.log = x.log /\ y.settled = x.settled
BY DEF RunRecord, WithStatus

LEMMA LogFields ==
  ASSUME NEW x \in RunRecord, NEW log \in Seq(EventKinds), NEW y, y = WithLog(x, log)
  PROVE  /\ y \in RunRecord /\ y.known = x.known /\ y.status = x.status
         /\ y.log = log /\ y.settled = x.settled
BY DEF RunRecord, WithLog

LEMMA SettledFields ==
  ASSUME NEW x \in RunRecord, NEW y, y = WithSettled(x)
  PROVE  /\ y \in RunRecord /\ y.known = x.known /\ y.status = x.status
         /\ y.log = x.log /\ y.settled
BY DEF RunRecord, WithSettled

\* A step about one run: what becomes of its record, its task and its creator,
\* and what it does to the handlers.
Becomes(r, x, t, c) ==
  /\ record' = [record EXCEPT ![r] = x]
  /\ task' = [task EXCEPT ![r] = t]
  /\ creator' = [creator EXCEPT ![r] = c]

Handles(r) ==
  /\ canceller' \in [LocalRuns -> {"idle", "waiting", "marking"}]
  /\ cancelled' \in SUBSET LocalRuns /\ cancelled \subseteq cancelled'
  /\ sweep' \in SUBSET LocalRuns /\ sweep \ {r} \subseteq sweep'
  /\ UNCHANGED <<manager, viewer>>

LEMMA RunMoved ==
  ASSUME RunsInv, NEW r \in LocalRuns, NEW x \in RunRecord, NEW t \in TaskStates,
         NEW c \in {"idle", "registered", "over"}, Becomes(r, x, t, c), Handles(r),
         Agrees(x, t, c),
         t \notin {"none", "over"} =>
           \/ r \in cancelled'
           \/ manager = "open" /\ x.known
           \/ manager = "cancelling" /\ r \in sweep'
  PROVE  RunsInv'
<1>1. /\ record \in [LocalRuns -> RunRecord] /\ task \in [LocalRuns -> TaskStates]
      /\ creator \in [LocalRuns -> {"idle", "registered", "over"}] /\ RunsTypeOK
  BY DEF RunsInv, RunsTypeOK, RunRecord
<1>2. /\ record' \in [LocalRuns -> RunRecord] /\ task' \in [LocalRuns -> TaskStates]
      /\ creator' \in [LocalRuns -> {"idle", "registered", "over"}]
      /\ record'[r] = x /\ task'[r] = t /\ creator'[r] = c
      /\ \A q \in LocalRuns \ {r} :
           record'[q] = record[q] /\ task'[q] = task[q] /\ creator'[q] = creator[q]
  BY <1>1 DEF Becomes
<1>3. RunsTypeOK'
  BY <1>1, <1>2 DEF Handles, RunsTypeOK, RunRecord
<1>4. RunAgrees(r)' /\ RunIsReached(r)'
  BY <1>2 DEF RunAgrees, RunIsReached, Alive, Handles
<1>5. ASSUME NEW q \in LocalRuns \ {r} PROVE RunAgrees(q)' /\ RunIsReached(q)'
  BY <1>2, <1>5 DEF RunsInv, RunAgrees, RunIsReached, Alive, Handles
<1>6. QED
  BY <1>3, <1>4, <1>5 DEF RunsInv

\* What is known of the run before the step.
LEMMA RunStands ==
  ASSUME RunsInv, NEW r \in LocalRuns
  PROVE  /\ record[r] \in RunRecord /\ task[r] \in TaskStates
         /\ record[r].log \in Seq(EventKinds) /\ Len(record[r].log) \in Nat
         /\ creator[r] \in {"idle", "registered", "over"} /\ MaxEvents \in Nat
         /\ record = [record EXCEPT ![r] = record[r]]
         /\ task = [task EXCEPT ![r] = task[r]]
         /\ creator = [creator EXCEPT ![r] = creator[r]]
         /\ canceller \in [LocalRuns -> {"idle", "waiting", "marking"}]
         /\ cancelled \in SUBSET LocalRuns /\ sweep \in SUBSET LocalRuns
         /\ Agrees(record[r], task[r], creator[r])
         /\ Alive(r) =>
              \/ r \in cancelled
              \/ manager = "open" /\ record[r].known
              \/ manager = "cancelling" /\ r \in sweep
<1>1. RunsTypeOK /\ RunAgrees(r) /\ RunIsReached(r)
  BY DEF RunsInv
<1>2. record \in [LocalRuns -> RunRecord]
  BY <1>1 DEF RunsTypeOK, RunRecord
<1>3. record[r] \in RunRecord /\ record[r].log \in Seq(EventKinds)
  BY <1>2 DEF RunRecord
<1>4. Len(record[r].log) \in Nat
  BY <1>3
<1>5. QED
  BY <1>1, <1>2, <1>3, <1>4, EventBound DEF RunsTypeOK, RunAgrees, RunIsReached

\* The indices of the event streams stay in their range.
LEMMA LogBound ==
  ASSUME RunsInv, NEW r \in LocalRuns
  PROVE  Len(record[r].log) <= MaxEvents + 1 /\ Len(record[r].log) \in Nat
<1>1. CASE task[r] \in {"none", "agent"}
  BY <1>1, RunStands DEF Agrees
<1>2. CASE task[r] \notin {"none", "agent"}
  BY <1>2, RunStands DEF Agrees
<1>3. QED
  BY <1>1, <1>2, RunStands

LEMMA HandlerKeeps ==
  ASSUME RunsInv, NEW r \in LocalRuns, HandlerStep(r)
  PROVE  RunsInv'
<1>1. CASE Register(r)
  <2>1. PICK x : x = WithKnown(record[r], TRUE)
    OBVIOUS
  <2>2. /\ x \in RunRecord /\ x.known /\ x.status = record[r].status
        /\ x.log = record[r].log /\ x.settled = record[r].settled
    <3>1. record[r] \in RunRecord
      BY RunStands
    <3>2. QED
      BY <2>1, <3>1, KnownFields
  <2>3. Becomes(r, x, task[r], "registered") /\ Handles(r)
    BY <1>1, <2>1, RunStands DEF Register, Becomes, Handles, WithKnown
  <2>4. creator[r] = "idle" /\ task[r] = "none"
    BY <1>1, RunStands DEF Register, Agrees
  <2>5. Agrees(x, task[r], "registered")
    BY <2>2, <2>4, RunStands DEF Agrees
  <2>6. QED
    BY <2>2, <2>3, <2>4, <2>5, RunStands, RunMoved
<1>2. CASE StartedRaises(r) \/ ScheduleRefused(r)
  <2>1. Becomes(r, record[r], task[r], "over") /\ Handles(r)
    BY <1>2, RunStands DEF StartedRaises, ScheduleRefused, Becomes, Handles
  <2>2. creator[r] = "registered" /\ task[r] = "none"
    BY <1>2, RunStands DEF StartedRaises, ScheduleRefused, Agrees
  <2>3. Agrees(record[r], task[r], "over")
    BY <2>2, RunStands DEF Agrees
  <2>4. QED
    BY <2>1, <2>2, <2>3, RunStands, RunMoved
<1>3. CASE Schedule(r)
  <2>1. Becomes(r, record[r], "agent", "over") /\ Handles(r) /\ manager = "open"
    BY <1>3, RunStands DEF Schedule, Becomes, Handles
  <2>2. creator[r] = "registered" /\ task[r] = "none" /\ record[r].known
    BY <1>3, RunStands DEF Schedule, Agrees
  <2>3. Agrees(record[r], "agent", "over") /\ "agent" \in TaskStates
    BY <2>2, RunStands DEF Agrees, TaskStates
  <2>4. QED
    BY <2>1, <2>2, <2>3, RunStands, RunMoved
<1>4. CASE Prune(r)
  <2>1. PICK x : x = WithKnown(record[r], FALSE)
    OBVIOUS
  <2>2. /\ x \in RunRecord /\ x.status = record[r].status
        /\ x.log = record[r].log /\ x.settled = record[r].settled
    <3>1. record[r] \in RunRecord
      BY RunStands
    <3>2. QED
      BY <2>1, <3>1, KnownFields
  <2>3. Becomes(r, x, task[r], "over") /\ Handles(r) /\ creator[r] = "over"
    BY <1>4, <2>1, RunStands DEF Prune, handlerVars, Becomes, Handles, WithKnown
  <2>4. Agrees(x, task[r], "over")
    BY <2>2, <2>3, RunStands DEF Agrees
  <2>5. task[r] \notin {"none", "over"} => r \in cancelled'
    BY <1>4 DEF Prune, Alive
  <2>6. QED
    BY <2>2, <2>3, <2>4, <2>5, RunStands, RunMoved
<1>5. CASE CancelRun(r) \/ CancelWakes(r) \/ ShutdownWaited(r)
  <2>1. Becomes(r, record[r], task[r], creator[r]) /\ Handles(r)
    BY <1>5, RunStands DEF CancelRun, CancelWakes, ShutdownWaited, Becomes, Handles
  <2>2. cancelled \subseteq cancelled' /\ (sweep' = sweep \/ manager = "waiting")
    BY <1>5 DEF CancelRun, CancelWakes, ShutdownWaited
  <2>3. QED
    BY <2>1, <2>2, RunStands, RunMoved DEF Alive
<1>6. CASE CancelMarks(r)
  <2>1. PICK x : x = WithStatus(record[r], "cancelled")
    OBVIOUS
  <2>2. /\ x \in RunRecord /\ x.known = record[r].known /\ x.status = "cancelled"
        /\ x.log = record[r].log /\ x.settled = record[r].settled
    BY <2>1, RunStands, StatusFields
  <2>3. Becomes(r, x, task[r], creator[r]) /\ Handles(r)
    BY <1>6, <2>1, RunStands DEF CancelMarks, Becomes, Handles, WithStatus
  <2>4. Agrees(x, task[r], creator[r])
    BY <2>2, RunStands DEF Agrees
  <2>5. cancelled' = cancelled /\ sweep' = sweep
    BY <1>6 DEF CancelMarks
  <2>6. QED
    BY <2>2, <2>3, <2>4, <2>5, RunStands, RunMoved DEF Alive
<1>7. CASE ShutdownCancels(r)
  <2>1. Becomes(r, record[r], task[r], creator[r]) /\ Handles(r)
    BY <1>7, RunStands DEF ShutdownCancels, Becomes, Handles
  <2>2. task[r] \notin {"none", "over"} => r \in cancelled'
    BY <1>7 DEF ShutdownCancels, Alive
  <2>3. QED
    BY <2>1, <2>2, RunStands, RunMoved
<1>8. QED
  BY <1>1, <1>2, <1>3, <1>4, <1>5, <1>6, <1>7 DEF HandlerStep

LEMMA ExecuteKeeps ==
  ASSUME RunsInv, NEW r \in LocalRuns, ExecuteStep(r)
  PROVE  RunsInv'
<1>1. CASE AgentEmits(r)
  <2>1. PICK e \in EventKinds : record' = [record EXCEPT ![r].log = Append(@, e)]
    BY <1>1 DEF AgentEmits
  <2>2. PICK log, x : log = Append(record[r].log, e) /\ x = WithLog(record[r], log)
    OBVIOUS
  <2>3. log \in Seq(EventKinds) /\ Len(log) = Len(record[r].log) + 1
    BY <2>2, RunStands
  <2>4. /\ x \in RunRecord /\ x.known = record[r].known /\ x.status = record[r].status
        /\ x.log = log /\ x.settled = record[r].settled
    <3>1. record[r] \in RunRecord /\ log \in Seq(EventKinds) /\ x = WithLog(record[r], log)
      BY <2>2, <2>3, RunStands
    <3>2. QED
      BY <3>1, LogFields
  <2>5. Becomes(r, x, task[r], creator[r]) /\ Handles(r)
    BY <1>1, <2>1, <2>2, RunStands DEF AgentEmits, handlerVars, Becomes, Handles, WithLog
  <2>6. task[r] = "agent" /\ Len(record[r].log) < MaxEvents
    BY <1>1 DEF AgentEmits
  <2>7. Agrees(x, task[r], creator[r])
    BY <2>3, <2>4, <2>6, RunStands DEF Agrees
  <2>8. cancelled' = cancelled /\ sweep' = sweep
    BY <1>1 DEF AgentEmits, handlerVars
  <2>9. QED
    BY <2>4, <2>5, <2>7, <2>8, RunStands, RunMoved DEF Alive
<1>2. ASSUME NEW last \in {"done", "error"}, NEW next \in {"answered", "failing", "cancelling"},
             task[r] \in {"agent", "completing"},
             task' = [task EXCEPT ![r] = next],
             record' = [record EXCEPT ![r].log = Closed(@, last)],
             UNCHANGED <<cancelled, handlerVars, viewer>>
      PROVE  RunsInv'
  <2>1. PICK log : log = Closed(record[r].log, last)
    OBVIOUS
  <2>2. log \in Seq(EventKinds) /\ HasEnded(log) /\ Len(log) <= MaxEvents + 1
    <3>1. /\ log \in Seq(EventKinds) /\ HasEnded(log) /\ Len(log) <= Len(record[r].log) + 1
          /\ HasEnded(record[r].log) => log = record[r].log
      BY <2>1, RunStands, LogCloses
    <3>2. Len(log) \in Nat
      BY <3>1
    <3>3. CASE task[r] = "agent"
      BY <3>1, <3>2, <3>3, RunStands DEF Agrees
    <3>4. CASE task[r] = "completing"
      BY <3>1, <3>4, RunStands DEF Agrees
    <3>5. QED
      BY <1>2, <3>3, <3>4
  <2>3. PICK x : x = WithLog(record[r], log)
    OBVIOUS
  <2>4. /\ x \in RunRecord /\ x.known = record[r].known /\ x.status = record[r].status
        /\ x.log = log /\ x.settled = record[r].settled
    BY <2>2, <2>3, RunStands, LogFields
  <2>5. Becomes(r, x, next, creator[r]) /\ Handles(r)
    BY <1>2, <2>1, <2>3, RunStands DEF handlerVars, Becomes, Handles, WithLog
  <2>6. Agrees(x, next, creator[r]) /\ next \in TaskStates
    BY <1>2, <2>2, <2>4, RunStands DEF Agrees, TaskStates
  <2>7. Alive(r) /\ cancelled' = cancelled /\ sweep' = sweep
    BY <1>2 DEF Alive, handlerVars
  <2>8. QED
    BY <2>4, <2>5, <2>6, <2>7, RunStands, RunMoved
<1>3. CASE AgentReturns(r)
  BY <1>2, <1>3 DEF AgentReturns
<1>4. CASE Raises(r)
  BY <1>2, <1>4 DEF Raises
<1>5. CASE CancelArrives(r)
  BY <1>2, <1>5 DEF CancelArrives
<1>6. CASE SetStatus(r)
  <2>1. /\ task[r] \in {"answered", "failing", "cancelling"}
        /\ Outcome[task[r]] \in {"done", "error", "cancelled"}
    BY <1>6 DEF SetStatus, Outcome
  <2>2. PICK x, next : /\ x = WithStatus(record[r], Outcome[task[r]])
                       /\ next = IF task[r] = "answered" THEN "completing" ELSE "reporting"
    OBVIOUS
  <2>3. /\ x \in RunRecord /\ x.known = record[r].known /\ x.status # "running"
        /\ x.log = record[r].log /\ x.settled = record[r].settled
    BY <2>1, <2>2, RunStands, StatusFields
  <2>4. Becomes(r, x, next, creator[r]) /\ Handles(r)
    BY <1>6, <2>2, RunStands DEF SetStatus, handlerVars, Becomes, Handles, WithStatus
  <2>5. Agrees(x, next, creator[r]) /\ next \in TaskStates
    BY <2>1, <2>2, <2>3, RunStands DEF Agrees, TaskStates
  <2>6. Alive(r) /\ cancelled' = cancelled /\ sweep' = sweep
    BY <1>6, <2>1 DEF Alive, SetStatus, handlerVars
  <2>7. QED
    BY <2>3, <2>4, <2>5, <2>6, RunStands, RunMoved
<1>7. CASE Settle(r)
  <2>1. PICK x : x = WithSettled(record[r])
    OBVIOUS
  <2>2. /\ x \in RunRecord /\ x.known = record[r].known /\ x.status = record[r].status
        /\ x.log = record[r].log
    BY <2>1, RunStands, SettledFields
  <2>3. Becomes(r, x, "over", creator[r]) /\ Handles(r)
    BY <1>7, <2>1, RunStands DEF Settle, handlerVars, Becomes, Handles, WithSettled
  <2>4. task[r] \in {"completing", "reporting"}
    BY <1>7 DEF Settle
  <2>5. Agrees(x, "over", creator[r]) /\ "over" \in TaskStates
    BY <2>2, <2>4, RunStands DEF Agrees, TaskStates
  <2>6. QED
    BY <2>2, <2>3, <2>5, RunStands, RunMoved
<1>8. QED
  BY <1>1, <1>3, <1>4, <1>5, <1>6, <1>7 DEF ExecuteStep

\* Shutdown, and the streams, leave every run's record and task alone.
LEMMA RestKeeps ==
  ASSUME RunsInv, RunsTypeOK', UNCHANGED <<record, task, creator>>,
         \A r \in LocalRuns : RunIsReached(r) => RunIsReached(r)'
  PROVE  RunsInv'
BY DEF RunsInv, RunAgrees

ViewerRecord ==
  [pc: {"idle", "closed", "gone"} \cup Watching, run: LocalRuns, index: 0 .. MaxEvents + 1]

LEMMA ViewerFields ==
  ASSUME NEW v \in ViewerRecord
  PROVE  /\ \A pc \in {"idle", "closed", "gone"} \cup Watching : [v EXCEPT !.pc = pc] \in ViewerRecord
         /\ \A n \in 0 .. MaxEvents + 1 : [v EXCEPT !.index = n] \in ViewerRecord
BY DEF ViewerRecord

LEMMA ViewerKeeps ==
  ASSUME RunsInv, NEW c \in Viewers, OpenStream(c) \/ ViewerStep(c)
  PROVE  RunsInv'
<1>1. UNCHANGED <<record, task, cancelled, handlerVars>>
  BY DEF OpenStream, ViewerStep, LookUp, SendEvent, NoMoreEvents, LookAtStatus, WaitForEvents,
         LookAgain, View
<1>2. RunsTypeOK'
  <2>1. RunsTypeOK /\ viewer[c].run \in LocalRuns /\ viewer[c].index \in Nat /\ MaxEvents \in Nat
    BY EventBound DEF RunsInv, RunsTypeOK
  <2>2. CASE SendEvent(c)
    <3>1. viewer[c].index + 1 \in 0 .. MaxEvents + 1
      BY <2>1, <2>2, LogBound DEF SendEvent
    <3>2. viewer' \in [Viewers -> ViewerRecord]
      <4>1. /\ viewer \in [Viewers -> ViewerRecord]
            /\ [viewer[c] EXCEPT !.index = viewer[c].index + 1] \in ViewerRecord
        BY <2>1, <3>1, ViewerFields DEF RunsTypeOK, ViewerRecord
      <4>2. viewer' = [viewer EXCEPT ![c] = [viewer[c] EXCEPT !.index = viewer[c].index + 1]]
        BY <2>2 DEF SendEvent
      <4>3. QED
        BY <4>1, <4>2
    <3>3. QED
      BY <1>1, <2>1, <3>2 DEF handlerVars, RunsTypeOK, ViewerRecord
  <2>3. CASE ~SendEvent(c)
    <3>1. PICK pc \in {"closed", "gone"} \cup Watching : viewer' = [viewer EXCEPT ![c].pc = pc]
      BY <2>3 DEF OpenStream, ViewerStep, LookUp, NoMoreEvents, LookAtStatus, WaitForEvents,
                  LookAgain, View, Watching
    <3>2. viewer' \in [Viewers -> ViewerRecord]
      <4>1. /\ viewer \in [Viewers -> ViewerRecord]
            /\ [viewer[c] EXCEPT !.pc = pc] \in ViewerRecord
        BY <2>1, <3>1, ViewerFields DEF RunsTypeOK, ViewerRecord
      <4>2. viewer' = [viewer EXCEPT ![c] = [viewer[c] EXCEPT !.pc = pc]]
        BY <3>1
      <4>3. QED
        BY <4>1, <4>2
    <3>3. QED
      BY <1>1, <2>1, <3>2 DEF handlerVars, RunsTypeOK, ViewerRecord
  <2>4. QED
    BY <2>2, <2>3
<1>3. QED
  BY <1>1, <1>2, RestKeeps DEF handlerVars, RunIsReached, Alive

LEMMA ShutdownKeeps ==
  ASSUME RunsInv, Shutdown \/ ShutdownWaits \/ PortalStops
  PROVE  RunsInv'
<1>0. RunsTypeOK
  BY DEF RunsInv
<1>1. CASE Shutdown
  <2>1. RunsTypeOK'
    BY <1>0, <1>1 DEF Shutdown, RunsTypeOK, Known
  <2>2. QED
    BY <1>0, <1>1, <2>1, RestKeeps DEF Shutdown, RunIsReached, Alive, Known
<1>2. CASE ShutdownWaits
  <2>1. RunsTypeOK'
    BY <1>0, <1>2 DEF ShutdownWaits, RunsTypeOK, Known
  <2>2. QED
    BY <1>0, <1>2, <2>1, RestKeeps DEF ShutdownWaits, RunIsReached, Alive
<1>3. CASE PortalStops
  <2>1. RunsTypeOK'
    BY <1>0, <1>3 DEF PortalStops, RunsTypeOK
  <2>2. QED
    BY <1>0, <1>3, <2>1, RestKeeps DEF PortalStops, RunIsReached, Alive
<1>4. QED
  BY <1>1, <1>2, <1>3

LEMMA RunsMove == RunsInv /\ [RunsNext]_runVars => RunsInv'
<1> SUFFICES ASSUME RunsInv, [RunsNext]_runVars PROVE RunsInv'
  OBVIOUS
<1>1. CASE UNCHANGED runVars
  BY <1>1 DEF runVars, RunsInv, RunsTypeOK, RunAgrees, RunIsReached, Alive
<1>2. QED
  BY <1>1, HandlerKeeps, ExecuteKeeps, ViewerKeeps, ShutdownKeeps DEF RunsNext

LEMMA RunsHold == RunsSpec => []RunsInv
BY RunsStart, RunsMove, PTL DEF RunsSpec

\* The records, the handlers and the streams keep their types, and no stream
\* reads past a run's log.
THEOREM RunsTyped == RunsSpec => []RunsTypeOK
<1>1. RunsInv => RunsTypeOK
  BY DEF RunsInv
<1>2. QED
  BY <1>1, RunsHold, PTL

\* On each of _execute's ways out, whatever cancel_run and the pruning do
\* meanwhile, a settled run has an outcome and a terminal event.
THEOREM SettledRunsEnded == RunsSpec => []SettledRunHasEnded
<1>1. RunsInv => SettledRunHasEnded
  BY DEF RunsInv, RunAgrees, Agrees, SettledRunHasEnded
<1>2. QED
  BY <1>1, RunsHold, PTL

\* shutdown cancels whatever is running when it starts to wait: no run that a
\* handler starts, or that was pruned from the table, escapes it.
THEOREM ShutdownIsThorough == RunsSpec => []ShutdownReachesEveryRun
<1>1. RunsInv => ShutdownReachesEveryRun
  BY DEF RunsInv, RunIsReached, ShutdownReachesEveryRun
<1>2. QED
  BY <1>1, RunsHold, PTL

-----------------------------------------------------------------------------
(* ProcessRegistry. *)

JobStates == {"none", "running", "exited", "sending", "reaped"}

RegistryInv ==
  /\ job \in [Jobs -> JobStates]
  /\ completions \in Seq(Jobs) /\ senders \in Seq(Jobs)
  /\ wanted \subseteq Jobs /\ received \subseteq Jobs
  /\ \A p \in wanted : job[p] # "none"
  /\ \A i \in DOMAIN completions :
       completions[i] \in wanted \ received /\ job[completions[i]] = "reaped"
  /\ \A i \in DOMAIN senders : senders[i] \in wanted \ received /\ job[senders[i]] = "sending"
  /\ \A i, j \in DOMAIN completions : completions[i] = completions[j] => i = j
  /\ \A i, j \in DOMAIN senders : senders[i] = senders[j] => i = j
  /\ \A p \in received : job[p] = "reaped"
  /\ \A p \in wanted : job[p] = "reaped" => p \in Announced \cup received

LEMMA RegistryStarts == RegistryInit => RegistryInv
<1> SUFFICES ASSUME RegistryInit PROVE RegistryInv
  OBVIOUS
<1>1. /\ completions = <<>> /\ senders = <<>> /\ DOMAIN completions = {} /\ DOMAIN senders = {}
      /\ completions \in Seq(Jobs) /\ senders \in Seq(Jobs)
  BY DEF RegistryInit
<1>2. QED
  BY <1>1 DEF RegistryInit, RegistryInv, JobStates

\* What the stream and the line of its senders look like after a step.
LEMMA Behind ==
  ASSUME NEW S, NEW s \in Seq(S), NEW e \in S
  PROVE  /\ Append(s, e) \in Seq(S)
         /\ DOMAIN s = 1 .. Len(s) /\ Len(s) \in Nat
         /\ DOMAIN Append(s, e) = 1 .. Len(s) + 1
         /\ \A i \in 1 .. Len(s) : Append(s, e)[i] = s[i]
         /\ Append(s, e)[Len(s) + 1] = e
OBVIOUS

LEMMA Front ==
  ASSUME NEW S, NEW s \in Seq(S), s # <<>>
  PROVE  /\ Tail(s) \in Seq(S) /\ Head(s) = s[1] /\ s[1] \in S
         /\ Len(s) \in Nat \ {0} /\ DOMAIN s = 1 .. Len(s)
         /\ Len(Tail(s)) = Len(s) - 1
         /\ DOMAIN Tail(s) = 1 .. Len(s) - 1
         /\ \A i \in 1 .. Len(s) - 1 : Tail(s)[i] = s[i + 1]
OBVIOUS

LEMMA JoinOne ==
  ASSUME NEW S, NEW s \in Seq(S), NEW e \in S
  PROVE  /\ s \o <<e>> \in Seq(S) /\ Len(s) \in Nat
         /\ Len(s \o <<e>>) = Len(s) + 1 /\ DOMAIN (s \o <<e>>) = 1 .. Len(s) + 1
         /\ \A i \in 1 .. Len(s) : (s \o <<e>>)[i] = s[i]
         /\ (s \o <<e>>)[Len(s) + 1] = e
OBVIOUS

LEMMA AppendKeeps ==
  ASSUME RegistryInv, NEW p \in Jobs, job[p] = "exited", p \in wanted,
         \/ /\ job' = [job EXCEPT ![p] = "sending"]
            /\ senders' = Append(senders, p) /\ completions' = completions
         \/ /\ job' = [job EXCEPT ![p] = "reaped"]
            /\ completions' = Append(completions, p) /\ senders' = senders,
         UNCHANGED <<wanted, received>>
  PROVE  RegistryInv'
<1>1. p \notin received
  BY DEF RegistryInv
<1>2. job' \in [Jobs -> JobStates] /\ \A q \in Jobs : q # p => job'[q] = job[q]
  BY DEF RegistryInv, JobStates
<1>3. /\ \A i \in DOMAIN completions : completions[i] # p
      /\ \A i \in DOMAIN senders : senders[i] # p
  BY DEF RegistryInv
<1>4. CASE senders' = Append(senders, p) /\ completions' = completions /\ job'[p] = "sending"
  <2>1. /\ senders' \in Seq(Jobs) /\ DOMAIN senders = 1 .. Len(senders) /\ Len(senders) \in Nat
        /\ DOMAIN senders' = 1 .. Len(senders) + 1
        /\ \A i \in 1 .. Len(senders) : senders'[i] = senders[i]
        /\ senders'[Len(senders) + 1] = p
    BY <1>4, Behind DEF RegistryInv
  <2>2. \A i \in DOMAIN senders' : i \in DOMAIN senders \/ i = Len(senders) + 1
    BY <2>1
  <2>3. /\ \A i \in DOMAIN senders' : senders'[i] \in wanted \ received /\ job'[senders'[i]] = "sending"
        /\ \A i, j \in DOMAIN senders' : senders'[i] = senders'[j] => i = j
    BY <1>1, <1>2, <1>3, <1>4, <2>1, <2>2 DEF RegistryInv
  <2>4. QED
    BY <1>2, <1>3, <1>4, <2>1, <2>3 DEF RegistryInv, Announced
<1>5. CASE completions' = Append(completions, p) /\ senders' = senders /\ job'[p] = "reaped"
  <2>1. /\ completions' \in Seq(Jobs) /\ DOMAIN completions = 1 .. Len(completions)
        /\ Len(completions) \in Nat /\ Len(completions') = Len(completions) + 1
        /\ DOMAIN completions' = 1 .. Len(completions) + 1
        /\ \A i \in 1 .. Len(completions) : completions'[i] = completions[i]
        /\ completions'[Len(completions) + 1] = p
    BY <1>5, Behind DEF RegistryInv
  <2>2. \A i \in DOMAIN completions' : i \in DOMAIN completions \/ i = Len(completions) + 1
    BY <2>1
  <2>3. /\ \A i \in DOMAIN completions' :
             completions'[i] \in wanted \ received /\ job'[completions'[i]] = "reaped"
        /\ \A i, j \in DOMAIN completions' : completions'[i] = completions'[j] => i = j
    BY <1>1, <1>2, <1>3, <1>5, <2>1, <2>2 DEF RegistryInv
  <2>4. Announced' = Announced \cup {p}
    BY <2>1, <2>2 DEF Announced
  <2>5. QED
    BY <1>2, <1>3, <1>5, <2>1, <2>3, <2>4 DEF RegistryInv
<1>6. QED
  BY <1>4, <1>5 DEF RegistryInv

LEMMA RegistryStepKeeps ==
  ASSUME RegistryInv, RegistryStep
  PROVE  RegistryInv'
<1>1. CASE PruneExited
  BY <1>1 DEF PruneExited, RegistryInv, Announced
<1>2. ASSUME NEW p \in Jobs, Spawn(p) PROVE RegistryInv'
  BY <1>2 DEF Spawn, RegistryInv, Announced, JobStates
<1>3. ASSUME NEW p \in Jobs, Exit(p) PROVE RegistryInv'
  BY <1>3 DEF Exit, RegistryInv, Announced, JobStates
<1>4. ASSUME NEW p \in Jobs, Reap(p) PROVE RegistryInv'
  <2>1. CASE p \in wanted
    BY <1>4, <2>1, AppendKeeps DEF Reap
  <2>2. CASE p \notin wanted
    BY <1>4, <2>2 DEF Reap, RegistryInv, Announced, JobStates
  <2>3. QED
    BY <2>1, <2>2
<1>5. QED
  BY <1>1, <1>2, <1>3, <1>4 DEF RegistryStep

LEMMA ReceiveKeeps ==
  ASSUME RegistryInv, NEW p \in Jobs, Receive(p)
  PROVE  RegistryInv' /\ p \notin received /\ received' = received \cup {p}
<1>1. /\ Tail(completions) \in Seq(Jobs) /\ completions[1] = p
      /\ Len(completions) \in Nat \ {0} /\ DOMAIN completions = 1 .. Len(completions)
      /\ Len(Tail(completions)) = Len(completions) - 1
      /\ DOMAIN Tail(completions) = 1 .. Len(completions) - 1
      /\ \A i \in 1 .. Len(completions) - 1 : Tail(completions)[i] = completions[i + 1]
  BY Front DEF Receive, RegistryInv
<1>2. p \in wanted \ received /\ job[p] = "reaped"
  BY <1>1 DEF RegistryInv
<1> DEFINE rest == Tail(completions)
<1>3. /\ \A i \in DOMAIN rest :
           rest[i] \in wanted \ received /\ rest[i] # p /\ job[rest[i]] = "reaped"
      /\ \A i, j \in DOMAIN rest : rest[i] = rest[j] => i = j
      /\ Announced = {p} \cup {rest[i] : i \in DOMAIN rest}
  <2>1. \A i \in DOMAIN rest : i + 1 \in DOMAIN completions /\ i + 1 # 1
    BY <1>1
  <2>2. \A i \in DOMAIN completions : i = 1 \/ i - 1 \in DOMAIN rest
    BY <1>1
  <2>3. \A i \in DOMAIN completions : i # 1 => rest[i - 1] = completions[i]
    BY <1>1, <2>2
  <2>4. /\ \A i \in DOMAIN rest :
             rest[i] \in wanted \ received /\ rest[i] # p /\ job[rest[i]] = "reaped"
        /\ \A i, j \in DOMAIN rest : rest[i] = rest[j] => i = j
    BY <1>1, <2>1 DEF RegistryInv
  <2>5. Announced = {p} \cup {rest[i] : i \in DOMAIN rest}
    BY <1>1, <2>1, <2>2, <2>3 DEF Announced
  <2>6. QED
    BY <2>4, <2>5
<1>4. CASE senders = <<>>
  <2>1. completions' = rest /\ senders' = senders /\ job' = job
    <3>1. completions' = rest \o <<>> /\ senders' = senders
      BY <1>4 DEF Receive
    <3>2. job' = [q \in Jobs |-> job[q]]
      BY <1>4 DEF Receive
    <3>3. QED
      BY <1>1, <3>1, <3>2 DEF RegistryInv
  <2>2. Announced' = {rest[i] : i \in DOMAIN rest}
    BY <1>1, <2>1 DEF Announced
  <2>3. QED
    BY <1>1, <1>2, <1>3, <2>1, <2>2 DEF Receive, RegistryInv
<1>5. CASE senders # <<>>
  <2> DEFINE s == Head(senders)
  <2>1. /\ Tail(senders) \in Seq(Jobs) /\ s = senders[1] /\ s \in Jobs
        /\ Len(senders) \in Nat \ {0} /\ DOMAIN senders = 1 .. Len(senders)
        /\ DOMAIN Tail(senders) = 1 .. Len(senders) - 1
        /\ \A i \in 1 .. Len(senders) - 1 : Tail(senders)[i] = senders[i + 1]
    BY <1>5, Front DEF RegistryInv
  <2>2. completions' = rest \o <<s>> /\ senders' = Tail(senders)
    BY <1>5 DEF Receive
  <2>3. job' = [job EXCEPT ![s] = "reaped"]
    <3>1. job' = [q \in Jobs |-> IF <<q>> = <<s>> THEN "reaped" ELSE job[q]]
      BY <1>5 DEF Receive
    <3>2. \A q \in Jobs : <<q>> = <<s>> <=> q = s
      OBVIOUS
    <3>3. QED
      BY <2>1, <3>1, <3>2 DEF RegistryInv
  <2>4. s \in wanted \ received /\ job[s] = "sending"
    BY <2>1 DEF RegistryInv
  <2>5. \A i \in DOMAIN Tail(senders) : i + 1 \in DOMAIN senders /\ i + 1 # 1
    BY <2>1
  <2>6. /\ \A i \in DOMAIN senders' :
             senders'[i] \in wanted \ received /\ senders'[i] # s /\ job[senders'[i]] = "sending"
        /\ \A i, j \in DOMAIN senders' : senders'[i] = senders'[j] => i = j
    <3>1. /\ \A i \in DOMAIN senders : senders[i] \in wanted \ received /\ job[senders[i]] = "sending"
          /\ \A i, j \in DOMAIN senders : senders[i] = senders[j] => i = j
          /\ 1 \in DOMAIN senders
      BY <2>1 DEF RegistryInv
    <3>2. \A i \in DOMAIN senders' : senders'[i] = senders[i + 1]
      BY <2>1, <2>2
    <3>3. \A i, j \in DOMAIN senders' : i + 1 = j + 1 => i = j
      BY <2>1, <2>2
    <3>4. \A i \in DOMAIN senders' : i + 1 \in DOMAIN senders /\ i + 1 # 1
      BY <2>2, <2>5
    <3>5. s = senders[1]
      BY <2>1
    <3> HIDE DEF s
    <3>6. QED
      BY <3>1, <3>2, <3>3, <3>4, <3>5
  <2>7. /\ completions' \in Seq(Jobs) /\ Len(completions') = Len(completions)
        /\ DOMAIN completions' = 1 .. Len(completions)
        /\ \A i \in DOMAIN rest : completions'[i] = rest[i]
        /\ completions'[Len(completions)] = s
    <3>1. rest \in Seq(Jobs) /\ s \in Jobs /\ Len(completions) = Len(rest) + 1
          /\ DOMAIN rest = 1 .. Len(rest)
      BY <1>1, <2>1
    <3>2. completions' = rest \o <<s>>
      BY <2>2
    <3> HIDE DEF rest, s
    <3>3. QED
      BY <3>1, <3>2, JoinOne
  <2>8. \A i \in DOMAIN completions' : i \in DOMAIN rest \/ i = Len(completions)
    BY <1>1, <2>7
  <2>9. /\ \A i \in DOMAIN completions' :
             completions'[i] \in wanted \ received /\ completions'[i] # p
             /\ job'[completions'[i]] = "reaped"
        /\ \A i, j \in DOMAIN completions' : completions'[i] = completions'[j] => i = j
    <3>1. \A i \in DOMAIN rest : rest[i] # s
      BY <1>3, <2>4
    <3>2. /\ p # s /\ job'[s] = "reaped"
          /\ \A q \in Jobs : q # s => job'[q] = job[q]
      BY <1>2, <2>1, <2>3, <2>4 DEF RegistryInv
    <3>3. \A i \in DOMAIN rest : rest[i] \in Jobs
      BY <1>3 DEF RegistryInv
    <3> HIDE DEF rest, s
    <3>4. QED
      BY <1>3, <2>4, <2>7, <2>8, <3>1, <3>2, <3>3
  <2>10. Announced' = {s} \cup {rest[i] : i \in DOMAIN rest}
    <3>1. /\ DOMAIN rest \subseteq DOMAIN completions' /\ Len(completions) \in DOMAIN completions'
          /\ DOMAIN completions' = 1 .. Len(completions')
      BY <1>1, <2>7
    <3> HIDE DEF rest, s
    <3>2. QED
      BY <2>7, <2>8, <3>1 DEF Announced
  <2>11. QED
    <3>1. /\ received' = received \cup {p} /\ UNCHANGED wanted
      BY DEF Receive
    <3>2. /\ job' \in [Jobs -> JobStates] /\ \A q \in Jobs : q # s => job'[q] = job[q]
          /\ job'[s] = "reaped"
      BY <2>1, <2>3 DEF RegistryInv, JobStates
    <3>3. p # s
      BY <1>2, <2>4
    <3>4. \A i \in DOMAIN senders' :
            senders'[i] \in wanted' \ received' /\ job'[senders'[i]] = "sending"
      BY <1>2, <2>6, <3>1, <3>2 DEF RegistryInv
    <3>5. \A q \in wanted' : job'[q] = "reaped" => q \in Announced' \cup received'
      BY <1>3, <2>10, <3>1, <3>2 DEF RegistryInv
    <3>6. \A q \in received' : job'[q] = "reaped"
      BY <1>2, <3>1, <3>2, <3>3 DEF RegistryInv
    <3>7. \A q \in wanted' : job'[q] # "none"
      BY <3>1, <3>2 DEF RegistryInv
    <3>8. /\ \A i \in DOMAIN completions' :
               completions'[i] \in wanted' \ received' /\ job'[completions'[i]] = "reaped"
          /\ wanted' \subseteq Jobs /\ received' \subseteq Jobs
      BY <2>9, <3>1 DEF RegistryInv
    <3>9. senders' \in Seq(Jobs)
      BY <2>1, <2>2
    <3>10. /\ \A i, j \in DOMAIN completions' : completions'[i] = completions'[j] => i = j
           /\ \A i, j \in DOMAIN senders' : senders'[i] = senders'[j] => i = j
           /\ completions' \in Seq(Jobs) /\ job' \in [Jobs -> JobStates]
      BY <2>6, <2>7, <2>9, <3>2
    <3> HIDE DEF rest, s
    <3>11. QED
      BY <1>2, <3>1, <3>4, <3>5, <3>6, <3>7, <3>8, <3>9, <3>10 DEF RegistryInv
<1>6. QED
  BY <1>2, <1>4, <1>5 DEF Receive

LEMMA RegistryMoves ==
  ASSUME RegistryInv, [GatewayNext]_gatewayVars
  PROVE  RegistryInv'
<1>1. CASE UNCHANGED registryVars
  BY <1>1 DEF registryVars, RegistryInv, Announced
<1>2. ASSUME NEW p \in Jobs, WatcherTakes(p) PROVE RegistryInv'
  BY <1>2, ReceiveKeeps DEF WatcherTakes
<1>3. CASE RegistryStep
  BY <1>3, RegistryStepKeeps
<1>4. QED
  BY <1>1, <1>2, <1>3
     DEF GatewayNext, MessageComes, EventStep, Webhook, QueueCommand, ResetCommand, SpawnedRuns,
         Finish, RunBreaks, Drain, ReplyBreaks, AdapterComesOrGoes, gatewayVars

\* However full the stream is and whatever prunes the table, a process that asked
\* for it is announced once when its reaper is done (AsyncProcessRegistry._reap).
THEOREM ExitsAreAnnounced == GatewaySpec => []ReapedMeansAnnounced
<1>1. GatewayInit => RegistryInv
  BY RegistryStarts DEF GatewayInit
<1>2. RegistryInv => ReapedMeansAnnounced
  <2> SUFFICES ASSUME RegistryInv PROVE ReapedMeansAnnounced
    OBVIOUS
  <2>1. DOMAIN completions = 1 .. Len(completions)
    BY DEF RegistryInv
  <2>2. \A p \in Announced : p \notin received /\ p \in wanted
    BY <2>1 DEF RegistryInv, Announced
  <2>3. QED
    BY <2>1, <2>2 DEF RegistryInv, ReapedMeansAnnounced
<1>3. QED
  BY <1>1, <1>2, RegistryMoves, PTL DEF GatewaySpec

-----------------------------------------------------------------------------
(* GatewayRunner. *)

Started == {"running", "replying", "handled"}

\* A line s of messages that all stand in a state, each of them once, the ranked
\* ones by rank.
Line(s, state, of, ranks) ==
  /\ s \in Seq(Messages)
  /\ \A i \in DOMAIN s : of[s[i]] = state
  /\ \A m \in Messages : of[m] = state => \E i \in DOMAIN s : s[i] = m
  /\ \A i, j \in DOMAIN s : i < j =>
       s[i] # s[j] /\ (ranks[s[i]] > 0 /\ ranks[s[j]] > 0 => ranks[s[i]] < ranks[s[j]])

\* A completion that has not been received is no message yet, and only what was
\* queued has a rank.
Ranked(m) ==
  /\ m \in Jobs \ received => msg[m] = "new"
  /\ msg[m] \in {"new", "spawned"} => rank[m] = 0
  /\ msg[m] = "queued" => rank[m] > 0

\* Who has left the queue was in front of those that are in it; who has started,
\* in front of those that wait for the lock.
InFront(m, n) ==
  0 < rank[m] /\ 0 < rank[n] =>
    /\ rank[m] = rank[n] => m = n
    /\ msg[m] # "queued" /\ msg[n] = "queued" => rank[m] < rank[n]
    /\ msg[m] \in Started /\ msg[n] = "waiting" => rank[m] < rank[n]

OrderInv ==
  /\ msg \in [Messages -> MessageStates]
  /\ rank \in [Messages -> Nat]
  /\ holder \in Messages \cup {NoMessage}
  /\ Free => waiters = <<>>
  /\ Line(pending, "queued", msg, rank)
  /\ Line(waiters, "waiting", msg, rank)
  /\ \A m \in Messages : Ranked(m)
  /\ \A m, n \in Messages : InFront(m, n)
  /\ Messages # {} => \E m \in Messages : \A n \in Messages : rank[n] <= rank[m]

LEMMA OrderStarts == GatewayInit => OrderInv
<1> SUFFICES ASSUME GatewayInit PROVE OrderInv
  OBVIOUS
<1>1. /\ pending = <<>> /\ waiters = <<>> /\ DOMAIN pending = {} /\ DOMAIN waiters = {}
      /\ pending \in Seq(Messages) /\ waiters \in Seq(Messages)
  BY DEF GatewayInit
<1>2. \A m \in Messages : msg[m] = "new" /\ rank[m] = 0
  BY DEF GatewayInit
<1>3. msg \in [Messages -> MessageStates] /\ rank \in [Messages -> Nat]
      /\ holder \in Messages \cup {NoMessage}
  BY DEF GatewayInit, MessageStates
<1>4. QED
  BY <1>1, <1>2, <1>3 DEF OrderInv, Line, Ranked, InFront

\* The end of a line: one more, whose rank is none or the greatest.
LEMMA LineGrows ==
  ASSUME NEW s, NEW state, NEW of, NEW of2, NEW ranks, NEW ranks2, NEW m \in Messages,
         Line(s, state, of, ranks), of[m] # state, of2[m] = state,
         ranks2[m] = 0 \/ \A n \in Messages : of[n] = state => ranks[n] < ranks2[m],
         \A n \in Messages : n # m => ranks2[n] = ranks[n] /\ (of2[n] = state <=> of[n] = state)
  PROVE  Line(Append(s, m), state, of2, ranks2)
<1> DEFINE t == Append(s, m)
<1>1. /\ t \in Seq(Messages) /\ DOMAIN s = 1 .. Len(s) /\ Len(s) \in Nat
      /\ DOMAIN t = 1 .. Len(s) + 1
      /\ \A i \in DOMAIN s : t[i] = s[i]
      /\ t[Len(s) + 1] = m
  BY Behind DEF Line
<1>2. /\ \A i \in DOMAIN t : i \in DOMAIN s \/ i = Len(s) + 1
      /\ \A i \in DOMAIN s : i \in DOMAIN t /\ ~(Len(s) + 1 < i)
      /\ Len(s) + 1 \in DOMAIN t /\ ~(Len(s) + 1 < Len(s) + 1)
  BY <1>1
<1>3. \A i \in DOMAIN s : s[i] \in Messages /\ s[i] # m /\ of2[s[i]] = state /\ of[s[i]] = state
  BY DEF Line
<1> HIDE DEF t
<1>4. \A i \in DOMAIN t : of2[t[i]] = state
  BY <1>1, <1>2, <1>3
<1>5. \A n \in Messages : of2[n] = state => \E i \in DOMAIN t : t[i] = n
  BY <1>1, <1>2 DEF Line
<1>6. ASSUME NEW i \in DOMAIN t, NEW j \in DOMAIN t, i < j
      PROVE  t[i] # t[j] /\ (ranks2[t[i]] > 0 /\ ranks2[t[j]] > 0 => ranks2[t[i]] < ranks2[t[j]])
  <2>1. i \in DOMAIN s /\ t[i] = s[i] /\ ranks2[t[i]] = ranks[s[i]]
    BY <1>1, <1>2, <1>3, <1>6
  <2>2. CASE j \in DOMAIN s
    BY <1>1, <1>3, <1>6, <2>1, <2>2 DEF Line
  <2>3. CASE j = Len(s) + 1
    BY <1>1, <1>3, <2>1, <2>3
  <2>4. QED
    BY <1>2, <2>2, <2>3
<1>7. QED
  BY <1>1, <1>4, <1>5, <1>6 DEF Line, t

\* The first leaves a line.
LEMMA LineMoves ==
  ASSUME NEW s, NEW state, NEW of, NEW of2, NEW ranks, s # <<>>,
         Line(s, state, of, ranks), of2[Head(s)] # state,
         \A n \in Messages : n # Head(s) => (of2[n] = state <=> of[n] = state)
  PROVE  Line(Tail(s), state, of2, ranks)
<1> DEFINE t == Tail(s)
           m == Head(s)
<1>1. /\ t \in Seq(Messages) /\ m = s[1] /\ DOMAIN s = 1 .. Len(s) /\ Len(s) \in Nat \ {0}
      /\ DOMAIN t = 1 .. Len(s) - 1
      /\ \A i \in DOMAIN t : t[i] = s[i + 1]
  BY Front DEF Line
<1>2. /\ \A i \in DOMAIN t : i + 1 \in DOMAIN s /\ 1 < i + 1
      /\ \A i \in DOMAIN s : i = 1 \/ (i - 1 \in DOMAIN t /\ i - 1 + 1 = i)
      /\ 1 \in DOMAIN s
      /\ \A i, j \in DOMAIN t : i < j => i + 1 < j + 1
  BY <1>1
<1> HIDE DEF t, m
<1>3. \A i \in DOMAIN t : t[i] \in Messages /\ t[i] # m /\ of[t[i]] = state
  BY <1>1, <1>2 DEF Line
<1>4. \A i \in DOMAIN t : of2[t[i]] = state
  BY <1>3 DEF m
<1>5. \A n \in Messages : of2[n] = state => \E i \in DOMAIN t : t[i] = n
  <2> TAKE n \in Messages
  <2> HAVE of2[n] = state
  <2>1. n # m /\ of[n] = state
    BY DEF m
  <2>2. PICK i \in DOMAIN s : s[i] = n
    BY <2>1 DEF Line
  <2>3. i # 1 /\ i - 1 \in DOMAIN t /\ i - 1 + 1 = i
    BY <1>1, <1>2, <2>1, <2>2
  <2>4. t[i - 1] = n
    BY <1>1, <2>2, <2>3
  <2>5. QED
    BY <2>3, <2>4
<1>6. \A i, j \in DOMAIN t : i < j =>
        t[i] # t[j] /\ (ranks[t[i]] > 0 /\ ranks[t[j]] > 0 => ranks[t[i]] < ranks[t[j]])
  BY <1>1, <1>2 DEF Line
<1>7. QED
  BY <1>1, <1>4, <1>5, <1>6 DEF Line, t

\* Nobody comes to a line or leaves it.
LEMMA LineStays ==
  ASSUME NEW s, NEW state, NEW of, NEW of2, NEW ranks, NEW ranks2,
         Line(s, state, of, ranks),
         \A n \in Messages : (of2[n] = state <=> of[n] = state)
                             /\ (of[n] = state => ranks2[n] = ranks[n])
  PROVE  Line(s, state, of2, ranks2)
<1>1. \A i \in DOMAIN s : s[i] \in Messages /\ of2[s[i]] = state /\ ranks2[s[i]] = ranks[s[i]]
  BY DEF Line
<1>2. QED
  BY <1>1 DEF Line

\* The first of the ranked in a line has the least rank in it.
LEMMA FirstIsLeast ==
  ASSUME NEW s, NEW state, NEW of, NEW ranks, s # <<>>, Line(s, state, of, ranks),
         NEW n \in Messages, of[n] = state, n # Head(s),
         ranks[n] > 0, ranks[Head(s)] > 0
  PROVE  ranks[Head(s)] < ranks[n]
<1>1. /\ Head(s) = s[1] /\ DOMAIN s = 1 .. Len(s) /\ Len(s) \in Nat \ {0}
  BY Front DEF Line
<1>2. PICK i \in DOMAIN s : s[i] = n
  BY DEF Line
<1>3. 1 < i /\ 1 \in DOMAIN s
  BY <1>1, <1>2
<1>4. QED
  BY <1>1, <1>2, <1>3 DEF Line

\* A message that comes while the lock is taken.
LEMMA EnqueueKeeps ==
  ASSUME OrderInv, NEW m \in Messages, msg[m] = "new", Enqueue(m),
         received \subseteq received', m \notin Jobs \ received'
  PROVE  OrderInv'
<1>1. PICK k \in Messages : \A n \in Messages : rank[n] <= rank[k]
  BY DEF OrderInv
<1> DEFINE top == CHOOSE n \in {rank[j] : j \in Messages} : \A j \in Messages : rank[j] <= n
<1>2. top \in Nat /\ \A n \in Messages : rank[n] <= top
  <2>1. rank[k] \in {rank[j] : j \in Messages} /\ \A n \in Messages : rank[n] <= rank[k]
    BY <1>1
  <2>2. top \in {rank[j] : j \in Messages} /\ \A n \in Messages : rank[n] <= top
    BY <2>1
  <2>3. QED
    BY <2>2 DEF OrderInv
<1>3. /\ msg' = [msg EXCEPT ![m] = "queued"] /\ pending' = Append(pending, m)
      /\ rank' = [rank EXCEPT ![m] = 1 + top] /\ UNCHANGED <<holder, waiters>>
  BY DEF Enqueue
<1> HIDE DEF top
<1>4. /\ msg \in [Messages -> MessageStates] /\ rank \in [Messages -> Nat]
      /\ \A n \in Messages : Ranked(n)
  BY DEF OrderInv
<1>5. /\ msg'[m] = "queued" /\ rank'[m] = 1 + top
      /\ \A n \in Messages : n # m => msg'[n] = msg[n] /\ rank'[n] = rank[n]
      /\ \A n \in Messages : n # m => rank'[n] < rank'[m]
  BY <1>2, <1>3, <1>4
<1>6. msg' \in [Messages -> MessageStates] /\ rank' \in [Messages -> Nat]
  BY <1>2, <1>3, <1>4 DEF MessageStates
<1>7. Line(pending', "queued", msg', rank')
  <2>1. \A n \in Messages : msg[n] = "queued" => rank[n] < rank'[m]
    BY <1>2, <1>4, <1>5
  <2>2. QED
    BY <1>3, <1>5, <2>1, LineGrows DEF OrderInv
<1>8. Line(waiters', "waiting", msg', rank')
  BY <1>3, <1>5, LineStays DEF OrderInv
<1>9. \A n \in Messages : Ranked(n)'
  BY <1>2, <1>4, <1>5 DEF Ranked
<1>10. ASSUME NEW a \in Messages, NEW b \in Messages PROVE InFront(a, b)'
  <2>1. InFront(a, b) /\ rank[a] \in Nat /\ rank[b] \in Nat
    BY <1>4 DEF OrderInv
  <2>2. CASE a = m
    BY <1>5, <1>6, <2>1, <2>2 DEF InFront, Started
  <2>3. CASE b = m /\ a # m
    BY <1>5, <1>6, <2>1, <2>3 DEF InFront, Started
  <2>4. CASE a # m /\ b # m
    BY <1>5, <2>1, <2>4 DEF InFront
  <2>5. QED
    BY <2>2, <2>3, <2>4
<1>11. \A n \in Messages : rank'[n] <= rank'[m]
  BY <1>5, <1>6
<1>12. QED
  BY <1>3, <1>6, <1>7, <1>8, <1>9, <1>10, <1>11 DEF OrderInv, Free

\* A message asks for the lock: one that was not queued, or the first of the
\* queue, as those before it are handled.
LEMMA AcquireKeeps ==
  ASSUME OrderInv, NEW m \in Messages, NEW others \in [Messages -> MessageStates],
         \A n \in Messages : others[n] = msg[n] \/ (msg[n] = "replying" /\ others[n] = "handled"),
         \/ msg[m] \in {"new", "spawned"} /\ UNCHANGED pending
         \/ pending # <<>> /\ m = Head(pending) /\ pending' = Tail(pending),
         Acquire(m, others), UNCHANGED rank,
         received' = received, m \notin Jobs \ received
  PROVE  OrderInv'
<1>1. /\ msg \in [Messages -> MessageStates] /\ rank \in [Messages -> Nat]
      /\ \A n \in Messages : Ranked(n)
      /\ Line(pending, "queued", msg, rank) /\ Line(waiters, "waiting", msg, rank)
  BY DEF OrderInv
<1>2. \/ msg[m] \in {"new", "spawned"} /\ rank[m] = 0
      \/ msg[m] = "queued" /\ rank[m] > 0
  <2>1. CASE msg[m] \in {"new", "spawned"}
    BY <1>1, <2>1 DEF Ranked
  <2>2. CASE pending # <<>> /\ m = Head(pending)
    <3>1. m = pending[1] /\ 1 \in DOMAIN pending
      BY <1>1, <2>2, Front DEF Line
    <3>2. QED
      BY <1>1, <3>1 DEF Line, Ranked
  <2>3. QED
    BY <2>1, <2>2
<1>3. /\ msg' = [others EXCEPT ![m] = IF Free THEN "running" ELSE "waiting"]
      /\ Free => waiters' = waiters /\ holder' = m
      /\ ~Free => waiters' = Append(waiters, m) /\ holder' = holder
  BY DEF Acquire
<1>4. /\ msg' \in [Messages -> MessageStates]
      /\ msg'[m] = IF Free THEN "running" ELSE "waiting"
      /\ \A n \in Messages : n # m => msg'[n] = others[n]
  BY <1>3 DEF MessageStates, InFlight
<1>5. \A n \in Messages : n # m =>
        /\ msg'[n] = "queued" <=> msg[n] = "queued"
        /\ msg'[n] = "waiting" <=> msg[n] = "waiting"
        /\ msg'[n] \in Started <=> msg[n] \in Started
        /\ msg'[n] \in {"new", "spawned"} => msg[n] = msg'[n]
        /\ msg[n] = "new" => msg'[n] = "new"
  BY <1>4 DEF Started
<1>6. Line(pending', "queued", msg', rank')
  <2>1. CASE pending # <<>> /\ m = Head(pending) /\ pending' = Tail(pending)
    <3>1. msg'[m] # "queued"
      BY <1>4
    <3>2. QED
      BY <1>1, <1>5, <2>1, <3>1, LineMoves
  <2>2. CASE msg[m] \in {"new", "spawned"} /\ UNCHANGED pending
    <3>1. msg'[m] # "queued" /\ msg[m] # "queued"
      BY <1>4, <2>2
    <3>2. QED
      BY <1>1, <1>5, <2>2, <3>1, LineStays
  <2>3. QED
    BY <2>1, <2>2
<1>7. \A n \in Messages : msg[n] = "waiting" /\ rank[n] > 0 /\ rank[m] > 0 => rank[n] < rank[m]
  BY <1>2 DEF OrderInv, InFront
<1>8. Line(waiters', "waiting", msg', rank')
  <2>1. CASE Free
    <3>1. msg'[m] # "waiting" /\ msg[m] # "waiting"
      BY <1>2, <1>4, <2>1
    <3>2. waiters' = waiters /\ rank' = rank
      BY <1>3, <2>1
    <3>3. \A n \in Messages : msg'[n] = "waiting" <=> msg[n] = "waiting"
      BY <1>5, <3>1
    <3>4. QED
      BY <1>1, <3>2, <3>3, LineStays
  <2>2. CASE ~Free
    <3>1. msg'[m] = "waiting" /\ msg[m] # "waiting"
      BY <1>2, <1>4, <2>2
    <3>2. rank'[m] = 0 \/ \A n \in Messages : msg[n] = "waiting" => rank[n] < rank'[m]
      BY <1>1, <1>7
    <3>3. waiters' = Append(waiters, m) /\ rank' = rank
      BY <1>3, <2>2
    <3>4. \A n \in Messages : n # m => (msg'[n] = "waiting" <=> msg[n] = "waiting")
      BY <1>5
    <3>5. QED
      BY <1>1, <3>1, <3>2, <3>3, <3>4, LineGrows
  <2>3. QED
    BY <2>1, <2>2
<1>9. \A n \in Messages : Ranked(n)'
  <2>1. Ranked(m)'
    BY <1>4 DEF Ranked
  <2>2. QED
    BY <1>1, <1>5, <2>1 DEF Ranked
<1>10. ASSUME NEW a \in Messages, NEW b \in Messages PROVE InFront(a, b)'
  <2>1. InFront(a, b) /\ InFront(b, a)
    BY DEF OrderInv
  <2>2. CASE a # m /\ b # m
    BY <1>5, <2>1, <2>2 DEF InFront
  <2>3. CASE a = m /\ b = m
    BY <1>4, <2>3 DEF InFront, Started
  <2>4. CASE a = m /\ b # m
    <3>1. msg'[a] \in Started => Free
      BY <1>4, <2>4 DEF Started
    <3>2. Free => msg[b] # "waiting"
      BY <1>1 DEF OrderInv, Line
    <3>3. 0 < rank[a] /\ 0 < rank[b] /\ msg[b] = "queued" => rank[a] < rank[b]
      <4>1. CASE pending # <<>> /\ m = Head(pending)
        BY <1>1, <2>4, <4>1, FirstIsLeast
      <4>2. CASE msg[m] \in {"new", "spawned"}
        BY <1>2, <2>4, <4>2
      <4>3. QED
        BY <4>1, <4>2
    <3>4. /\ msg'[b] = "queued" <=> msg[b] = "queued"
          /\ msg'[b] = "waiting" <=> msg[b] = "waiting"
      BY <1>5, <2>4
    <3>5. rank' = rank /\ (rank[a] = rank[b] /\ 0 < rank[a] => a = b)
      BY <2>1 DEF InFront
    <3>6. QED
      BY <3>1, <3>2, <3>3, <3>4, <3>5 DEF InFront
  <2>5. CASE a # m /\ b = m
    <3>1. msg'[b] # "queued"
      BY <1>4, <2>5
    <3>2. 0 < rank[a] /\ 0 < rank[b] /\ msg'[a] \in Started => rank[a] < rank[b]
      BY <1>2, <1>5, <2>1, <2>5 DEF InFront, Started
    <3>3. QED
      BY <2>1, <3>1, <3>2 DEF InFront
  <2>6. QED
    BY <2>2, <2>3, <2>4, <2>5
<1>11. holder' \in Messages \cup {NoMessage} /\ (Free' => waiters' = <<>>)
  <2>1. m # NoMessage
    BY ChatsAreNotJobs DEF Messages
  <2>2. QED
    BY <1>3, <2>1 DEF OrderInv, Free
<1>12. QED
  BY <1>1, <1>4, <1>6, <1>8, <1>9, <1>10, <1>11 DEF OrderInv

\* The lock is released, and the first in line has it.
LEMMA ReleaseKeeps ==
  ASSUME OrderInv, NEW m \in Messages, msg[m] = "running",
         NEW state \in {"replying", "broken"}, Release(m, state),
         UNCHANGED <<pending, rank, received>>
  PROVE  OrderInv'
<1>1. /\ msg \in [Messages -> MessageStates] /\ rank \in [Messages -> Nat]
      /\ \A n \in Messages : Ranked(n)
      /\ Line(pending, "queued", msg, rank) /\ Line(waiters, "waiting", msg, rank)
  BY DEF OrderInv
<1>2. NoMessage \notin Messages
  BY ChatsAreNotJobs DEF Messages
<1>3. CASE waiters = <<>>
  <2>1. /\ holder' = NoMessage /\ waiters' = waiters
        /\ msg' = [k \in Messages |-> IF k = m THEN state
                                     ELSE IF k = NoMessage THEN "running" ELSE msg[k]]
    BY <1>3 DEF Release
  <2>2. /\ msg' = [msg EXCEPT ![m] = state]
    BY <1>1, <1>2, <2>1
  <2>3. /\ msg'[m] = state /\ \A n \in Messages : n # m => msg'[n] = msg[n]
        /\ msg' \in [Messages -> MessageStates]
    BY <1>1, <2>2 DEF MessageStates, InFlight
  <2>4. /\ Line(pending', "queued", msg', rank') /\ Line(waiters', "waiting", msg', rank')
    BY <1>1, <2>1, <2>3, LineStays
  <2>5. \A n \in Messages : Ranked(n)'
    BY <1>1, <2>3 DEF Ranked
  <2>6. ASSUME NEW a \in Messages, NEW b \in Messages PROVE InFront(a, b)'
    <3>1. InFront(a, b)
      BY DEF OrderInv
    <3>2. QED
      BY <2>3, <3>1 DEF InFront, Started
  <2>7. QED
    BY <1>1, <1>3, <2>1, <2>3, <2>4, <2>5, <2>6 DEF OrderInv
<1>4. CASE waiters # <<>>
  <2> DEFINE next == Head(waiters)
  <2>1. /\ holder' = next /\ waiters' = Tail(waiters)
        /\ msg' = [k \in Messages |-> IF k = m THEN state
                                     ELSE IF k = next THEN "running" ELSE msg[k]]
    BY <1>4 DEF Release
  <2>2. next \in Messages /\ msg[next] = "waiting"
    <3>1. next = waiters[1] /\ 1 \in DOMAIN waiters
      BY <1>1, <1>4, Front DEF Line
    <3>2. QED
      BY <1>1, <3>1 DEF Line
  <2>3. /\ msg'[m] = state /\ msg'[next] = "running" /\ next # m
        /\ \A n \in Messages : n # m /\ n # next => msg'[n] = msg[n]
        /\ msg' \in [Messages -> MessageStates]
    BY <1>1, <2>1, <2>2 DEF MessageStates, InFlight
  <2>4. Line(pending', "queued", msg', rank')
    BY <1>1, <2>2, <2>3, LineStays
  <2>5. Line(waiters', "waiting", msg', rank')
    BY <1>1, <1>4, <2>1, <2>3, LineMoves
  <2>6. \A n \in Messages : Ranked(n)'
    BY <1>1, <2>2, <2>3 DEF Ranked
  <2>7. ASSUME NEW a \in Messages, NEW b \in Messages PROVE InFront(a, b)'
    <3>1. InFront(a, b)
      BY DEF OrderInv
    <3>2. msg'[b] = "waiting" => msg[b] = "waiting" /\ b # next
      BY <2>3
    <3>3. msg'[b] = "queued" <=> msg[b] = "queued"
      BY <2>2, <2>3
    <3>4. msg'[a] # "queued" <=> msg[a] # "queued"
      BY <2>2, <2>3
    <3>5. msg'[a] \in Started => msg[a] \in Started \/ a = next
      BY <2>3 DEF Started
    <3>6. a = next /\ msg[b] = "waiting" /\ b # next /\ 0 < rank[a] /\ 0 < rank[b]
            => rank[a] < rank[b]
      BY <1>1, <1>4, FirstIsLeast
    <3>7. QED
      BY <3>1, <3>2, <3>3, <3>4, <3>5, <3>6 DEF InFront
  <2>8. next # NoMessage
    BY <1>2, <2>2
  <2>9. QED
    BY <1>1, <2>1, <2>2, <2>3, <2>4, <2>5, <2>6, <2>7, <2>8 DEF OrderInv, Free
<1>5. QED
  BY <1>3, <1>4

\* Messages are handled, break or are dropped; others come.
LEMMA SettleKeeps ==
  ASSUME OrderInv, msg' \in [Messages -> MessageStates],
         \A n \in Messages :
           \/ msg'[n] = msg[n]
           \/ msg[n] = "replying" /\ msg'[n] \in {"handled", "broken"}
           \/ msg[n] = "new" /\ msg'[n] \in {"spawned", "dropped"} /\ n \notin Jobs \ received',
         UNCHANGED <<pending, holder, waiters, rank>>, received \subseteq received'
  PROVE  OrderInv'
<1>1. \A n \in Messages :
        /\ msg'[n] = "queued" <=> msg[n] = "queued"
        /\ msg'[n] = "waiting" <=> msg[n] = "waiting"
        /\ msg'[n] \in Started => msg[n] \in Started
        /\ msg'[n] \in {"new", "spawned"} => msg[n] \in {"new", "spawned"}
        /\ n \in Jobs \ received' => msg'[n] = msg[n]
  BY DEF Started, OrderInv, Ranked
<1>2. Line(pending', "queued", msg', rank') /\ Line(waiters', "waiting", msg', rank')
  BY <1>1, LineStays DEF OrderInv
<1>3. \A n \in Messages : Ranked(n)'
  BY <1>1 DEF OrderInv, Ranked
<1>4. ASSUME NEW a \in Messages, NEW b \in Messages PROVE InFront(a, b)'
  <2>1. InFront(a, b)
    BY DEF OrderInv
  <2>2. QED
    BY <1>1, <2>1 DEF InFront
<1>5. QED
  BY <1>2, <1>3, <1>4 DEF OrderInv, Free

LEMMA ResetKeeps ==
  ASSUME OrderInv, ResetCommand
  PROVE  OrderInv'
<1>1. /\ pending' = <<>> /\ UNCHANGED <<received, holder, waiters, rank>>
      /\ msg' = [m \in Messages |-> IF msg[m] = "queued" THEN "dropped" ELSE msg[m]]
  BY DEF ResetCommand, registryVars
<1>2. /\ msg' \in [Messages -> MessageStates]
      /\ \A n \in Messages :
           /\ msg'[n] # "queued"
           /\ msg'[n] = "waiting" <=> msg[n] = "waiting"
           /\ msg'[n] \in Started <=> msg[n] \in Started
           /\ msg'[n] \in {"new", "spawned"} <=> msg[n] \in {"new", "spawned"}
           /\ msg[n] = "new" => msg'[n] = "new"
  BY <1>1 DEF OrderInv, Started, MessageStates
<1>3. Line(pending', "queued", msg', rank')
  BY <1>1, <1>2 DEF Line
<1>4. Line(waiters', "waiting", msg', rank')
  BY <1>1, <1>2, LineStays DEF OrderInv
<1>5. \A n \in Messages : Ranked(n)'
  BY <1>1, <1>2 DEF OrderInv, Ranked
<1>6. \A a, b \in Messages : InFront(a, b)'
  BY <1>1, <1>2 DEF OrderInv, InFront
<1>7. QED
  BY <1>1, <1>2, <1>3, <1>4, <1>5, <1>6 DEF OrderInv, Free

LEMMA OrderMoves ==
  ASSUME RegistryInv, OrderInv, [GatewayNext]_gatewayVars
  PROVE  OrderInv'
<1>0. /\ msg \in [Messages -> MessageStates]
      /\ \A n \in Messages : Ranked(n)
      /\ Chats \subseteq Messages /\ Jobs \subseteq Messages
      /\ \A m \in Chats : m \notin Jobs
  BY ChatsAreNotJobs DEF OrderInv, Messages
<1>1. CASE UNCHANGED <<msg, pending, holder, waiters, rank, received>>
  BY <1>1, <1>0, SettleKeeps
<1>2. ASSUME NEW m \in Chats, Webhook(m) PROVE OrderInv'
  <2>1. msg[m] = "new" /\ received' = received
    BY <1>2 DEF Webhook, registryVars
  <2>2. CASE Free
    BY <1>0, <1>2, <2>1, <2>2, AcquireKeeps DEF Webhook
  <2>3. CASE ~Free
    BY <1>0, <1>2, <2>1, <2>3, EnqueueKeeps DEF Webhook
  <2>4. QED
    BY <2>2, <2>3
<1>3. ASSUME NEW m \in Chats, QueueCommand(m) PROVE OrderInv'
  <2>1. msg[m] = "new" /\ received' = received /\ Enqueue(m)
    BY <1>3 DEF QueueCommand, registryVars
  <2>2. QED
    BY <1>0, <2>1, EnqueueKeeps
<1>4. ASSUME NEW p \in Jobs, WatcherTakes(p) PROVE OrderInv'
  <2>1. p \notin received /\ received' = received \cup {p}
    BY <1>4, ReceiveKeeps DEF WatcherTakes
  <2>2. msg[p] = "new"
    BY <1>0, <2>1 DEF Ranked
  <2>3. CASE connected /\ ~Free
    BY <1>0, <1>4, <2>1, <2>2, <2>3, EnqueueKeeps DEF WatcherTakes
  <2>4. CASE ~connected \/ Free
    <3>1. PICK state \in {"spawned", "dropped"} :
            msg' = [msg EXCEPT ![p] = state] /\ UNCHANGED <<pending, holder, waiters, rank>>
      BY <1>4, <2>4 DEF WatcherTakes
    <3>2. /\ msg' \in [Messages -> MessageStates] /\ msg'[p] = state
          /\ \A n \in Messages : n # p => msg'[n] = msg[n]
      BY <1>0, <3>1 DEF MessageStates, InFlight
    <3>3. QED
      BY <2>1, <2>2, <3>1, <3>2, SettleKeeps
  <2>5. QED
    BY <2>3, <2>4
<1>5. ASSUME NEW m \in Messages, SpawnedRuns(m) PROVE OrderInv'
  <2>1. /\ msg[m] = "spawned" /\ Acquire(m, msg) /\ UNCHANGED <<pending, rank, received>>
    BY <1>5 DEF SpawnedRuns, registryVars
  <2>2. m \notin Jobs \ received
    BY <1>0, <2>1 DEF Ranked
  <2>3. QED
    BY <1>0, <2>1, <2>2, AcquireKeeps
<1>6. ASSUME NEW m \in Messages, Finish(m) \/ RunBreaks(m) PROVE OrderInv'
  <2>1. /\ msg[m] = "running" /\ UNCHANGED <<pending, rank, received>>
        /\ Release(m, "replying") \/ Release(m, "broken")
    BY <1>6 DEF Finish, RunBreaks, registryVars
  <2>2. QED
    BY <2>1, ReleaseKeeps
<1>7. ASSUME NEW m \in Messages, msg[m] = "replying", NEW state \in {"handled", "broken"},
             msg' = [msg EXCEPT ![m] = state],
             UNCHANGED <<pending, holder, waiters, rank, received>>
      PROVE  OrderInv'
  <2>1. /\ msg' \in [Messages -> MessageStates] /\ msg'[m] = state
        /\ \A n \in Messages : n # m => msg'[n] = msg[n]
    BY <1>0, <1>7 DEF MessageStates
  <2>2. QED
    BY <1>7, <2>1, SettleKeeps
<1>8. ASSUME NEW m \in Messages, ReplyBreaks(m) PROVE OrderInv'
  BY <1>7, <1>8 DEF ReplyBreaks, registryVars
<1>9. ASSUME NEW m \in Messages, Drain(m) PROVE OrderInv'
  <2> DEFINE n == Head(pending)
             handled == [msg EXCEPT ![m] = "handled"]
  <2>1. msg[m] = "replying" /\ UNCHANGED <<rank, received>>
    BY <1>9 DEF Drain, registryVars
  <2>2. CASE pending = <<>>
    BY <1>7, <1>9, <2>1, <2>2 DEF Drain
  <2>3. CASE pending # <<>>
    <3>1. n = pending[1] /\ 1 \in DOMAIN pending
      BY <2>3, Front DEF OrderInv, Line
    <3>2. n \in Messages /\ msg[n] = "queued"
      BY <3>1 DEF OrderInv, Line
    <3>3. n \notin Jobs \ received
      BY <1>0, <3>2 DEF Ranked
    <3>4. /\ handled \in [Messages -> MessageStates] /\ handled[m] = "handled"
          /\ \A k \in Messages : k # m => handled[k] = msg[k]
      BY <1>0 DEF MessageStates
    <3>5. pending' = Tail(pending)
      BY <1>9, <2>3 DEF Drain
    <3>6. CASE connected
      <4>1. Acquire(n, handled)
        BY <1>9, <2>3, <3>6 DEF Drain
      <4> HIDE DEF n, handled
      <4>2. n = Head(pending)
        BY DEF n
      <4>3. QED
        BY <2>1, <2>3, <3>2, <3>3, <3>4, <3>5, <4>1, <4>2, AcquireKeeps
    <3>7. CASE ~connected
      <4>1. msg' = [handled EXCEPT ![n] = "dropped"] /\ UNCHANGED <<holder, waiters>>
        BY <1>9, <2>3, <3>7 DEF Drain
      <4>2. /\ msg' \in [Messages -> MessageStates] /\ msg'[n] = "dropped" /\ n # m
            /\ msg'[m] = "handled"
            /\ \A k \in Messages : k # m /\ k # n => msg'[k] = msg[k]
        BY <1>0, <2>1, <3>2, <3>4, <4>1 DEF MessageStates
      <4>3. Line(pending', "queued", msg', rank')
        BY <2>1, <2>3, <3>5, <4>2, LineMoves DEF OrderInv
      <4>4. Line(waiters', "waiting", msg', rank')
        BY <2>1, <3>2, <4>1, <4>2, LineStays DEF OrderInv
      <4>5. \A k \in Messages : Ranked(k)'
        BY <1>0, <2>1, <3>3, <4>2 DEF Ranked
      <4>6. ASSUME NEW a \in Messages, NEW b \in Messages PROVE InFront(a, b)'
        <5>1. InFront(a, b)
          BY DEF OrderInv
        <5>2. a = n /\ b # n /\ msg[b] = "queued" /\ 0 < rank[a] /\ 0 < rank[b] => rank[a] < rank[b]
          BY <2>3, FirstIsLeast DEF OrderInv
        <5>3. msg'[b] = "queued" => msg[b] = "queued" /\ b # n
          BY <4>2
        <5>4. QED
          BY <2>1, <3>2, <4>2, <5>1, <5>2, <5>3 DEF InFront, Started
      <4>7. QED
        BY <2>1, <4>1, <4>2, <4>3, <4>4, <4>5, <4>6 DEF OrderInv, Free
    <3>8. QED
      BY <3>6, <3>7
  <2>4. QED
    BY <2>2, <2>3
<1>10. CASE RegistryStep /\ UNCHANGED <<msg, pending, holder, waiters, connected, rank>>
  BY <1>1, <1>10 DEF RegistryStep, PruneExited, Spawn, Exit, Reap
<1>11. QED
  BY <1>1, <1>2, <1>3, <1>4, <1>5, <1>6, <1>8, <1>9, <1>10, ResetKeeps
     DEF GatewayNext, MessageComes, EventStep, AdapterComesOrGoes, gatewayVars, registryVars

\* Queued messages start in the order in which they came, however many tasks are
\* draining the queue and waiting for the lock (_drain_pending, _run_event).
THEOREM QueueIsInOrder == GatewaySpec => []QueuedStartInOrder
<1>1. GatewayInit => RegistryInv /\ OrderInv
  BY RegistryStarts, OrderStarts DEF GatewayInit
<1>2. RegistryInv /\ OrderInv /\ [GatewayNext]_gatewayVars => (RegistryInv /\ OrderInv)'
  BY RegistryMoves, OrderMoves
<1>3. OrderInv => QueuedStartInOrder
  <2> SUFFICES ASSUME OrderInv, NEW m \in Messages, NEW n \in Messages,
                      0 < rank[m], rank[m] < rank[n], msg[n] \in Started,
                      msg[m] \in {"queued", "waiting"}
               PROVE  FALSE
    BY DEF QueuedStartInOrder, Started
  <2>1. InFront(n, m) /\ rank[m] \in Nat /\ rank[n] \in Nat
    BY DEF OrderInv
  <2>2. QED
    BY <2>1 DEF InFront, Started
<1>4. QED
  BY <1>1, <1>2, <1>3, PTL DEF GatewaySpec

\* The message that has the lock is the one that runs.
LockInv == \A m \in Messages : msg[m] = "running" <=> holder = m

LEMMA LockMoves ==
  ASSUME RegistryInv, OrderInv, LockInv, [GatewayNext]_gatewayVars
  PROVE  LockInv'
<1>0. /\ msg \in [Messages -> MessageStates] /\ holder \in Messages \cup {NoMessage}
      /\ NoMessage \notin Messages /\ Chats \subseteq Messages /\ Jobs \subseteq Messages
  BY ChatsAreNotJobs DEF OrderInv, Messages
<1>1. ASSUME \A m \in Messages : msg'[m] = "running" <=> msg[m] = "running", UNCHANGED holder
      PROVE  LockInv'
  BY <1>1 DEF LockInv
<1>2. ASSUME NEW m \in Messages, NEW others \in [Messages -> MessageStates],
             \A n \in Messages : others[n] = "running" <=> msg[n] = "running",
             msg[m] # "running", Acquire(m, others)
      PROVE  LockInv'
  <2>1. CASE Free
    <3>1. msg' = [others EXCEPT ![m] = "running"] /\ holder' = m
      BY <1>2, <2>1 DEF Acquire
    <3>2. \A n \in Messages : msg[n] # "running"
      BY <1>0, <2>1 DEF LockInv, Free
    <3>3. QED
      BY <1>2, <3>1, <3>2 DEF LockInv
  <2>2. CASE ~Free
    <3>1. msg' = [others EXCEPT ![m] = "waiting"] /\ holder' = holder
      BY <1>2, <2>2 DEF Acquire
    <3>2. \A n \in Messages : msg'[n] = "running" <=> msg[n] = "running"
      BY <1>2, <3>1
    <3>3. QED
      BY <1>1, <3>1, <3>2
  <2>3. QED
    BY <2>1, <2>2
<1>3. ASSUME NEW m \in Messages, msg[m] = "running", NEW state \in {"replying", "broken"},
             Release(m, state)
      PROVE  LockInv'
  <2>1. \A n \in Messages : n # m => msg[n] # "running"
    BY <1>3 DEF LockInv
  <2>2. CASE waiters = <<>>
    <3>1. holder' = NoMessage /\ \A n \in Messages : msg'[n] = IF n = m THEN state ELSE msg[n]
      BY <1>0, <1>3, <2>2 DEF Release
    <3>2. QED
      BY <1>0, <2>1, <3>1 DEF LockInv
  <2>3. CASE waiters # <<>>
    <3>1. Head(waiters) \in Messages /\ msg[Head(waiters)] = "waiting"
      <4>1. Head(waiters) = waiters[1] /\ 1 \in DOMAIN waiters
        BY <2>3, Front DEF OrderInv, Line
      <4>2. QED
        BY <4>1 DEF OrderInv, Line
    <3>2. /\ holder' = Head(waiters)
          /\ \A n \in Messages : msg'[n] = IF n = m THEN state
                                           ELSE IF n = Head(waiters) THEN "running" ELSE msg[n]
      BY <1>3, <2>3 DEF Release
    <3>3. QED
      BY <1>3, <2>1, <3>1, <3>2 DEF LockInv
  <2>4. QED
    BY <2>2, <2>3
<1>4. ASSUME NEW m \in Messages, msg[m] # "running", NEW state \in MessageStates \ {"running"},
             msg' = [msg EXCEPT ![m] = state], UNCHANGED holder
      PROVE  LockInv'
  BY <1>0, <1>1, <1>4
<1>5. CASE UNCHANGED <<msg, holder>>
  BY <1>1, <1>5
<1>6. ASSUME NEW m \in Chats, Webhook(m) \/ QueueCommand(m) PROVE LockInv'
  BY <1>0, <1>2, <1>4, <1>6 DEF Webhook, QueueCommand, Enqueue, MessageStates
<1>7. ASSUME NEW p \in Jobs, WatcherTakes(p) PROVE LockInv'
  <2>1. p \notin received
    BY <1>7, ReceiveKeeps DEF WatcherTakes
  <2>2. msg[p] = "new"
    BY <1>0, <2>1 DEF OrderInv, Ranked
  <2>3. QED
    BY <1>0, <1>4, <1>7, <2>2 DEF WatcherTakes, Enqueue, MessageStates, InFlight
<1>8. CASE ResetCommand
  BY <1>1, <1>8 DEF ResetCommand
<1>9. ASSUME NEW m \in Messages, SpawnedRuns(m) PROVE LockInv'
  BY <1>0, <1>2, <1>9 DEF SpawnedRuns
<1>10. ASSUME NEW m \in Messages, Finish(m) \/ RunBreaks(m) PROVE LockInv'
  BY <1>3, <1>10 DEF Finish, RunBreaks
<1>11. ASSUME NEW m \in Messages, ReplyBreaks(m) PROVE LockInv'
  BY <1>4, <1>11 DEF ReplyBreaks, MessageStates
<1>12. ASSUME NEW m \in Messages, Drain(m) PROVE LockInv'
  <2> DEFINE n == Head(pending)
             handled == [msg EXCEPT ![m] = "handled"]
  <2>1. /\ msg[m] = "replying" /\ handled \in [Messages -> MessageStates]
        /\ \A k \in Messages : handled[k] = "running" <=> msg[k] = "running"
    BY <1>0, <1>12 DEF Drain, MessageStates
  <2>2. CASE pending = <<>>
    BY <1>1, <1>12, <2>1, <2>2 DEF Drain
  <2>3. CASE pending # <<>>
    <3>1. n \in Messages /\ msg[n] = "queued"
      <4>1. n = pending[1] /\ 1 \in DOMAIN pending
        BY <2>3, Front DEF OrderInv, Line
      <4>2. QED
        BY <4>1 DEF OrderInv, Line
    <3>2. CASE connected
      <4>1. Acquire(n, handled)
        BY <1>12, <2>3, <3>2 DEF Drain
      <4> HIDE DEF n, handled
      <4>2. QED
        BY <1>2, <2>1, <3>1, <4>1
    <3>3. CASE ~connected
      <4>1. msg' = [handled EXCEPT ![n] = "dropped"] /\ UNCHANGED holder
        BY <1>12, <2>3, <3>3 DEF Drain
      <4> HIDE DEF n, handled
      <4>2. \A k \in Messages : msg'[k] = "running" <=> msg[k] = "running"
        BY <2>1, <3>1, <4>1
      <4>3. QED
        BY <1>1, <4>1, <4>2
    <3>4. QED
      BY <3>2, <3>3
  <2>4. QED
    BY <2>2, <2>3
<1>13. QED
  BY <1>5, <1>6, <1>7, <1>8, <1>9, <1>10, <1>11, <1>12
     DEF GatewayNext, MessageComes, EventStep, AdapterComesOrGoes, gatewayVars

\* A session becomes idle with messages in its queue only by an error before
\* the drain, a drain without an adapter, or /queue (handle_webhook, _run_event).
THEOREM OnlyFailuresStrand == GatewaySpec => StrandedOnlyByFailure
<1> DEFINE Cause ==
      \/ \E m \in Messages : msg[m] \in InFlight /\ msg'[m] = "broken"
      \/ ~connected
      \/ \A m \in Messages : msg[m] \notin InFlight
<1>1. GatewayInit => LockInv
  BY ChatsAreNotJobs DEF GatewayInit, LockInv, Messages
<1>2. RegistryInv /\ OrderInv /\ LockInv /\ [GatewayNext]_gatewayVars /\ ~Stranded /\ Stranded' => Cause
  <2> SUFFICES ASSUME RegistryInv, OrderInv, LockInv, [GatewayNext]_gatewayVars,
                      ~Stranded, Stranded', ~Cause
               PROVE  FALSE
    OBVIOUS
  <2>0. /\ msg \in [Messages -> MessageStates] /\ holder \in Messages \cup {NoMessage}
        /\ Chats \subseteq Messages /\ Jobs \subseteq Messages
    BY DEF OrderInv, Messages
  <2>1. /\ \A m \in Messages : msg'[m] \notin InFlight
        /\ connected /\ pending' # <<>>
        /\ \A m \in Messages : msg[m] \in InFlight => msg'[m] # "broken"
    BY DEF Stranded
  <2>2. PICK k \in Messages : msg[k] \in InFlight
    OBVIOUS
  <2> HIDE DEF Cause
  <2>3. ASSUME NEW m \in Messages, Enqueue(m), msg[m] = "new" PROVE FALSE
    <3>1. msg'[k] = msg[k]
      BY <2>0, <2>2, <2>3 DEF Enqueue, InFlight
    <3>2. QED
      BY <2>1, <2>2, <3>1
  <2>4. ASSUME NEW m \in Messages, NEW others \in [Messages -> MessageStates], Acquire(m, others)
        PROVE  FALSE
    <3>1. msg'[m] \in {"running", "waiting"}
      BY <2>4 DEF Acquire
    <3>2. QED
      BY <2>1, <3>1 DEF InFlight
  <2>5. ~UNCHANGED msg
    BY <2>1, <2>2
  <2>6. ASSUME NEW m \in Chats, Webhook(m) \/ QueueCommand(m) PROVE FALSE
    BY <2>0, <2>3, <2>4, <2>6 DEF Webhook, QueueCommand
  <2>7. ASSUME NEW p \in Jobs, WatcherTakes(p) PROVE FALSE
    <3>1. CASE Free
      <4>1. msg' = [msg EXCEPT ![p] = "spawned"]
        BY <2>1, <2>7, <3>1 DEF WatcherTakes
      <4>2. QED
        BY <2>0, <2>1, <4>1 DEF InFlight
    <3>2. CASE ~Free
      <4>1. Enqueue(p)
        BY <2>1, <2>7, <3>2 DEF WatcherTakes
      <4>2. holder \in Messages /\ msg[holder] = "running"
        BY <2>0, <3>2 DEF LockInv, Free
      <4>3. msg' = [msg EXCEPT ![p] = "queued"]
        BY <4>1 DEF Enqueue
      <4>4. p \in Jobs \ received
        BY <2>7, ReceiveKeeps DEF WatcherTakes
      <4>5. msg[p] = "new"
        BY <2>0, <4>4 DEF OrderInv, Ranked
      <4>6. msg'[holder] = "running"
        BY <2>0, <4>2, <4>3, <4>5
      <4>7. QED
        BY <2>1, <4>2, <4>6 DEF InFlight
    <3>3. QED
      BY <3>1, <3>2
  <2>8. ASSUME NEW m \in Messages, EventStep(m) PROVE FALSE
    <3>1. CASE SpawnedRuns(m)
      BY <2>0, <2>4, <3>1 DEF SpawnedRuns
    <3>2. CASE Finish(m)
      <4>1. msg'[m] = "replying"
        BY <3>2 DEF Finish, Release
      <4>2. QED
        BY <2>1, <4>1 DEF InFlight
    <3>3. CASE RunBreaks(m)
      <4>1. msg[m] = "running" /\ msg'[m] = "broken"
        BY <3>3 DEF RunBreaks, Release
      <4>2. QED
        BY <2>1, <4>1 DEF InFlight
    <3>4. CASE ReplyBreaks(m)
      <4>1. msg[m] = "replying" /\ msg'[m] = "broken"
        BY <2>0, <3>4 DEF ReplyBreaks
      <4>2. QED
        BY <2>1, <4>1 DEF InFlight
    <3>5. CASE Drain(m)
      <4>1. pending # <<>>
        BY <2>1, <3>5 DEF Drain
      <4>2. Acquire(Head(pending), [msg EXCEPT ![m] = "handled"])
        BY <2>1, <3>5, <4>1 DEF Drain
      <4>3. Head(pending) \in Messages
        BY <4>1, Front DEF OrderInv, Line
      <4>4. [msg EXCEPT ![m] = "handled"] \in [Messages -> MessageStates]
        BY <2>0 DEF MessageStates
      <4>5. QED
        BY <2>4, <4>2, <4>3, <4>4
    <3>6. QED
      BY <2>8, <3>1, <3>2, <3>3, <3>4, <3>5 DEF EventStep
  <2>9. QED
    BY <2>1, <2>5, <2>6, <2>7, <2>8
       DEF GatewayNext, MessageComes, ResetCommand, AdapterComesOrGoes, gatewayVars
<1>3. RegistryInv /\ OrderInv /\ LockInv /\ [GatewayNext]_gatewayVars =>
        [~Stranded /\ Stranded' => Cause]_gatewayVars
  BY <1>2
<1>4. GatewayInit => RegistryInv /\ OrderInv
  BY RegistryStarts, OrderStarts DEF GatewayInit
<1>5. RegistryInv /\ OrderInv /\ LockInv /\ [GatewayNext]_gatewayVars
        => (RegistryInv /\ OrderInv /\ LockInv)'
  BY RegistryMoves, OrderMoves, LockMoves
<1>6. QED
  BY <1>1, <1>3, <1>4, <1>5, PTL DEF GatewaySpec, StrandedOnlyByFailure

\* The registry's table and the stream's size (ProcessRegistry), and the adapter.
TableInv ==
  /\ processes \subseteq Jobs
  /\ Len(completions) <= StreamSize
  /\ connected \in BOOLEAN

LEMMA TableStarts == GatewayInit => TableInv
<1>1. Len(<<>>) = 0
  OBVIOUS
<1>2. QED
  BY <1>1, StreamBound DEF GatewayInit, RegistryInit, TableInv

LEMMA TableMoves ==
  ASSUME RegistryInv, TableInv, [GatewayNext]_gatewayVars
  PROVE  TableInv'
<1>0. Len(completions) \in Nat /\ StreamSize \in Nat /\ completions \in Seq(Jobs)
  BY StreamBound DEF RegistryInv
<1>1. CASE UNCHANGED <<processes, completions, connected>>
  BY <1>1 DEF TableInv
<1>2. CASE AdapterComesOrGoes
  BY <1>2 DEF AdapterComesOrGoes, registryVars, TableInv
<1>3. ASSUME NEW p \in Jobs, WatcherTakes(p) PROVE TableInv'
  <2>1. completions # <<>> /\ processes' \subseteq processes /\ UNCHANGED connected
    BY <1>3 DEF WatcherTakes, Receive
  <2>2. Tail(completions) \in Seq(Jobs) /\ Len(Tail(completions)) = Len(completions) - 1
    BY <2>1, Front DEF RegistryInv
  <2>3. Len(completions') <= Len(completions)
    <3>1. CASE senders = <<>>
      <4>1. completions' = Tail(completions) \o <<>>
        BY <1>3, <3>1 DEF WatcherTakes, Receive
      <4>2. completions' = Tail(completions)
        BY <2>2, <4>1
      <4>3. QED
        BY <1>0, <2>2, <4>2
    <3>2. CASE senders # <<>>
      <4>1. completions' = Tail(completions) \o <<Head(senders)>>
        BY <1>3, <3>2 DEF WatcherTakes, Receive
      <4>2. Head(senders) \in Jobs
        BY <3>2, Front DEF RegistryInv
      <4>3. Len(completions') = Len(Tail(completions)) + 1
        BY <2>2, <4>1, <4>2, JoinOne
      <4>4. QED
        BY <1>0, <2>2, <4>3
    <3>3. QED
      BY <3>1, <3>2
  <2>4. Len(completions') \in Nat
    <3>1. completions' \in Seq(Jobs)
      BY <1>3, ReceiveKeeps DEF WatcherTakes, RegistryInv
    <3>2. QED
      BY <3>1
  <2>5. QED
    BY <1>0, <2>1, <2>3, <2>4 DEF TableInv
<1>4. CASE RegistryStep /\ UNCHANGED connected
  <2>1. CASE PruneExited
    BY <2>1, <1>4 DEF PruneExited, TableInv
  <2>2. ASSUME NEW p \in Jobs, Spawn(p) \/ Exit(p) PROVE TableInv'
    BY <2>2, <1>4 DEF Spawn, Exit, TableInv
  <2>3. ASSUME NEW p \in Jobs, Reap(p) PROVE TableInv'
    <3>1. processes' \subseteq processes
      BY <2>3 DEF Reap
    <3>2. CASE completions' = completions
      BY <1>4, <3>1, <3>2 DEF TableInv
    <3>3. CASE completions' = Append(completions, p) /\ Len(completions) # StreamSize
      <4>1. Len(completions') = Len(completions) + 1
        BY <1>0, <3>3
      <4>2. QED
        BY <1>0, <1>4, <3>1, <3>3, <4>1 DEF TableInv
    <3>4. QED
      BY <2>3, <3>2, <3>3 DEF Reap
  <2>4. QED
    BY <1>4, <2>1, <2>2, <2>3 DEF RegistryStep
<1>5. QED
  BY <1>1, <1>2, <1>3, <1>4
     DEF GatewayNext, MessageComes, EventStep, Webhook, QueueCommand, ResetCommand, SpawnedRuns,
         Finish, RunBreaks, Drain, ReplyBreaks, gatewayVars, registryVars

\* The registry, the stream, which never holds more than it may, and the messages
\* keep their types (AsyncProcessRegistry, GatewayRunner).
THEOREM GatewayTyped == GatewaySpec => []GatewayTypeOK
<1>1. GatewayInit => RegistryInv /\ OrderInv /\ TableInv
  BY RegistryStarts, OrderStarts, TableStarts DEF GatewayInit
<1>2. RegistryInv /\ OrderInv /\ TableInv /\ [GatewayNext]_gatewayVars
        => (RegistryInv /\ OrderInv /\ TableInv)'
  BY RegistryMoves, OrderMoves, TableMoves
<1>3. RegistryInv /\ OrderInv /\ TableInv => GatewayTypeOK
  BY DEF RegistryInv, OrderInv, TableInv, Line, JobStates, GatewayTypeOK
<1>4. QED
  BY <1>1, <1>2, <1>3, PTL DEF GatewaySpec

-----------------------------------------------------------------------------
(* AgentTeam. *)

\* What a running tool call x knows of the root's inbox.
Heard(x) ==
  /\ x.op = "receive" => x.after \in 0 .. seen
  /\ x.op = "wait" /\ x.by = Root =>
       ~closed /\ (x.at # "leave" => x.targets \subseteq Children)
  /\ x.op = "wait" /\ x.at = "receive" =>
       /\ x.by = Root
       /\ x.after \in 0 .. seen
       /\ \A c \in x.finished : \E i \in DOMAIN inbox : inbox[i] = c
  /\ x.op = "wait" /\ x.at = "leave" /\ ~x.full =>
       \A c \in x.finished : \E i \in handed : inbox[i] = c

\* An instance that ended has told the root; only a closed team cancels one.
Told(c) ==
  /\ status[c] = "ended" => \E i \in DOMAIN inbox : inbox[i] = c
  /\ status[c] = "cancelled" => closed

TeamInv ==
  /\ inbox \in Seq(Children \cup {"talk"})
  /\ status \in [Children -> Final \cup {"absent", "active"}]
  /\ closed \in BOOLEAN
  /\ seen \in 0 .. Len(inbox)
  /\ handed = 1 .. seen
  /\ DOMAIN call = ToolCalls /\ call = [t \in ToolCalls |-> call[t]]
  /\ \A t \in ToolCalls : Heard(call[t])
  /\ \A c \in Children : Told(c)

LEMMA TeamStarts == TeamInit => TeamInv
<1> SUFFICES ASSUME TeamInit PROVE TeamInv
  OBVIOUS
<1>1. /\ inbox = <<>> /\ Len(inbox) = 0 /\ DOMAIN inbox = 1 .. Len(inbox)
      /\ inbox \in Seq(Children \cup {"talk"})
  BY DEF TeamInit
<1>2. handed = 1 .. seen /\ seen \in 0 .. Len(inbox)
  BY <1>1 DEF TeamInit
<1>3. DOMAIN call = ToolCalls /\ call = [t \in ToolCalls |-> call[t]]
  BY DEF TeamInit
<1>4. ASSUME NEW t \in ToolCalls PROVE Heard(call[t])
  BY DEF TeamInit, Heard, Off
<1>5. ASSUME NEW c \in Children PROVE Told(c)
  BY DEF TeamInit, Told
<1>6. QED
  BY <1>1, <1>2, <1>3, <1>4, <1>5 DEF TeamInit, TeamInv, Final

\* What the root is handed after a cursor it has passed: all there is, unless
\* the page is full.
LEMMA HandsOver ==
  ASSUME TeamInv, NEW after \in 0 .. seen, Hand(after)
  PROVE  /\ seen' \in seen .. Len(inbox)
         /\ handed' = 1 .. seen'
         /\ Cardinality(Page(after)) # ReceivePage => handed' = DOMAIN inbox
<1> DEFINE n == Len(inbox)
           last == IF n < after + ReceivePage THEN n ELSE after + ReceivePage
<1>1. /\ n \in Nat /\ DOMAIN inbox = 1 .. n /\ seen \in 0 .. n /\ after \in Nat /\ after <= n
      /\ ReceivePage \in Nat \ {0} /\ handed = 1 .. seen
  BY TeamAssumption DEF TeamInv
<1>2. last \in after .. n
  BY <1>1
<1> HIDE DEF n
<1>3. Page(after) = after + 1 .. last
  BY <1>1 DEF Page
<1>4. Cardinality(Page(after)) = last - after
  <2>1. last \in Int /\ after + 1 \in Int /\ after <= last
    BY <1>1, <1>2
  <2> HIDE DEF last
  <2>2. Cardinality(after + 1 .. last) = IF after + 1 > last THEN 0 ELSE last - (after + 1) + 1
    BY <2>1, FS_Interval
  <2>3. QED
    BY <1>1, <1>3, <2>1, <2>2
<1>5. seen' = IF last > seen THEN last ELSE seen
  BY <1>1, <1>2, <1>4 DEF Hand, Advance
<1>6. handed' = handed \cup (after + 1 .. last)
  BY <1>3 DEF Hand
<1>7. handed' = 1 .. seen'
  <2>1. handed' = (1 .. seen) \cup (after + 1 .. last)
    BY <1>1, <1>6
  <2>2. after \in Nat /\ seen \in Nat /\ last \in Nat /\ after <= seen /\ after <= last
    BY <1>1, <1>2
  <2> HIDE DEF last
  <2>3. QED
    BY <1>5, <2>1, <2>2
<1>8. ASSUME Cardinality(Page(after)) # ReceivePage PROVE last = n
  BY <1>1, <1>2, <1>4, <1>8
<1>9. seen' \in seen .. n
  BY <1>1, <1>2, <1>5
<1>10. ASSUME Cardinality(Page(after)) # ReceivePage PROVE handed' = DOMAIN inbox
  BY <1>1, <1>5, <1>7, <1>8, <1>10
<1>11. QED
  BY <1>7, <1>9, <1>10 DEF n

\* A call that knew something still does, when messages come or are handed over.
LEMMA StillHeard ==
  ASSUME TeamInv, NEW x, Heard(x),
         seen' \in Nat, seen <= seen', handed \subseteq handed',
         DOMAIN inbox \subseteq DOMAIN inbox', \A i \in DOMAIN inbox : inbox'[i] = inbox[i],
         closed' = closed
  PROVE  Heard(x)'
<1>1. seen \in Nat /\ handed \subseteq DOMAIN inbox
  BY DEF TeamInv
<1>2. QED
  BY <1>1 DEF Heard

\* A step changes at most one call, to one that knows what it says.
LEMMA CallMoves ==
  ASSUME TeamInv, NEW t \in ToolCalls, NEW y, call' = [call EXCEPT ![t] = y], Heard(y)',
         seen' \in seen .. Len(inbox), handed' = 1 .. seen', UNCHANGED <<inbox, closed>>,
         status' \in [Children -> Final \cup {"absent", "active"}],
         \A c \in Children : status'[c] = status[c] \/ status'[c] = "active"
  PROVE  TeamInv'
<1>1. ASSUME NEW u \in ToolCalls PROVE Heard(call[u])'
  <2>1. CASE u = t
    BY <2>1 DEF TeamInv
  <2>2. CASE u # t
    <3>1. call'[u] = call[u]
      BY <2>2 DEF TeamInv
    <3>2. Heard(call[u])
      BY DEF TeamInv
    <3>3. /\ seen' \in Nat /\ seen <= seen' /\ handed \subseteq handed'
      BY DEF TeamInv
    <3>4. QED
      BY <3>1, <3>2, <3>3 DEF Heard, TeamInv
  <2>3. QED
    BY <2>1, <2>2
<1>2. ASSUME NEW c \in Children PROVE Told(c)'
  BY DEF TeamInv, Told
<1>3. QED
  BY <1>1, <1>2 DEF TeamInv

LEMMA TeamMoves == TeamInv /\ [TeamNext]_teamVars => TeamInv'
<1> SUFFICES ASSUME TeamInv, [TeamNext]_teamVars PROVE TeamInv'
  OBVIOUS
<1>0. /\ inbox \in Seq(Children \cup {"talk"}) /\ DOMAIN inbox = 1 .. Len(inbox)
      /\ Len(inbox) \in Nat /\ seen \in 0 .. Len(inbox) /\ handed = 1 .. seen
      /\ status \in [Children -> Final \cup {"absent", "active"}]
      /\ closed \in BOOLEAN
      /\ DOMAIN call = ToolCalls
  BY DEF TeamInv
<1>s. seen \in seen .. Len(inbox)
  BY <1>0
<1>1. ASSUME NEW t \in ToolCalls, NEW y, call' = [call EXCEPT ![t] = y], Heard(y),
             UNCHANGED <<inbox, seen, handed, closed, status>>
      PROVE  TeamInv'
  BY <1>0, <1>s, <1>1, CallMoves DEF Heard
<1>2. ASSUME UNCHANGED <<inbox, seen, handed, closed, status, call>>
      PROVE  TeamInv'
  BY <1>2 DEF TeamInv, Heard, Told
<1>3. ASSUME NEW t \in ToolCalls, NEW c \in Children, AgentSpawn(t, c) PROVE TeamInv'
  BY <1>1, <1>3 DEF AgentSpawn, Heard
<1>4. ASSUME NEW t \in ToolCalls, SpawnCreate(t) PROVE TeamInv'
  <2>0. PICK y : y = [call[t] EXCEPT !.at = "send"]
    OBVIOUS
  <2>1. call' = [call EXCEPT ![t] = y] /\ UNCHANGED <<inbox, seen, handed, closed>>
    BY <1>0, <1>4, <2>0 DEF SpawnCreate
  <2>2. y.op = "spawn"
    BY <1>4, <2>0 DEF SpawnCreate
  <2>3. Heard(y)'
    BY <2>2 DEF Heard
  <2>4. /\ status' \in [Children -> Final \cup {"absent", "active"}]
        /\ \A c \in Children : status'[c] = status[c] \/ status'[c] = "active"
    BY <1>0, <1>4 DEF SpawnCreate
  <2>5. QED
    BY <1>0, <1>s, <2>1, <2>3, <2>4, CallMoves
<1>5. ASSUME NEW t \in ToolCalls, SpawnSend(t) PROVE TeamInv'
  BY <1>1, <1>5 DEF SpawnSend, Off, Heard
<1>6. ASSUME NEW t \in ToolCalls, AgentReceive(t) PROVE TeamInv'
  <2>1. PICK y : y = [op |-> "receive", by |-> Root, after |-> seen]
    OBVIOUS
  <2>2. Heard(y)
    BY <1>0, <2>1 DEF Heard
  <2>3. QED
    BY <1>1, <1>6, <2>1, <2>2 DEF AgentReceive
<1>7. ASSUME NEW t \in ToolCalls, ReceiveReturns(t) PROVE TeamInv'
  <2>1. call[t].after \in 0 .. seen /\ Hand(call[t].after)
    BY <1>7 DEF ReceiveReturns, TeamInv, Heard
  <2>2. seen' \in seen .. Len(inbox) /\ handed' = 1 .. seen'
    BY <2>1, HandsOver
  <2>3. QED
    BY <1>0, <1>7, <2>2, CallMoves DEF ReceiveReturns, Off, Heard
<1>8. ASSUME NEW t \in ToolCalls, NEW m \in Members, NEW targets, AgentWait(t, m, targets)
      PROVE  TeamInv'
  <2>1. m = Root => ~closed /\ targets \subseteq Children
    BY <1>8 DEF AgentWait, Acts, Present
  <2>2. PICK y : y = [op |-> "wait", by |-> m, at |-> "list",
                      targets |-> IF m = Root THEN targets ELSE {}]
    OBVIOUS
  <2>3. Heard(y)
    BY <2>1, <2>2 DEF Heard
  <2>4. QED
    BY <1>1, <1>8, <2>2, <2>3 DEF AgentWait
<1>9. ASSUME NEW t \in ToolCalls, WaitList(t) PROVE TeamInv'
  <2>1. ~closed
    BY <1>9 DEF WaitList, TeamInv, Heard
  <2>2. \A c \in Children : status[c] \in Final => \E i \in DOMAIN inbox : inbox[i] = c
    BY <2>1 DEF TeamInv, Told, Final
  <2>3. call[t].targets \subseteq Children
    BY <1>9 DEF WaitList, TeamInv, Heard
  <2>4. QED
    BY <1>0, <1>1, <1>9, <2>1, <2>2, <2>3 DEF WaitList, Heard
<1>10. ASSUME NEW t \in ToolCalls, WaitReceive(t) PROVE TeamInv'
  <2> DEFINE w == call[t]
  <2>1. /\ w.op = "wait" /\ w.by = Root /\ w.after \in 0 .. seen /\ Hand(w.after)
        /\ ~closed /\ w.targets \subseteq Children /\ \A c \in w.finished : \E i \in DOMAIN inbox : inbox[i] = c
    BY <1>10 DEF WaitReceive, TeamInv, Heard
  <2>2. /\ seen' \in seen .. Len(inbox) /\ handed' = 1 .. seen'
        /\ Cardinality(Page(w.after)) # ReceivePage => handed' = DOMAIN inbox
    BY <2>1, HandsOver
  <2>3. CASE call' = [call EXCEPT ![t] =
                    [op |-> "wait", by |-> Root, at |-> "list", targets |-> w.targets]]
    BY <1>0, <1>10, <2>1, <2>2, <2>3, CallMoves DEF WaitReceive, Heard
  <2>4. CASE call' = [call EXCEPT ![t] =
                    [op |-> "wait", by |-> Root, at |-> "leave", finished |-> w.finished,
                     full |-> Cardinality(Page(w.after)) = ReceivePage]]
    <3>1. PICK y : y = [op |-> "wait", by |-> Root, at |-> "leave", finished |-> w.finished,
                        full |-> Cardinality(Page(w.after)) = ReceivePage]
      OBVIOUS
    <3>2. y.op = "wait" /\ y.by = Root /\ y.at = "leave" /\ y.finished = w.finished
      BY <3>1
    <3>3. ~y.full => handed' = DOMAIN inbox
      BY <2>2, <3>1
    <3>4. Heard(y)'
      <4>1. UNCHANGED <<closed, inbox>>
        BY <1>10 DEF WaitReceive
      <4>2. ~closed /\ \A c \in y.finished : \E i \in DOMAIN inbox : inbox[i] = c
        BY <2>1, <3>2
      <4>3. QED
        BY <3>2, <3>3, <4>1, <4>2 DEF Heard
    <3>5. QED
      BY <1>0, <1>10, <2>2, <2>4, <3>1, <3>4, CallMoves DEF WaitReceive
  <2>5. QED
    BY <1>10, <2>3, <2>4 DEF WaitReceive
<1>11. ASSUME NEW t \in ToolCalls, WaitLeave(t) \/ CutOff(t) PROVE TeamInv'
  BY <1>1, <1>11 DEF WaitLeave, CutOff, Off, Heard
<1>12. ASSUME NEW c \in Children, TakeSlot(c) \/ ChildEnds(c) PROVE TeamInv'
  BY <1>2, <1>12 DEF TakeSlot, ChildEnds
<1>13. ASSUME NEW c \in Children, Conclude(c) \/ AgentSend(c) PROVE TeamInv'
  <2>1. PICK what \in Children \cup {"talk"} : inbox' = Append(inbox, what)
    BY <1>13 DEF Conclude, AgentSend
  <2>2. /\ inbox' \in Seq(Children \cup {"talk"}) /\ Len(inbox') = Len(inbox) + 1
        /\ \A i \in DOMAIN inbox : i \in DOMAIN inbox' /\ inbox'[i] = inbox[i]
        /\ DOMAIN inbox' = 1 .. Len(inbox) + 1
        /\ inbox'[Len(inbox) + 1] = what
    BY <1>0, <2>1
  <2>3. UNCHANGED <<seen, handed, call, closed>>
    BY <1>13 DEF Conclude, AgentSend
  <2>4. \A t \in ToolCalls : Heard(call[t])'
    BY <1>0, <2>2, <2>3, StillHeard DEF TeamInv
  <2>5. ASSUME NEW d \in Children PROVE Told(d)'
    <3>1. Told(d)
      BY DEF TeamInv
    <3>2. CASE status'[d] = status[d]
      BY <2>2, <2>3, <3>1, <3>2 DEF Told
    <3>3. CASE status'[d] # status[d]
      <4>1. d = c /\ Conclude(c)
        BY <1>0, <1>13, <3>3 DEF Conclude, AgentSend
      <4>2. status'[d] = "ended" /\ inbox' = Append(inbox, d)
        BY <1>0, <4>1 DEF Conclude
      <4>3. inbox'[Len(inbox) + 1] = d /\ Len(inbox) + 1 \in DOMAIN inbox'
        BY <1>0, <2>2, <4>2
      <4>4. QED
        BY <4>2, <4>3 DEF Told
    <3>4. QED
      BY <3>2, <3>3
  <2>6. status' \in [Children -> Final \cup {"absent", "active"}]
    BY <1>0, <1>13 DEF Conclude, AgentSend, Final
  <2>7. QED
    BY <1>0, <2>2, <2>3, <2>4, <2>5, <2>6 DEF TeamInv
<1>14. CASE Close
  <2>1. \A t \in ToolCalls : Heard(call[t])'
    BY <1>14 DEF Close, Off, Heard
  <2>2. \A c \in Children : Told(c)'
    BY <1>14 DEF Close, TeamInv, Told
  <2>3. QED
    BY <1>0, <1>14, <2>1, <2>2 DEF Close, TeamInv, Final
<1>15. QED
  BY <1>2, <1>3, <1>4, <1>5, <1>6, <1>7, <1>8, <1>9, <1>10, <1>11, <1>12, <1>13, <1>14
     DEF TeamNext, teamVars

\* A wait lists the members that ended, then reads the root's messages: who is
\* in the list has reported, and the report has been handed over, unless the
\* page was full (AgentTeam.wait).
THEOREM EndsComeWithResults == TeamSpec => []FinishedMeansReported
<1>1. TeamInv => FinishedMeansReported
  BY DEF TeamInv, Heard, FinishedMeansReported
<1>2. QED
  BY <1>1, TeamStarts, TeamMoves, PTL DEF TeamSpec

WaitsInv == waiting \in [Members -> SUBSET Members] /\ DeclaredWaitsAreAcyclic

\* Entries that are dropped or stay take nobody into a circle.
LEMMA FewerWaits ==
  ASSUME WaitsInv, waiting' \in [Members -> SUBSET Members],
         \A m \in Members : waiting'[m] \subseteq waiting[m]
  PROVE  WaitsInv'
<1>1. ASSUME NEW group \in (SUBSET Members) \ {{}} PROVE \E m \in group : waiting'[m] \cap group = {}
  <2>1. PICK m \in group : waiting[m] \cap group = {}
    BY DEF WaitsInv, DeclaredWaitsAreAcyclic
  <2>2. waiting'[m] \cap group = {}
    BY <2>1
  <2>3. QED
    BY <2>2
<1>2. QED
  BY <1>1 DEF WaitsInv, DeclaredWaitsAreAcyclic, Members

\* A member that starts to wait for others from whom it is not reached: what its
\* targets reach is a group without it, so a group that meets it finds somebody
\* there, and any other finds whom it found before, or the member itself.
LEMMA CheckedWait ==
  ASSUME WaitsInv, NEW m \in Members, NEW targets \in SUBSET Members,
         \A x \in targets : ~Reaches(x, m), waiting' = [waiting EXCEPT ![m] = targets]
  PROVE  WaitsInv'
<1> DEFINE reached == {y \in Members : \E x \in targets : Reaches(x, y)}
<1>1. /\ waiting \in [Members -> SUBSET Members]
      /\ waiting' \in [Members -> SUBSET Members]
      /\ waiting'[m] = targets
      /\ \A x \in Members : x # m => waiting'[x] = waiting[x]
  BY DEF WaitsInv
<1>2. targets \subseteq reached /\ m \notin reached
  BY DEF Reaches
<1>3. ASSUME NEW y \in reached PROVE waiting[y] \subseteq reached
  <2>1. PICK x \in targets : Reaches(x, y)
    OBVIOUS
  <2>2. \A z \in waiting[y] : Reaches(x, z)
    BY <2>1 DEF Reaches
  <2>3. QED
    BY <1>1, <2>2
<1>4. reached \subseteq Members
  OBVIOUS
<1> HIDE DEF reached
<1>5. ASSUME NEW group \in (SUBSET Members) \ {{}} PROVE \E x \in group : waiting'[x] \cap group = {}
  <2>1. CASE group \cap reached # {}
    <3>1. PICK x \in group \cap reached : waiting[x] \cap (group \cap reached) = {}
      BY <1>4, <2>1 DEF WaitsInv, DeclaredWaitsAreAcyclic
    <3>2. waiting'[x] = waiting[x] /\ waiting[x] \subseteq reached
      BY <1>1, <1>2, <1>3
    <3>3. QED
      BY <3>1, <3>2
  <2>2. CASE group \cap reached = {}
    <3>1. PICK x \in group : waiting[x] \cap group = {}
      BY DEF WaitsInv, DeclaredWaitsAreAcyclic
    <3>2. CASE x = m
      BY <1>1, <1>2, <2>2, <3>2
    <3>3. CASE x # m
      BY <1>1, <3>1, <3>3
    <3>4. QED
      BY <3>2, <3>3
  <2>3. QED
    BY <2>1, <2>2
<1>6. QED
  BY <1>1, <1>5 DEF WaitsInv, DeclaredWaitsAreAcyclic, Members

LEMMA WaitsMove == WaitsInv /\ [TeamNext]_teamVars => WaitsInv'
<1> SUFFICES ASSUME WaitsInv, [TeamNext]_teamVars PROVE WaitsInv'
  OBVIOUS
<1>0. waiting \in [Members -> SUBSET Members]
  BY DEF WaitsInv
<1>1. CASE UNCHANGED waiting
  BY <1>0, <1>1, FewerWaits
<1>2. ASSUME NEW t \in ToolCalls, NEW m \in Members, NEW targets \in SUBSET Members,
             AgentWait(t, m, targets)
      PROVE  WaitsInv'
  BY <1>2, CheckedWait DEF AgentWait
<1>3. ASSUME NEW who, waiting' = [waiting EXCEPT ![who] = {}] PROVE WaitsInv'
  BY <1>0, <1>3, FewerWaits
<1>4. CASE Close
  BY <1>0, <1>4, FewerWaits DEF Close
<1>5. ASSUME NEW t \in ToolCalls, WaitReceive(t) \/ CutOff(t) PROVE WaitsInv'
  BY <1>1, <1>3, <1>5 DEF WaitReceive, CutOff
<1>6. QED
  BY <1>1, <1>2, <1>4, <1>5
     DEF TeamNext, teamVars, AgentSpawn, SpawnCreate, SpawnSend, AgentReceive, ReceiveReturns,
         WaitList, WaitLeave, TakeSlot, ChildEnds, Conclude, AgentSend

LEMMA WaitsStart == TeamInit => WaitsInv
<1> SUFFICES ASSUME TeamInit PROVE WaitsInv
  OBVIOUS
<1>1. waiting = [m \in Members |-> {}]
  BY DEF TeamInit
<1>2. waiting \in [Members -> SUBSET Members]
  BY <1>1
<1>3. ASSUME NEW group \in (SUBSET Members) \ {{}} PROVE \E m \in group : waiting[m] \cap group = {}
  <2>1. PICK m \in group : TRUE
    OBVIOUS
  <2>2. waiting[m] = {}
    BY <1>1
  <2>3. QED
    BY <2>2
<1>4. QED
  BY <1>2, <1>3 DEF WaitsInv, DeclaredWaitsAreAcyclic

\* Whatever waits begin, are replaced, end or are cut off in whatever order, the
\* declared ones never close a circle: the check of a new one against the others
\* and its entry are one step (AgentTeam.wait).
THEOREM WaitsAreAcyclic == TeamSpec => []DeclaredWaitsAreAcyclic
<1>1. WaitsInv => DeclaredWaitsAreAcyclic
  BY DEF WaitsInv
<1>2. QED
  BY <1>1, WaitsStart, WaitsMove, PTL DEF TeamSpec

\* The state of a team keeps its type (AgentTeam).
THEOREM TeamTyped == TeamSpec => []TeamTypeOK
<1> DEFINE Ops == child \in [Children -> {"off", "slot", "running", "ending"}]
                  /\ \A t \in ToolCalls : call[t].op \in {"off", "spawn", "receive", "wait"}
<1>1. TeamInit => Ops
  BY DEF TeamInit, Off
<1>2. TeamInv /\ Ops /\ [TeamNext]_teamVars => Ops'
  <2> SUFFICES ASSUME TeamInv, Ops, [TeamNext]_teamVars PROVE Ops'
    OBVIOUS
  <2>1. DOMAIN call = ToolCalls
    BY DEF TeamInv
  <2>2. CASE UNCHANGED <<child, call>>
    BY <2>2
  <2>3. ASSUME NEW t \in ToolCalls, NEW y, call' = [call EXCEPT ![t] = y], UNCHANGED child,
               y.op \in {"off", "spawn", "receive", "wait"}
        PROVE  Ops'
    BY <2>1, <2>3
  <2>4. ASSUME NEW t \in ToolCalls,
               \/ \E c \in Children : AgentSpawn(t, c)
               \/ AgentReceive(t) \/ ReceiveReturns(t)
               \/ \E m \in Members, targets \in SUBSET Members : AgentWait(t, m, targets)
               \/ WaitList(t) \/ WaitReceive(t) \/ WaitLeave(t) \/ CutOff(t)
        PROVE  Ops'
    BY <2>3, <2>4 DEF AgentSpawn, AgentReceive, ReceiveReturns, AgentWait, WaitList, WaitReceive,
                      WaitLeave, CutOff, Off
  <2>5. ASSUME NEW t \in ToolCalls, SpawnCreate(t) PROVE Ops'
    <3>1. PICK y : y = [call[t] EXCEPT !.at = "send"]
      OBVIOUS
    <3>2. y.op = "spawn" /\ call' = [call EXCEPT ![t] = y] /\ UNCHANGED child
      BY <2>1, <2>5, <3>1 DEF SpawnCreate
    <3>3. QED
      BY <2>3, <3>2
  <2>6. ASSUME NEW t \in ToolCalls, SpawnSend(t) PROVE Ops'
    BY <2>1, <2>6 DEF SpawnSend, Off
  <2>7. ASSUME NEW c \in Children, TakeSlot(c) \/ ChildEnds(c) \/ Conclude(c) \/ AgentSend(c)
        PROVE  Ops'
    BY <2>7 DEF TakeSlot, ChildEnds, Conclude, AgentSend
  <2>8. CASE Close
    BY <2>8 DEF Close, Off
  <2>9. QED
    BY <2>2, <2>4, <2>5, <2>6, <2>7, <2>8 DEF TeamNext, teamVars
<1>3. TeamInv /\ Ops /\ WaitsInv => TeamTypeOK
  BY DEF TeamInv, WaitsInv, TeamTypeOK
<1> HIDE DEF Ops
<1>4. QED
  BY <1>1, <1>2, <1>3, TeamStarts, TeamMoves, WaitsStart, WaitsMove, PTL DEF TeamSpec

-----------------------------------------------------------------------------
(* The components side by side, as MCServices checks them. *)

\* Each component behaves as its own specification says, whichever of the others
\* run: what is proved of one holds beside the others.
THEOREM EachKeepsItsSpec ==
  ServicesSpec => /\ ObjectsSpec /\ MemorySpec /\ FairRunsSpec
                  /\ FairGatewaySpec /\ TeamSpec /\ OrdersSpec
<1>1. ServicesInit => ObjectsInit /\ MemoryInit /\ RunsInit /\ GatewayInit /\ TeamInit /\ OrdersInit
  BY DEF ServicesInit
<1>2. [ServicesNext]_servicesVars => [ObjectsNext]_objectVars
  BY DEF ServicesNext, servicesVars
<1>3. [ServicesNext]_servicesVars => [MemoryNext]_syncVars
  BY DEF ServicesNext, servicesVars
<1>4. [ServicesNext]_servicesVars => [RunsNext]_runVars
  BY DEF ServicesNext, servicesVars
<1>5. [ServicesNext]_servicesVars => [GatewayNext]_gatewayVars
  BY DEF ServicesNext, servicesVars
<1>6. [ServicesNext]_servicesVars => [TeamNext]_teamVars
  BY DEF ServicesNext, servicesVars
<1>7. [ServicesNext]_servicesVars => [OrdersNext]_orderVars
  BY DEF ServicesNext, servicesVars
<1>8. QED
  BY <1>1, <1>2, <1>3, <1>4, <1>5, <1>6, <1>7, PTL
     DEF ServicesSpec, ObjectsSpec, MemorySpec, FairRunsSpec, RunsSpec, FairGatewaySpec, GatewaySpec,
         TeamSpec, OrdersSpec

\* The components keep their types side by side.
THEOREM ServicesTyped == ServicesSpec => []ServicesTypeOK
<1>1. MemorySpec => []MemoryTypeOK
  <2>1. MemoryInv => MemoryTypeOK
    BY DEF MemoryInv
  <2>2. QED
    BY <2>1, MemoryStarts, MemoryMoves, PTL DEF MemorySpec
<1>2. QED
  BY <1>1, EachKeepsItsSpec, ObjectsTyped, RunsTyped, GatewayTyped, TeamTyped, OrdersTyped, PTL
     DEF ServicesTypeOK, FairRunsSpec, FairGatewaySpec

=============================================================================
