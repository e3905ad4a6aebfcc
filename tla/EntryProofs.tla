----------------------------- MODULE EntryProofs -----------------------------
(***************************************************************************)
(* Proofs about what the entries of a trace say, for every process: the    *)
(* memory changes of an entry are the differences between two readings of  *)
(* its window, and in sessions that the listed events leave alone no state *)
(* is recorded twice, the depth is the number of open frames, and the      *)
(* summary printed at the end lacks at most the last entry.                *)
(***************************************************************************)
EXTENDS RecordingProofs

-----------------------------------------------------------------------------
(* Memory changes. *)

\* Entry s shows the changes of its window, as MemChangesFollowMemory has it.
ShowsChanges(s) ==
  db[s].mem_changes =
    IF ReadsWindow(s)
    THEN UNION {ChangedBetween(db[r].tick, db[s].tick, Window(StackBase(db[s].sp))) :
                  r \in LastReading(s)}
    ELSE {}

\* Entry r is the last to have read the window at base before step n.
Reads(r, base) == ReadsWindow(r) /\ StackBase(db[r].sp) = base

LastReader(r, base, n) ==
  /\ r \in 0 .. n - 1 /\ Reads(r, base)
  /\ \A q \in r + 1 .. n - 1 : ~Reads(q, base)

\* What is cached for a window is the stack as its last reader found it, and
\* every window that was read is cached.
CacheFresh ==
  /\ \A base \in DOMAIN memory_cache :
       \E r \in DOMAIN db :
         /\ LastReader(r, base, step_count)
         /\ memory_cache[base] = [a \in Window(base) |-> stackAt[db[r].tick][a]]
  /\ \A r \in DOMAIN db : ReadsWindow(r) => StackBase(db[r].sp) \in DOMAIN memory_cache

\* last_sp is the stack pointer of the last entry; before there is one, the
\* process has not moved since last_sp was first set.
LastSpInv ==
  /\ step_count > 0 => last_sp = db[step_count - 1].sp
  /\ step_count = 0 => last_sp \in {0, cpu.sp}
  /\ pc \in {"decode", "record"} => last_sp # 0

\* Record may still come.
MayRecord == proc # "dead" \/ pc = "record"

MemoryInv ==
  /\ MayRecord => CacheFresh
  /\ LastSpInv
  /\ \A s \in DOMAIN db :
       ShowsChanges(s) \/ (~MayRecord /\ s = step_count - 1 /\ db[s].mem_changes = {})

\* There is no entry yet whose changes could be wrong.
LEMMA InitMemory == Init => MemoryInv
<1> SUFFICES ASSUME Init PROVE MemoryInv
  OBVIOUS
<1>1. DOMAIN db = {} /\ DOMAIN memory_cache = {} /\ step_count = 0 /\ last_sp = 0 /\ pc = "loop"
  BY DEF Init, TracerInit, SessionInit, EmptyDb
<1> QED
  BY <1>1 DEF MemoryInv, CacheFresh, LastSpInv

\* The trace and the history of the stack only grow.
Grows ==
  /\ \A s \in 0 .. step_count - 1 : db'[s] = db[s]
  /\ \A t \in 0 .. cpu.tick : stackAt'[t] = stackAt[t]

\* An entry's relation to earlier ones is not changed by what comes later.
LEMMA EntryKept ==
  ASSUME TypeOK, Ordered, Grows, NEW s \in 0 .. step_count - 1
  PROVE  /\ ReadsWindow(s)' <=> ReadsWindow(s)
         /\ \A base : Reads(s, base)' <=> Reads(s, base)
         /\ ShowsChanges(s)' <=> ShowsChanges(s)
<1>1. step_count \in Nat /\ DOMAIN db = 0 .. step_count - 1 /\ cpu.tick \in Nat
      /\ \A r \in DOMAIN db : db[r].tick \in 0 .. cpu.tick
  BY TickType DEF Ordered
<1>2. \A r \in 0 .. step_count - 1 : ReadsWindow(r)' <=> ReadsWindow(r)
  <2> SUFFICES ASSUME NEW r \in 0 .. step_count - 1
               PROVE  ReadsWindow(r)' <=> ReadsWindow(r)
    OBVIOUS
  <2>1. db'[r] = db[r] /\ (r > 0 => db'[r - 1] = db[r - 1])
    BY <1>1 DEF Grows
  <2> QED
    BY <2>1 DEF ReadsWindow
<1>3. \A r \in 0 .. step_count - 1 : \A base : Reads(r, base)' <=> Reads(r, base)
  BY <1>2 DEF Reads, Grows
<1>4. LastReading(s)' = LastReading(s)
  <2>1. \A r \in 0 .. s - 1 : r \in 0 .. step_count - 1
    BY <1>1
  <2>2. \A r \in 0 .. s - 1 : \A q \in r + 1 .. s - 1 : q \in 0 .. step_count - 1
    BY <1>1
  <2>3. \A r \in 0 .. s - 1 : /\ ReadsWindow(r)' <=> ReadsWindow(r)
                              /\ db'[r] = db[r]
    BY <1>2, <2>1 DEF Grows
  <2>4. \A r \in 0 .. s - 1 : \A q \in r + 1 .. s - 1 : /\ ReadsWindow(q)' <=> ReadsWindow(q)
                                                        /\ db'[q] = db[q]
    BY <1>2, <2>2 DEF Grows
  <2>5. db'[s] = db[s]
    BY DEF Grows
  <2> QED
    BY <2>3, <2>4, <2>5 DEF LastReading
<1>5. \A r \in LastReading(s) :
        ChangedBetween(db[r].tick, db[s].tick, Window(StackBase(db[s].sp)))'
        = ChangedBetween(db[r].tick, db[s].tick, Window(StackBase(db[s].sp)))
  <2> TAKE r \in LastReading(s)
  <2>1. r \in 0 .. step_count - 1
    BY <1>1 DEF LastReading
  <2>2. /\ db'[r] = db[r] /\ db'[s] = db[s]
        /\ stackAt'[db[r].tick] = stackAt[db[r].tick] /\ stackAt'[db[s].tick] = stackAt[db[s].tick]
    BY <1>1, <2>1 DEF Grows
  <2> QED
    BY <2>2 DEF ChangedBetween
<1>6. db'[s] = db[s]
  BY DEF Grows
<1> QED
  BY <1>2, <1>3, <1>4, <1>5, <1>6 DEF ShowsChanges

\* A step that records nothing keeps what is known of the entries.
LEMMA MemoryKept ==
  ASSUME TypeOK, Ordered, MemoryInv, UNCHANGED << db, step_count, memory_cache >>,
         \A t \in 0 .. cpu.tick : stackAt'[t] = stackAt[t],
         MayRecord' => MayRecord, LastSpInv'
  PROVE  MemoryInv'
<1>0. Grows /\ step_count \in Nat /\ DOMAIN db = 0 .. step_count - 1
      /\ \A r \in DOMAIN db : db[r].tick \in 0 .. cpu.tick
  BY TickType DEF Grows, Ordered
<1>1. \A s \in DOMAIN db : ShowsChanges(s)' <=> ShowsChanges(s)
  BY <1>0, EntryKept
<1>2. \A s \in DOMAIN db : ReadsWindow(s)' <=> ReadsWindow(s)
  BY <1>0, EntryKept
<1>3. ASSUME CacheFresh PROVE CacheFresh'
  <2>1. ASSUME NEW base \in DOMAIN memory_cache
        PROVE  \E r \in DOMAIN db' :
                 /\ LastReader(r, base, step_count)'
                 /\ memory_cache'[base] = [a \in Window(base) |-> stackAt'[db'[r].tick][a]]
    <3>1. PICK r \in DOMAIN db :
                 /\ LastReader(r, base, step_count)
                 /\ memory_cache[base] = [a \in Window(base) |-> stackAt[db[r].tick][a]]
      BY <1>3 DEF CacheFresh
    <3>2. \A q \in DOMAIN db : Reads(q, base)' <=> Reads(q, base)
      BY <1>0, EntryKept
    <3>3. \A q \in r + 1 .. step_count - 1 : q \in DOMAIN db
      BY <1>0, <3>1
    <3>4. LastReader(r, base, step_count)'
      BY <3>1, <3>2, <3>3 DEF LastReader
    <3>5. stackAt'[db[r].tick] = stackAt[db[r].tick]
      BY <1>0
    <3> QED
      BY <3>1, <3>4, <3>5
  <2> QED
    BY <1>2, <1>3, <2>1 DEF CacheFresh
<1> QED
  BY <1>1, <1>3 DEF MemoryInv

\* The changes between two readings of a window.
LEMMA ChangesAreDifferences ==
  ASSUME NEW t, NEW u, NEW W
  PROVE  ChangedBetween(t, u, W)
         = Differences([a \in W |-> stackAt[t][a]], [a \in W |-> stackAt[u][a]])
BY DEF ChangedBetween, Differences

\* The entry that record adds shows what changed since the window was last
\* read, which is what the snapshot kept for its base holds.
LEMMA RecordMemory ==
  ASSUME TypeOK, Faithful, MemoryInv, Record
  PROVE  MemoryInv'
<1>0. PICK n, base : n = step_count /\ base = StackBase(cpu.sp)
  OBVIOUS
<1>a. PICK checked \in BOOLEAN : checked <=> NeedsCheck(cpu.insn, cpu.sp) /\ Readable(base)
  BY DEF NeedsCheck
<1>b. PICK e : e = NewEntry(checked)
  OBVIOUS
<1>1. /\ n \in Nat /\ DOMAIN db = 0 .. n - 1 /\ cpu.tick \in Nat
      /\ cpu.sp \in SPs /\ cpu.sp # 0
  BY <1>0, TickType, TraceeAssumption DEF TypeOK, TraceeTypeOK
<1>2. /\ step_count = n /\ base = StackBase(cpu.sp)
      /\ db' = Insert(db, e) /\ step_count' = n + 1 /\ last_sp' = cpu.sp /\ pc = "record" /\ pc' = "step"
      /\ memory_cache' = IF checked THEN CacheWindow(base) ELSE memory_cache
      /\ UNCHANGED traceeVars
  BY <1>0, <1>a, <1>b DEF Record
<1>3. /\ DOMAIN db' = 0 .. n /\ db'[n] = e
      /\ \A s \in 0 .. n - 1 : db'[s] = db[s]
  BY <1>0, <1>b, <1>1, <1>2, InsertNext DEF NewEntry
<1>4. Grows
  BY <1>0, <1>2, <1>3 DEF Grows, traceeVars
<1>5. /\ \A s \in 0 .. n - 1 : ReadsWindow(s)' <=> ReadsWindow(s)
      /\ \A s \in 0 .. n - 1 : \A b : Reads(s, b)' <=> Reads(s, b)
      /\ \A s \in 0 .. n - 1 : ShowsChanges(s)' <=> ShowsChanges(s)
  BY <1>0, <1>4, EntryKept DEF Faithful
<1>6. e.sp = cpu.sp /\ e.insn = cpu.insn /\ e.tick = cpu.tick
      /\ e.mem_changes = IF checked THEN MemChanges(base) ELSE {}
  BY <1>0, <1>b DEF NewEntry
<1>7. ReadsWindow(n)' <=> Mapped(base) /\ NeedsCheck(cpu.insn, cpu.sp)
  <2>1. last_sp = IF n > 0 THEN db[n - 1].sp ELSE cpu.sp
    BY <1>0, <1>1, <1>2 DEF MemoryInv, LastSpInv
  <2>2. n > 0 => db'[n - 1] = db[n - 1]
    BY <1>1, <1>3
  <2> QED
    BY <1>0, <1>1, <1>3, <1>6, <2>1, <2>2 DEF ReadsWindow, NeedsCheck
<1>8. LastSpInv'
  BY <1>1, <1>2, <1>3, <1>6 DEF LastSpInv
<1>9. CASE proc = "dead"
  <2>1. ~checked /\ ~MayRecord'
    BY <1>2, <1>9, <1>a DEF Readable, MayRecord, traceeVars
  <2>2. \A s \in 0 .. n - 1 : ShowsChanges(s)
    BY <1>0, <1>1, <1>2 DEF MemoryInv, MayRecord
  <2>3. db'[n].mem_changes = {}
    BY <1>3, <1>6, <2>1
  <2>4. \A s \in DOMAIN db' : ShowsChanges(s)' \/ (s = step_count' - 1 /\ db'[s].mem_changes = {})
    BY <1>1, <1>2, <1>3, <1>5, <2>2, <2>3
  <2> QED
    BY <1>8, <2>1, <2>4 DEF MemoryInv
<1>10. CASE proc # "dead"
  <2>1. CacheFresh /\ \A s \in 0 .. n - 1 : ShowsChanges(s)
    BY <1>1, <1>10 DEF MemoryInv, MayRecord
  <2>2. checked <=> ReadsWindow(n)'
    BY <1>7, <1>10, <1>a DEF Readable
  <2>3. \A b : Reads(n, b)' <=> checked /\ b = base
    BY <1>0, <1>3, <1>6, <2>2 DEF Reads
  <2>4. ShowsChanges(n)'
    <3>1. CASE ~checked
      BY <1>3, <1>6, <2>2, <3>1 DEF ShowsChanges
    <3>2. CASE checked /\ base \notin DOMAIN memory_cache
      <4>1. ASSUME NEW r \in LastReading(n)' PROVE FALSE
        <5>1. r \in 0 .. n - 1 /\ ReadsWindow(r)' /\ StackBase(db'[r].sp) = base
          BY <1>0, <1>3, <1>6 DEF LastReading
        <5> QED
          BY <1>1, <1>3, <1>5, <2>1, <3>2, <5>1 DEF CacheFresh
      <4>2. e.mem_changes = {}
        BY <1>6, <3>2 DEF MemChanges
      <4> QED
        BY <1>3, <4>1, <4>2, <2>2, <3>2 DEF ShowsChanges
    <3>3. CASE checked /\ base \in DOMAIN memory_cache
      <4>1. PICK r \in DOMAIN db :
              /\ LastReader(r, base, n)
              /\ memory_cache[base] = [a \in Window(base) |-> stackAt[db[r].tick][a]]
        BY <1>0, <2>1, <3>3 DEF CacheFresh
      <4>2. LastReading(n)' = {r}
        <5>1. \A q \in 0 .. n - 1 : /\ ReadsWindow(q)' /\ StackBase(db'[q].sp) = StackBase(db'[n].sp)
                                       <=> Reads(q, base)
          BY <1>0, <1>3, <1>5, <1>6 DEF Reads
        <5>2. \A q \in 0 .. n - 1 : \A q1 \in q + 1 .. n - 1 : q1 \in 0 .. n - 1
          BY <1>1
        <5>3. LastReading(n)' = {q \in 0 .. n - 1 : Reads(q, base) /\ \A q1 \in q + 1 .. n - 1 : ~Reads(q1, base)}
          BY <5>1, <5>2 DEF LastReading
        <5>4. r \in 0 .. n - 1 /\ Reads(r, base) /\ \A q1 \in r + 1 .. n - 1 : ~Reads(q1, base)
          BY <4>1 DEF LastReader
        <5>5. \A q \in 0 .. n - 1 : q # r => q \in r + 1 .. n - 1 \/ r \in q + 1 .. n - 1
          BY <5>4, <1>1
        <5> QED
          BY <5>3, <5>4, <5>5
      <4>3. ChangedBetween(db[r].tick, cpu.tick, Window(base)) = Differences(memory_cache[base], ReadMemory(base))
        BY <4>1, ChangesAreDifferences DEF ReadMemory
      <4>4. e.mem_changes = ChangedBetween(db[r].tick, cpu.tick, Window(base))
        BY <1>6, <3>3, <4>3 DEF MemChanges
      <4>5. ChangedBetween(db[r].tick, db[n].tick, Window(StackBase(db[n].sp)))'
            = ChangedBetween(db[r].tick, cpu.tick, Window(base))
        BY <1>2, <1>3, <1>6, <1>1 DEF ChangedBetween, traceeVars
      <4>6. UNION {ChangedBetween(db[q].tick, db[n].tick, Window(StackBase(db[n].sp)))' : q \in {r}}
            = ChangedBetween(db[r].tick, db[n].tick, Window(StackBase(db[n].sp)))'
        OBVIOUS
      <4> QED
        BY <1>3, <4>2, <4>4, <4>5, <4>6, <2>2, <3>3 DEF ShowsChanges
    <3> QED
      BY <3>1, <3>2, <3>3
  <2>5. CacheFresh'
    <3>1. ASSUME NEW b \in DOMAIN memory_cache'
          PROVE  \E r \in DOMAIN db' :
                   /\ LastReader(r, b, step_count)'
                   /\ memory_cache'[b] = [a \in Window(b) |-> stackAt'[db'[r].tick][a]]
      <4>1. CASE checked /\ b = base
        <5>1. LastReader(n, base, step_count)'
          BY <1>0, <1>1, <1>2, <2>3, <4>1 DEF LastReader
        <5>2. memory_cache'[base] = [a \in Window(base) |-> stackAt[cpu.tick][a]]
          BY <1>2, <4>1 DEF CacheWindow, ReadMemory
        <5> QED
          BY <1>1, <1>2, <1>3, <1>6, <4>1, <5>1, <5>2 DEF traceeVars
      <4>2. CASE ~(checked /\ b = base)
        <5>1. b \in DOMAIN memory_cache /\ memory_cache'[b] = memory_cache[b]
          BY <1>2, <3>1, <4>2 DEF CacheWindow
        <5>2. PICK r \in DOMAIN db :
                /\ LastReader(r, b, n)
                /\ memory_cache[b] = [a \in Window(b) |-> stackAt[db[r].tick][a]]
          BY <1>0, <2>1, <5>1 DEF CacheFresh
        <5>3. LastReader(r, b, step_count)'
          <6>1. r \in 0 .. n - 1 /\ r \in 0 .. (n + 1) - 1 /\ Reads(r, b)'
            BY <1>1, <1>5, <5>2 DEF LastReader
          <6>2. ASSUME NEW q \in r + 1 .. (n + 1) - 1 PROVE ~Reads(q, b)'
            <7>1. q = n \/ (q \in 0 .. n - 1 /\ q \in r + 1 .. n - 1)
              BY <1>1, <6>1
            <7> QED
              BY <1>5, <2>3, <4>2, <5>2, <7>1 DEF LastReader
          <6> QED
            BY <1>2, <6>1, <6>2 DEF LastReader
        <5> QED
          BY <1>1, <1>2, <1>3, <5>1, <5>2, <5>3 DEF traceeVars
      <4> QED
        BY <4>1, <4>2
    <3>2. \A r \in DOMAIN db' : ReadsWindow(r)' => StackBase(db'[r].sp) \in DOMAIN memory_cache'
      <4>1. DOMAIN memory_cache \subseteq DOMAIN memory_cache' /\ (checked => base \in DOMAIN memory_cache')
        BY <1>2 DEF CacheWindow
      <4>2. \A r \in 0 .. n - 1 : ReadsWindow(r)' => StackBase(db'[r].sp) \in DOMAIN memory_cache'
        BY <1>1, <1>3, <1>5, <2>1, <4>1 DEF CacheFresh
      <4>3. ReadsWindow(n)' => StackBase(db'[n].sp) \in DOMAIN memory_cache'
        BY <1>0, <1>3, <1>6, <2>2, <4>1
      <4> QED
        BY <1>1, <1>3, <4>2, <4>3
    <3> QED
      BY <3>1, <3>2 DEF CacheFresh
  <2>6. \A s \in DOMAIN db' : ShowsChanges(s)'
    BY <1>1, <1>3, <1>5, <2>1, <2>4
  <2> QED
    BY <1>8, <2>5, <2>6 DEF MemoryInv
<1> QED
  BY <1>9, <1>10

\* Record adds an entry that is right, and nothing changes one.
LEMMA NextMemory == TypeOK /\ Control /\ Faithful /\ MemoryInv /\ [Next]_vars => MemoryInv'
<1> SUFFICES ASSUME TypeOK, Control, Faithful, MemoryInv, [Next]_vars
             PROVE  MemoryInv'
  OBVIOUS
<1>0. Ordered /\ LastSpInv /\ step_count \in Nat /\ cpu.sp \in SPs /\ cpu.sp # 0
      /\ \A s \in DOMAIN db : db[s].sp \in SPs /\ db[s].sp # 0
  BY TraceeAssumption, TickType
     DEF Faithful, MemoryInv, TypeOK, TraceeTypeOK, TracerTypeOK, TraceEntry
<1> DEFINE Idle == UNCHANGED << db, step_count, memory_cache, last_sp >>
<1>1. ASSUME Idle, \A t \in 0 .. cpu.tick : stackAt'[t] = stackAt[t],
             step_count > 0 \/ UNCHANGED cpu,
             pc' \in {"decode", "record"} => pc \in {"decode", "record"},
             MayRecord' => MayRecord
      PROVE  MemoryInv'
  <2>1. LastSpInv'
    BY <1>0, <1>1 DEF LastSpInv
  <2> QED
    BY <1>0, <1>1, <2>1, MemoryKept
<1>2. CASE StepTracer
  <2>1. CASE Record
    BY <2>1, RecordMemory
  <2>2. CASE ReadRegisters
    <3>1. /\ UNCHANGED << db, step_count, memory_cache, traceeVars >>
          /\ last_sp' = IF last_sp = 0 THEN cpu.sp ELSE last_sp
          /\ proc # "dead"
      BY <2>2 DEF ReadRegisters, LastSp, ThreadsFound
    <3>2. step_count > 0 => db[step_count - 1].sp # 0
      BY <1>0, TickType
    <3>3. LastSpInv'
      BY <1>0, <3>1, <3>2 DEF LastSpInv, traceeVars
    <3> QED
      BY <1>0, <3>1, <3>3, MemoryKept DEF MayRecord, traceeVars
  <2>3. CASE ReadFails \/ DecodeFails \/ StepFails \/ WaitFails
    BY <1>1, <2>3 DEF ReadFails, DecodeFails, StepFails, WaitFails, tracerVars, traceeVars, MayRecord
  <2>4. CASE Decode
    BY <1>1, <2>4 DEF Decode, ThreadsFound, tracerVars, traceeVars, MayRecord
  <2>5. CASE StepSucceeds
    BY <1>1, <2>5 DEF StepSucceeds, CanStep, MayRecord
  <2>6. CASE WaitTrap \/ WaitSignal \/ WaitExited
    BY <1>1, <2>6 DEF WaitTrap, WaitSignal, WaitExited, Collect, tracerVars, MayRecord
  <2> QED
    BY <1>2, <2>1, <2>2, <2>3, <2>4, <2>5, <2>6 DEF StepTracer, single_step
<1>3. CASE TraceeStep
  <2>0. Idle /\ UNCHANGED pc
    BY <1>3 DEF TraceeStep, tracerVars
  <2>1. proc \in {"running", "blocked"} => step_count > 0 /\ pc = "wait"
    BY DEF Faithful, Armed, MayRun, LastIsCurrent, Control
  <2>2. ASSUME NEW i, NEW p, NEW m, MoveTo(i, p, m)
        PROVE  \A t \in 0 .. cpu.tick : stackAt'[t] = stackAt[t]
    BY <2>2, TickType DEF MoveTo
  <2>3. CASE TrapAfterStep \/ Wake
    <3>1. /\ \A t \in 0 .. cpu.tick : stackAt'[t] = stackAt[t]
          /\ proc \in {"running", "blocked"}
      BY <2>2, <2>3 DEF TrapAfterStep, Wake, Retire
    <3> QED
      BY <1>1, <2>0, <2>1, <3>1 DEF MayRecord
  <2>4. ASSUME NEW s \in Signals, SignalStop(s) PROVE MemoryInv'
    <3>1. /\ \A t \in 0 .. cpu.tick : stackAt'[t] = stackAt[t]
          /\ proc \in {"running", "blocked"}
      BY <2>2, <2>4 DEF SignalStop, Retire
    <3> QED
      BY <1>1, <2>0, <2>1, <3>1 DEF MayRecord
  <2>5. CASE DeliverToHandler
    <3>1. /\ \A t \in 0 .. cpu.tick : stackAt'[t] = stackAt[t]
          /\ proc = "running"
      BY <2>2, <2>5 DEF DeliverToHandler, Deliver
    <3> QED
      BY <1>1, <2>0, <2>1, <3>1 DEF MayRecord
  <2>6. CASE Exit \/ Block \/ DeliverIgnored \/ DeliverFatal \/ Kill
    BY <1>1, <2>0, <2>6 DEF Exit, Block, DeliverIgnored, DeliverFatal, Deliver, Kill, MayRecord
  <2>7. ASSUME NEW new \in SUBSET Signals, PostSignals(new) PROVE MemoryInv'
    BY <1>1, <2>0, <2>7 DEF PostSignals, MayRecord
  <2> QED
    BY <1>3, <2>3, <2>4, <2>5, <2>6, <2>7 DEF TraceeStep, TraceeNext, TraceeProgress
<1>4. CASE LoopStops \/ LoopSteps \/ HandleOk \/ HandleExited \/ HandleError \/ Save
  BY <1>1, <1>4 DEF LoopStops, LoopSteps, HandleOk, HandleExited, HandleError, Save,
     tracerVars, traceeVars, MayRecord
<1>5. CASE DetachAndReport
  BY <1>1, <1>5 DEF DetachAndReport, Detach, PtraceDetach, tracerVars, MayRecord
<1>6. CASE SaveFails \/ Crash
  BY <1>1, <1>6 DEF SaveFails, Crash, Die, KillTracee, Finished, Control, tracerVars, MayRecord
<1>7. CASE CtrlC \/ CtrlCHandler
  BY <1>1, <1>7 DEF CtrlC, CtrlCHandler, tracerVars, traceeVars, MayRecord
<1>8. CASE UNCHANGED vars
  BY <1>1, <1>8 DEF vars, tracerVars, traceeVars, MayRecord
<1> QED
  BY <1>2, <1>3, <1>4, <1>5, <1>6, <1>7, <1>8 DEF Next, trace_loop, Terminated

\* Whatever happens to the process, the memory changes of an entry are the
\* bytes of its window that differ from the last reading of the same window;
\* only the last entry of a process that died may lack them.
THEOREM ChangesFollowMemory == Spec => []MemChangesFollowMemory
<1>1. TypeOK /\ MemoryInv => MemChangesFollowMemory
  BY DEF MemoryInv, MayRecord, ShowsChanges, MemChangesFollowMemory
<1> QED
  BY <1>1, InitMemory, NextMemory, AlwaysFaithful, PTL DEF Spec

-----------------------------------------------------------------------------
(* Sessions without signals. *)

\* Nothing sends the process a signal: other processes do not, and it is not
\* in the foreground process group when Ctrl+C is pressed.  PT_STEP does not
\* fail for a stopped process.
Undisturbed ==
  /\ Env \cap {"signal", "stepfail"} = {}
  /\ "interrupt" \notin Env \/ "run" \notin Modes

NoSignals ==
  /\ posted = {}
  /\ carried = NoSignal /\ pending_signal = NoSignal /\ status.kind # "signal"

\* A live process whose state is still to be recorded: tdb has not been at
\* Record since the process moved.
AtEntry == pc \in {"loop", "read", "decode", "record", "ok", "error"}

ExactInv ==
  /\ AtEntry /\ MayRecord => ~LastIsCurrent
  /\ pc = "wait" /\ status = Trap => ~LastIsCurrent

\* The frames above the outermost one that was returned to, after instruction i.
DepthAfter(depth, i) ==
  CASE i \in Calls   -> depth + 1
    [] i \in Returns -> IF depth > 0 THEN depth - 1 ELSE 0
    [] OTHER         -> depth

\* An instruction has been recorded that is still to be executed.
Underway == pc = "step" \/ (pc = "wait" /\ proc \in {"running", "blocked"})

DepthInv ==
  /\ lowest <= frames
  /\ pc \in {"decode", "record", "step"} => proc # "dead"
  /\ Underway => call_depth = DepthAfter(frames - lowest, cpu.insn)
  /\ ~Underway /\ pc # "crashed" => call_depth = frames - lowest

\* No signal is there at first.
LEMMA InitNoSignals == Init => NoSignals
BY DEF Init, TraceeInit, CpuInit, TracerInit, NoSignals, NoStatus

\* No signal ever comes up.
LEMMA NextNoSignals ==
  ASSUME Undisturbed
  PROVE  TypeOK /\ Control /\ NoSignals /\ [Next]_vars => NoSignals'
<1> SUFFICES ASSUME TypeOK, Control, NoSignals, [Next]_vars
             PROVE  NoSignals'
  OBVIOUS
<1> USE DEF NoStatus, Trap, Exited, SignalStatus
<1>1. CASE StepTracer
  BY <1>1 DEF StepTracer, single_step, ReadFails, ReadRegisters, DecodeFails, Decode, Record, StepSucceeds,
     StepFails, WaitTrap, WaitSignal, WaitExited, WaitFails, Collect, PtraceStep, TakeSignal,
     tracerVars, traceeVars, NoSignals
<1>2. CASE TraceeStep
  BY <1>2 DEF Undisturbed, TraceeStep, TraceeNext, TraceeProgress, TrapAfterStep, Block, Exit, SignalStop,
     DeliverIgnored, DeliverToHandler, DeliverFatal, Deliver, Wake, Kill, PostSignals, Stop, tracerVars, NoSignals
<1>3. CASE LoopStops \/ LoopSteps \/ HandleOk \/ HandleExited \/ HandleError \/ Save
  BY <1>3 DEF LoopStops, LoopSteps, HandleOk, HandleExited, HandleError, Save,
     tracerVars, traceeVars, NoSignals
<1>4. CASE DetachAndReport \/ SaveFails \/ Crash
  BY <1>4 DEF DetachAndReport, Detach, SaveFails, Crash, Die, KillTracee, tracerVars, NoSignals
<1>5. CASE CtrlC
  BY <1>5 DEF CtrlC, Undisturbed, TypeOK, SessionTypeOK, tracerVars, NoSignals
<1>6. CASE CtrlCHandler \/ UNCHANGED vars
  BY <1>6 DEF CtrlCHandler, vars, tracerVars, traceeVars, NoSignals
<1> QED
  BY <1>1, <1>2, <1>3, <1>4, <1>5, <1>6 DEF Next, trace_loop, Terminated

-----------------------------------------------------------------------------
(* Each instruction exactly once. *)

\* Nothing is recorded and nothing executed.
LEMMA InitExact == Init => ExactInv
BY DEF Init, TraceeInit, TracerInit, SessionInit, ExactInv, LastIsCurrent, NoStatus, Trap

\* Undisturbed, tdb records each state once before the process executes it.
LEMMA NextExact ==
  ASSUME Undisturbed
  PROVE  TypeOK /\ Control /\ Faithful /\ NoSignals /\ ExactInv /\ [Next]_vars => ExactInv'
<1> SUFFICES ASSUME TypeOK, Control, Faithful, NoSignals, ExactInv, [Next]_vars
             PROVE  ExactInv'
  OBVIOUS
<1> USE DEF NoStatus, Trap, Exited, SignalStatus
<1>0. proc \in {"stopped", "running", "blocked", "dead", "free"} /\ pc \in ControlPoints
      /\ status \in {NoStatus, Trap, Exited}
  BY DEF TypeOK, TraceeTypeOK, TracerTypeOK, NoSignals
<1>1. ASSUME UNCHANGED << db, step_count, cpu >> PROVE LastIsCurrent' <=> LastIsCurrent
  BY <1>1 DEF LastIsCurrent
<1>2. CASE StepTracer
  <2>1. CASE ReadFails \/ ReadRegisters \/ DecodeFails \/ Decode
    BY <1>1, <2>1 DEF ReadFails, ReadRegisters, DecodeFails, Decode, ThreadsFound, tracerVars, traceeVars,
       ExactInv, AtEntry, MayRecord
  <2>2. CASE Record
    BY <2>2 DEF Record, ExactInv, AtEntry
  <2>3. CASE StepSucceeds
    BY <1>0, <2>3 DEF StepSucceeds, CanStep, Control, ExactInv, AtEntry
  <2>4. CASE StepFails
    <3>1. proc = "dead" /\ proc' = "dead" /\ pc' = "error"
      BY <1>0, <2>4 DEF StepFails, CanStep, Undisturbed, Control, traceeVars
    <3> QED
      BY <3>1 DEF ExactInv, MayRecord
  <2>5. CASE WaitTrap
    BY <1>1, <2>5 DEF WaitTrap, Collect, tracerVars, ExactInv, AtEntry, MayRecord
  <2>6. CASE WaitSignal
    BY <2>6 DEF WaitSignal, NoSignals
  <2>7. CASE WaitExited \/ WaitFails
    <3>1. proc = "dead" /\ proc' = "dead" /\ pc' \in {"exited", "error"}
      BY <2>7 DEF WaitExited, WaitFails, Collect, Control, traceeVars
    <3> QED
      BY <3>1 DEF ExactInv, MayRecord
  <2> QED
    BY <1>2, <2>1, <2>2, <2>3, <2>4, <2>5, <2>6, <2>7 DEF StepTracer, single_step
<1>3. CASE TraceeStep
  <2>0. UNCHANGED << pc, db, step_count >> /\ TraceeNext
    BY <1>3 DEF TraceeStep, tracerVars
  <2>1. CASE TrapAfterStep \/ Wake
    <3>1. pc = "wait" /\ cpu'.tick = cpu.tick + 1
      BY <2>1 DEF TrapAfterStep, Wake, Retire, MoveTo, Control
    <3>2. step_count > 0 => db[step_count - 1].tick <= cpu.tick /\ db[step_count - 1].tick \in Nat
      BY TickType DEF Faithful, Ordered
    <3>3. cpu.tick \in Nat
      BY TickType
    <3>4. ~LastIsCurrent'
      BY <2>0, <3>1, <3>2, <3>3 DEF LastIsCurrent
    <3> QED
      BY <2>0, <3>1, <3>4 DEF ExactInv
  <2>2. CASE Exit
    BY <2>0, <2>2 DEF Exit, Control, ExactInv, AtEntry
  <2>3. CASE Block
    BY <2>0, <2>3, <1>1 DEF Block, Control, ExactInv, AtEntry
  <2>4. CASE Kill
    BY <2>0, <2>4, <1>1 DEF Kill, ExactInv, AtEntry, MayRecord
  <2>5. ~DeliverIgnored /\ ~DeliverToHandler /\ ~DeliverFatal /\ ~(\E s \in Signals : SignalStop(s))
        /\ ~(\E new \in (SUBSET Signals) \ {{}} : PostSignals(new))
    BY DEF NoSignals, Undisturbed, DeliverIgnored, DeliverToHandler, DeliverFatal, Deliver, SignalStop, PostSignals
  <2> QED
    BY <2>0, <2>1, <2>2, <2>3, <2>4, <2>5 DEF TraceeNext, TraceeProgress
<1>4. CASE LoopStops \/ LoopSteps \/ HandleOk \/ HandleExited \/ HandleError \/ Save
  BY <1>1, <1>4, <1>0 DEF LoopStops, LoopSteps, HandleOk, HandleExited, HandleError, Save,
     tracerVars, traceeVars, ExactInv, AtEntry, MayRecord, Control
<1>5. CASE DetachAndReport \/ SaveFails \/ Crash
  BY <1>5 DEF DetachAndReport, SaveFails, Crash, Die, ExactInv, AtEntry
<1>6. CASE CtrlC \/ CtrlCHandler
  BY <1>1, <1>6 DEF CtrlC, CtrlCHandler, tracerVars, traceeVars, ExactInv, AtEntry, MayRecord
<1>7. CASE UNCHANGED vars
  BY <1>1, <1>7 DEF vars, tracerVars, traceeVars, ExactInv, AtEntry, MayRecord
<1> QED
  BY <1>2, <1>3, <1>4, <1>5, <1>6, <1>7 DEF Next, trace_loop, Terminated

\* The invariants of an undisturbed session hold throughout it.
LEMMA AlwaysExact ==
  ASSUME Undisturbed
  PROVE  Spec => [](TypeOK /\ Control /\ Faithful /\ NoSignals /\ ExactInv)
<1>1. TypeOK /\ Control /\ NoSignals /\ [Next]_vars => NoSignals'
  BY NextNoSignals
<1>2. TypeOK /\ Control /\ Faithful /\ NoSignals /\ ExactInv /\ [Next]_vars => ExactInv'
  BY NextExact
<1> QED
  BY <1>1, <1>2, InitNoSignals, InitExact, AlwaysFaithful, PTL DEF Spec

\* The strict recorder differs from the lenient one in what it refuses.
LEMMA StrictRecorder ==
  /\ Lenient!RecorderInit => Strict!RecorderInit
  /\ Strict!Recorded <=> Lenient!Recorded
  /\ Lenient!Record /\ ~Lenient!Recorded => Strict!Record
  /\ Lenient!Execute => Strict!Execute
BY DEF Lenient!RecorderInit, Strict!RecorderInit, Strict!Recorded, Lenient!Recorded,
       Lenient!Record, Strict!Record, Lenient!Execute, Strict!Execute

\* What is recorded has not been recorded before.
LEMMA RecordIsNew ==
  ASSUME TypeOK, ExactInv, Record
  PROVE  ~Lenient!Recorded
<1>1. ~LastIsCurrent
  BY DEF Record, ExactInv, AtEntry, MayRecord
<1>2. step_count \in Nat /\ Log \in Seq(Nat) /\ Len(Log) = step_count
      /\ \A i \in 1 .. step_count : Log[i] = db[i - 1].tick
  BY LogType, TickType
<1>3. Log # << >> => step_count > 0
  BY <1>2
<1> QED
  BY <1>1, <1>2, <1>3 DEF LastIsCurrent, Lenient!Recorded

\* Every step of an undisturbed session is one of the exact recorder, or none.
LEMMA NextRefinesStrict ==
  ASSUME Undisturbed
  PROVE  TypeOK /\ Control /\ Faithful /\ NoSignals /\ ExactInv /\ [Next]_vars
           => [Strict!RecorderNext]_abstract
<1> SUFFICES ASSUME TypeOK, Control, Faithful, NoSignals, ExactInv, [Next]_vars
             PROVE  Strict!RecorderNext \/ UNCHANGED abstract
  OBVIOUS
<1>1. CASE Record
  BY <1>1, RecordRefines, RecordIsNew, StrictRecorder DEF Strict!RecorderNext
<1>2. CASE TraceeStep
  <2>1. UNCHANGED Log /\ TraceeNext
    BY <1>2, LogUnchanged DEF TraceeStep, tracerVars
  <2>2. CASE TrapAfterStep \/ Wake \/ Exit
    <3>1. Lenient!Execute
      BY <2>1, <2>2, ArmedIsRecorded
         DEF TrapAfterStep, Wake, Exit, Retire, Execute, MoveTo, Lenient!Execute
    <3> QED
      BY <3>1, StrictRecorder DEF Strict!RecorderNext
  <2>3. CASE Block \/ Kill
    BY <2>1, <2>3 DEF Block, Kill, abstract
  <2>4. ~DeliverIgnored /\ ~DeliverToHandler /\ ~DeliverFatal /\ ~(\E s \in Signals : SignalStop(s))
        /\ ~(\E new \in (SUBSET Signals) \ {{}} : PostSignals(new))
    BY DEF NoSignals, Undisturbed, DeliverIgnored, DeliverToHandler, DeliverFatal, Deliver, SignalStop, PostSignals
  <2> QED
    BY <2>1, <2>2, <2>3, <2>4 DEF TraceeNext, TraceeProgress
<1>3. CASE [Next]_vars /\ ~Record /\ ~TraceeStep
  <2>1. UNCHANGED << db, step_count, cpu, executed >>
    BY <1>3 DEF Next, trace_loop, Terminated, StepTracer, single_step, ReadFails, ReadRegisters, DecodeFails,
       Decode, StepSucceeds, StepFails, WaitTrap, WaitSignal, WaitExited, WaitFails, Collect,
       LoopStops, LoopSteps, HandleOk, HandleExited, HandleError, Save, DetachAndReport, Detach,
       SaveFails, Crash, Die, CtrlC, CtrlCHandler, vars, tracerVars, traceeVars
  <2> QED
    BY <2>1, LogUnchanged DEF abstract
<1> QED
  BY <1>1, <1>2, <1>3

\* A session that no signal and no failure of PT_STEP disturbs records the
\* execution: every instruction once, before it is executed, and nothing else.
\* SIGKILL, lost exit statuses, failing reads and writes are allowed.
THEOREM RecordingRefinesExactRecorder ==
  ASSUME Undisturbed
  PROVE  Spec => RecordsExactly
<1>1. Init => Strict!RecorderInit
  BY InitRefines, StrictRecorder
<1>2. TypeOK /\ Control /\ Faithful /\ NoSignals /\ ExactInv /\ [Next]_vars => [Strict!RecorderNext]_abstract
  BY NextRefinesStrict
<1>3. Spec => [](TypeOK /\ Control /\ Faithful /\ NoSignals /\ ExactInv)
  BY AlwaysExact
<1> QED
  BY <1>1, <1>2, <1>3, PTL DEF Spec, RecordsExactly, Strict!RecorderSpec, abstract

-----------------------------------------------------------------------------
(* The call depth. *)

\* The depth starts at the number of frames.
LEMMA InitDepth == Init => DepthInv
BY DEF Init, TraceeInit, CpuInit, TracerInit, SessionInit, DepthInv, Underway

\* NextDepth is what an instruction does to the depth of the stack.
LEMMA NextDepthIsAfter == ASSUME NEW i PROVE NextDepth(i) = DepthAfter(call_depth, i)
BY DEF NextDepth, DepthAfter

\* Executing an instruction changes the number of frames as NextDepth has it.
LEMMA ExecuteDepth ==
  ASSUME TypeOK, lowest <= frames, Execute
  PROVE  lowest' <= frames' /\ frames' - lowest' = DepthAfter(frames - lowest, cpu.insn)
<1>1. frames \in Int /\ lowest \in Int /\ Calls \cap Returns = {}
  BY TraceeAssumption DEF TypeOK, TraceeTypeOK
<1>2. CASE cpu.insn \in Calls
  <2>1. frames' = frames + 1 /\ lowest' = lowest
    BY <1>1, <1>2 DEF Execute
  <2> QED
    BY <1>1, <1>2, <2>1 DEF DepthAfter
<1>3. CASE cpu.insn \in Returns
  <2>1. cpu.insn \notin Calls
    BY <1>1, <1>3
  <2>2. frames' = frames - 1 /\ lowest' = IF frames' < lowest THEN frames' ELSE lowest
    BY <1>3, <2>1 DEF Execute
  <2> QED
    BY <1>1, <1>3, <2>1, <2>2 DEF DepthAfter
<1>4. CASE cpu.insn \notin Calls /\ cpu.insn \notin Returns
  <2>1. frames' = frames /\ lowest' = lowest
    BY <1>1, <1>4 DEF Execute
  <2> QED
    BY <1>1, <1>4, <2>1 DEF DepthAfter
<1> QED
  BY <1>2, <1>3, <1>4

\* The recorded instruction changes call_depth as its execution will change
\* the stack, and it is executed before the next one is recorded.
LEMMA NextDepthInv ==
  ASSUME Undisturbed, "kill" \notin Env
  PROVE  TypeOK /\ Control /\ NoSignals /\ DepthInv /\ [Next]_vars => DepthInv'
<1> SUFFICES ASSUME TypeOK, Control, NoSignals, DepthInv, [Next]_vars
             PROVE  DepthInv'
  OBVIOUS
<1> USE DEF NoStatus, Trap, Exited, SignalStatus
<1>0. proc \in {"stopped", "running", "blocked", "dead", "free"} /\ pc \in ControlPoints
      /\ status \in {NoStatus, Trap, Exited}
  BY DEF TypeOK, TraceeTypeOK, TracerTypeOK, NoSignals
<1>1. ASSUME UNCHANGED << call_depth, frames, lowest, cpu >>, Underway' <=> Underway,
             pc' = "crashed" <=> pc = "crashed", pc' \in {"decode", "record", "step"} => proc' # "dead"
      PROVE  DepthInv'
  BY <1>1 DEF DepthInv
<1>2. CASE StepTracer
  <2>1. CASE ReadFails \/ ReadRegisters \/ DecodeFails \/ Decode
    BY <1>1, <2>1 DEF ReadFails, ReadRegisters, DecodeFails, Decode, ThreadsFound, tracerVars, traceeVars, Underway
  <2>2. CASE Record
    <3>1. call_depth' = DepthAfter(call_depth, cpu.insn) /\ UNCHANGED << frames, lowest, cpu, proc >>
          /\ pc = "record" /\ pc' = "step"
      BY <2>2, NextDepthIsAfter DEF Record, traceeVars
    <3>2. call_depth = frames - lowest
      BY <3>1 DEF DepthInv, Underway
    <3> QED
      BY <3>1, <3>2 DEF DepthInv, Underway
  <2>3. CASE StepSucceeds
    BY <1>1, <2>3 DEF StepSucceeds, CanStep, PtraceStep, Underway
  <2>4. ~StepFails
    BY <1>0 DEF StepFails, CanStep, Undisturbed, Control, DepthInv
  <2>5. CASE WaitTrap \/ WaitExited
    BY <1>1, <2>5 DEF WaitTrap, WaitExited, Collect, tracerVars, Control, Underway
  <2>6. ~WaitSignal
    BY DEF WaitSignal, NoSignals
  <2>7. CASE WaitFails
    BY <1>1, <2>7 DEF WaitFails, tracerVars, traceeVars, Underway
  <2> QED
    BY <1>2, <2>1, <2>2, <2>3, <2>4, <2>5, <2>6, <2>7 DEF StepTracer, single_step
<1>3. CASE TraceeStep
  <2>0. UNCHANGED << pc, call_depth >> /\ TraceeNext
    BY <1>3 DEF TraceeStep, tracerVars
  <2>1. CASE TrapAfterStep \/ Wake \/ Exit
    <3>1. pc = "wait" /\ proc \in {"running", "blocked"} /\ proc' \in {"stopped", "dead"} /\ Execute
      BY <2>1 DEF TrapAfterStep, Wake, Exit, Retire, Stop, Control
    <3>2. call_depth = DepthAfter(frames - lowest, cpu.insn)
      BY <3>1 DEF DepthInv, Underway
    <3>3. lowest' <= frames' /\ frames' - lowest' = DepthAfter(frames - lowest, cpu.insn)
      BY <3>1, ExecuteDepth DEF DepthInv
    <3> QED
      BY <2>0, <3>1, <3>2, <3>3 DEF DepthInv, Underway
  <2>2. CASE Block
    BY <1>1, <2>0, <2>2 DEF Block, Underway, Control
  <2>3. ~DeliverIgnored /\ ~DeliverToHandler /\ ~DeliverFatal /\ ~(\E s \in Signals : SignalStop(s))
        /\ ~(\E new \in (SUBSET Signals) \ {{}} : PostSignals(new)) /\ ~Kill
    BY DEF NoSignals, Undisturbed, DeliverIgnored, DeliverToHandler, DeliverFatal, Deliver, SignalStop, PostSignals, Kill
  <2> QED
    BY <2>0, <2>1, <2>2, <2>3 DEF TraceeNext, TraceeProgress
<1>4. CASE LoopStops \/ LoopSteps \/ HandleOk \/ HandleExited \/ HandleError \/ Save
  BY <1>1, <1>4, <1>0 DEF LoopStops, LoopSteps, HandleOk, HandleExited, HandleError, Save,
     tracerVars, traceeVars, Underway
<1>5. CASE DetachAndReport
  BY <1>1, <1>5 DEF DetachAndReport, Detach, PtraceDetach, tracerVars, Underway
<1>6. CASE SaveFails \/ Crash
  <2>1. pc' = "crashed" /\ UNCHANGED << frames, lowest >>
    BY <1>6 DEF SaveFails, Crash, Die
  <2> QED
    BY <2>1 DEF DepthInv, Underway
<1>7. CASE CtrlC \/ CtrlCHandler
  BY <1>1, <1>7 DEF CtrlC, CtrlCHandler, tracerVars, traceeVars, Underway, DepthInv
<1>8. CASE UNCHANGED vars
  BY <1>1, <1>8 DEF vars, tracerVars, traceeVars, Underway, DepthInv
<1> QED
  BY <1>2, <1>3, <1>4, <1>5, <1>6, <1>7, <1>8 DEF Next, trace_loop, Terminated

\* In a session that neither a signal, SIGKILL included, nor a failure of
\* PT_STEP disturbs, the depth of the annotations is the number of frames above
\* the outermost one the program has returned to since tracing began.
THEOREM DepthIsFrames ==
  ASSUME Undisturbed, "kill" \notin Env
  PROVE  Spec => []DepthCountsFrames
<1>1. DepthInv => DepthCountsFrames
  BY DEF DepthInv, Underway, DepthCountsFrames
<1>2. TypeOK /\ Control /\ NoSignals /\ DepthInv /\ [Next]_vars => DepthInv'
  BY NextDepthInv
<1>3. Spec => [](TypeOK /\ Control /\ Faithful /\ NoSignals /\ ExactInv)
  BY AlwaysExact
<1> QED
  BY <1>1, <1>2, <1>3, InitDepth, PTL DEF Spec

-----------------------------------------------------------------------------
(* The summary. *)

\* The summary counts the first k entries.
Summarizes(k) == Counts(FirstEntries(k))

\* An entry is counted when single_step has returned Ok; until then the summary
\* lacks the last entry, and when the process has ended it does so for good.
SummaryInv ==
  /\ pc \in {"loop", "read", "decode", "record", "error"} => Summarizes(step_count)
  /\ pc \in {"step", "wait", "ok"} => step_count > 0 /\ Summarizes(step_count - 1)
  /\ pc \in {"loop", "read", "decode", "record", "step", "ok", "error"} => proc # "dead"
  /\ pc = "wait" /\ proc = "dead" => status = Exited
  /\ pc = "exited" => proc = "dead" /\ Summarizes(step_count - 1)
  /\ pc \in {"save", "detach", "done"} =>
       Summarizes(IF proc = "dead" THEN step_count - 1 ELSE step_count)

\* The theorems about statistics, for the statistics of Counts.
Thm == INSTANCE StatsProofs WITH Branches <- {}, MaxListed <- 20

\* The operators of the two instances are the same.
LEMMA SameStats ==
  /\ \A list : Stats!Totals(list) = Thm!Totals(list)
  /\ \A d : Stats!get_all(d) = Thm!get_all(d)
  /\ \A S : Thm!Cardinality(S) = Cardinality(S)
<1>1. ASSUME NEW list PROVE Stats!Totals(list) = Thm!Totals(list)
  BY DEF Stats!Totals, Thm!Totals, Stats!FoldLeft, Thm!FoldLeft, Stats!MapThenFoldSet,
         Thm!MapThenFoldSet, Stats!One, Thm!One, Stats!Max, Thm!Max, Stats!Cardinality, Thm!Cardinality
<1>2. ASSUME NEW d PROVE Stats!get_all(d) = Thm!get_all(d)
  BY DEF Stats!get_all, Thm!get_all, Stats!Count, Thm!Count, Stats!Cardinality, Thm!Cardinality
<1>3. ASSUME NEW S PROVE Thm!Cardinality(S) = Cardinality(S)
  BY DEF Thm!Cardinality, Cardinality
<1> QED
  BY <1>1, <1>2, <1>3

\* An empty summary counts no entries.
LEMMA InitSummary == Init => SummaryInv
<1> SUFFICES ASSUME Init PROVE SummaryInv
  OBVIOUS
<1>1. pc = "loop" /\ step_count = 0 /\ summary = NoEntries /\ proc # "dead"
  BY DEF Init, TraceeInit, TracerInit, SessionInit, LoopInit
<1>2. DOMAIN FirstEntries(0) = 1 .. 0 /\ 0 \in Nat
  BY DEF FirstEntries
<1>3. Stats!Totals(FirstEntries(0)) = Thm!Zero
  BY <1>2, SameStats, Thm!TotalsEmpty
<1> QED
  BY <1>1, <1>3 DEF SummaryInv, Summarizes, Counts, NoEntries, Thm!Zero

\* Counting the last entry completes the summary.
LEMMA CountLast ==
  ASSUME TypeOK, step_count > 0, Summarizes(step_count - 1)
  PROVE  Counted(db[step_count - 1])
         = LET t == Stats!Totals(FirstEntries(step_count))
           IN  [calls |-> t.calls, returns |-> t.returns, mem |-> t.mem]
<1> DEFINE k == step_count - 1
           e == db[step_count - 1]
           t == Stats!Totals(FirstEntries(k))
<1>1. k \in Nat /\ k + 1 = step_count
  BY TickType
<1>2. /\ DOMAIN FirstEntries(k) = 1 .. k /\ DOMAIN FirstEntries(k + 1) = 1 .. k + 1
      /\ \A i \in 1 .. k : FirstEntries(k + 1)[i] = FirstEntries(k)[i]
      /\ FirstEntries(k + 1)[k + 1] = e
  BY <1>1 DEF FirstEntries
<1> HIDE DEF k
<1>3. Thm!Totals(FirstEntries(k + 1)) = Thm!Add(Thm!Totals(FirstEntries(k)), e)
  <2>1. Thm!Totals(FirstEntries(k + 1))
        = Thm!Add(Thm!Totals(FirstEntries(k)), FirstEntries(k + 1)[k + 1])
    <3> DEFINE list == FirstEntries(k)
               longer == FirstEntries(k + 1)
    <3>1. /\ DOMAIN list = 1 .. k /\ DOMAIN longer = 1 .. k + 1 /\ k \in Nat
          /\ \A i \in 1 .. k : longer[i] = list[i]
      BY <1>1, <1>2
    <3> HIDE DEF e, t, list, longer
    <3>2. Thm!Totals(longer) = Thm!Add(Thm!Totals(list), longer[k + 1])
      BY <3>1, 20 \in Nat \ {0}, Thm!TotalsAppend
    <3> QED
      BY <3>2 DEF list, longer
  <2> QED
    BY <1>2, <2>1
<1>4. Stats!Totals(FirstEntries(step_count))
      = [calls   |-> t.calls + One(e.insn \in Calls),
         returns |-> t.returns + One(e.insn \in Returns),
         jumps   |-> t.jumps + One(e.insn \in {}),
         mem     |-> t.mem + Cardinality(e.mem_changes)]
  BY <1>1, <1>3, SameStats DEF Thm!Add, Thm!One, One
<1>5. summary.calls = t.calls /\ summary.returns = t.returns /\ summary.mem = t.mem
  BY DEF Summarizes, Counts, k
<1> HIDE DEF t
<1> QED
  BY <1>4, <1>5 DEF Counted

\* An entry is recorded, and when its step has succeeded it is counted.
LEMMA NextSummary ==
  ASSUME Env \cap {"stepfail", "kill", "reap"} = {}
  PROVE  TypeInv /\ Handled /\ Control /\ SummaryInv /\ [Next]_vars => SummaryInv'
<1> SUFFICES ASSUME TypeInv, Handled, Control, SummaryInv, [Next]_vars
             PROVE  SummaryInv'
  OBVIOUS
<1> USE DEF NoStatus, Trap, Exited, SignalStatus
<1>0. /\ proc \in {"stopped", "running", "blocked", "dead", "free"} /\ pc \in ControlPoints
      /\ step_count \in Nat /\ TypeOK
  BY DEF TypeInv, TypeOK, TraceeTypeOK, TracerTypeOK
<1>1. ASSUME UNCHANGED << db, summary >> PROVE \A k : Summarizes(k)' <=> Summarizes(k)
  BY <1>1 DEF Summarizes, Counts, FirstEntries
<1>2. CASE StepTracer
  <2>1. UNCHANGED summary
    BY <1>2 DEF StepTracer, sessionVars
  <2>2. CASE ReadFails \/ ReadRegisters \/ DecodeFails \/ Decode
    BY <1>1, <2>1, <2>2 DEF ReadFails, ReadRegisters, DecodeFails, Decode, ThreadsFound,
       tracerVars, traceeVars, SummaryInv
  <2>3. CASE Record
    <3>1. PICK e : db' = Insert(db, e) /\ e.step = step_count
      BY <2>3 DEF Record, NewEntry
    <3>2. \A s \in 0 .. step_count - 1 : db'[s] = db[s]
      BY <1>0, <3>1, TickType, InsertNext
    <3>3. step_count' = step_count + 1 /\ pc = "record" /\ pc' = "step" /\ UNCHANGED proc
      BY <2>3 DEF Record, traceeVars
    <3>4. FirstEntries(step_count)' = [i \in 1 .. step_count' |-> db'[i - 1]]
      BY DEF FirstEntries
    <3>5. [i \in 1 .. step_count |-> db'[i - 1]] = FirstEntries(step_count)
      BY <1>0, <3>2 DEF FirstEntries
    <3>6. Summarizes(step_count - 1)'
      BY <1>0, <2>1, <3>3, <3>5 DEF SummaryInv, Summarizes, Counts, FirstEntries
    <3> QED
      BY <1>0, <3>3, <3>6 DEF SummaryInv
  <2>4. CASE StepSucceeds
    BY <1>1, <2>1, <2>4 DEF StepSucceeds, PtraceStep, SummaryInv
  <2>5. ~StepFails
    BY <1>0 DEF StepFails, CanStep, Control, SummaryInv
  <2>6. CASE WaitTrap \/ WaitSignal
    BY <1>1, <2>1, <2>6 DEF WaitTrap, WaitSignal, Collect, Control, tracerVars, SummaryInv
  <2>7. CASE WaitExited
    BY <1>1, <2>1, <2>7 DEF WaitExited, Collect, Control, tracerVars, SummaryInv
  <2>8. ~WaitFails
    BY DEF WaitFails, SummaryInv
  <2> QED
    BY <1>2, <2>2, <2>3, <2>4, <2>5, <2>6, <2>7, <2>8 DEF StepTracer, single_step
<1>3. CASE TraceeStep
  <2>0. UNCHANGED << pc, db, step_count, summary >>
    BY <1>3 DEF TraceeStep, tracerVars, sessionVars
  <2>1. CASE TrapAfterStep \/ Wake \/ Block \/ DeliverIgnored \/ DeliverToHandler
    <3>1. pc = "wait" /\ proc' # "dead"
      BY <2>1 DEF TrapAfterStep, Wake, Block, DeliverIgnored, DeliverToHandler, Deliver, Stop, Control
    <3> QED
      BY <1>1, <2>0, <3>1 DEF SummaryInv
  <2>2. CASE Exit \/ DeliverFatal
    <3>1. pc = "wait" /\ status' = Exited
      BY <2>2 DEF Exit, DeliverFatal, Deliver, Control
    <3> QED
      BY <1>1, <2>0, <3>1 DEF SummaryInv
  <2>3. ASSUME NEW s \in Signals, SignalStop(s) PROVE SummaryInv'
    <3>1. pc = "wait" /\ proc' # "dead"
      BY <2>3 DEF SignalStop, Stop, Control
    <3> QED
      BY <1>1, <2>0, <3>1 DEF SummaryInv
  <2>4. ~Kill
    BY DEF Kill
  <2>5. ASSUME NEW new \in SUBSET Signals, PostSignals(new) PROVE SummaryInv'
    BY <1>1, <2>0, <2>5 DEF PostSignals, SummaryInv
  <2> QED
    BY <1>3, <2>1, <2>2, <2>3, <2>4, <2>5 DEF TraceeStep, TraceeNext, TraceeProgress
<1>4. CASE HandleOk
  <2>1. /\ pc = "ok" /\ pc' = "loop" /\ UNCHANGED << db, step_count, proc >>
        /\ summary' = Counted(db[step_count - 1])
    BY <1>4 DEF HandleOk, tracerVars, traceeVars
  <2>2. Summarizes(step_count)'
    BY <1>0, <2>1, CountLast DEF SummaryInv, Summarizes, Counts, FirstEntries
  <2> QED
    BY <2>1, <2>2 DEF SummaryInv
<1>5. CASE LoopStops \/ LoopSteps \/ HandleExited \/ HandleError \/ Save
  BY <1>1, <1>5 DEF LoopStops, LoopSteps, HandleExited, HandleError, Save,
     tracerVars, traceeVars, sessionVars, SummaryInv
<1>6. CASE DetachAndReport
  BY <1>1, <1>6 DEF DetachAndReport, Detach, PtraceDetach, tracerVars, sessionVars, SummaryInv
<1>7. CASE SaveFails \/ Crash
  BY <1>7 DEF SaveFails, Crash, Die, SummaryInv
<1>8. CASE CtrlC \/ CtrlCHandler
  BY <1>1, <1>8 DEF CtrlC, CtrlCHandler, tracerVars, traceeVars, SummaryInv
<1>9. CASE UNCHANGED vars
  BY <1>1, <1>9 DEF vars, tracerVars, traceeVars, sessionVars, SummaryInv
<1> QED
  BY <1>2, <1>3, <1>4, <1>5, <1>6, <1>7, <1>8, <1>9 DEF Next, trace_loop, Terminated

\* If PT_STEP does not fail, the process is not killed from outside and its exit
\* status is not lost, the summary that is printed counts the trace as tdb stats
\* does, all of it or all but the entry at which the process ended; signals and
\* deaths by signals included.
THEOREM SummaryLacksOnlyLast ==
  ASSUME Env \cap {"stepfail", "kill", "reap"} = {}
  PROVE  Spec => []SummaryAtReport
<1>1. SummaryInv => SummaryAtReport
  BY DEF SummaryInv, Summarizes, SummaryAtReport
<1>2. TypeInv /\ Handled /\ Control /\ SummaryInv /\ [Next]_vars => SummaryInv'
  BY NextSummary
<1>3. TypeInv => TypeOK
  BY DEF TypeInv
<1> QED
  BY <1>1, <1>2, <1>3, InitType, NextType, InitSummary, InitControl, NextControl, PTL DEF Spec

=============================================================================
