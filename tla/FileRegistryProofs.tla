------------------------- MODULE FileRegistryProofs -------------------------
(***************************************************************************)
(* The map and the directory agree, for any number of names, requests and  *)
(* restarts.  The inductive invariant says of every name that is not raced *)
(* what holds of it while one thread is changing it, call by call, and     *)
(* while no thread is.                                                     *)
(***************************************************************************)
EXTENDS FileRegistry, FiniteSetTheorems, WellFoundedInduction, TLAPS

---------------------------------------------------------------------------
(* The inductive invariant.                                                *)

\* The requests, and the places in the handlers.
Kinds == {"none", "read", "write", "delete", "list"}
Steps == {"done", "start", "acqGet", "acqErase", "acqInsert", "send", "relGet", "relErase", "relInsert",
          "open", "data", "insert", "close", "find", "count", "exists", "remove", "erase", "list"}

\* The part of TypeOK the invariant needs.
Types ==
    /\ DOMAIN files \subseteq AllNames /\ \A f \in DOMAIN files : files[f] \in Int
    /\ DOMAIN disk \subseteq AllNames /\ \A f \in DOMAIN disk : disk[f] \in Versions
    /\ next \in Nat
    /\ op \in [Threads -> Kinds] /\ tpc \in [Threads -> Steps]
    /\ tfile \in [Threads -> AllNames \cup {NoName}]
    /\ treaders \in [Threads -> Int]
    /\ seen \in [Threads -> SUBSET Versions]

\* A thread is where its handler can be, and has seen nothing before it sends.
Placed(t) ==
    /\ tpc[t] # "done" => t < next /\ tfile[t] \in AllNames
    /\ t >= next \/ tpc[t] \in {"start", "acqGet", "acqErase", "acqInsert"} => seen[t] = {}
    /\ \/ tpc[t] = "done"
       \/ op[t] = "read" /\ tpc[t] \in {"start", "acqGet", "acqErase", "acqInsert", "send",
                                        "relGet", "relErase", "relInsert"}
       \/ op[t] = "write" /\ tpc[t] \in {"start", "open", "data", "insert", "close"}
       \/ op[t] = "delete" /\ tpc[t] \in {"start", "find", "count", "exists", "remove", "erase"}
       \/ op[t] = "list" /\ tpc[t] \in {"start", "list", "send"}
    /\ op[t] \in {"read", "write"} => tfile[t] # ListFile
    /\ op[t] = "list" => tfile[t] = ListFile

Intact(f) == f \in DOMAIN disk /\ (disk[f].whole \/ f \in leftover)
Own(t)    == tfile[t] \in DOMAIN disk /\ disk[tfile[t]] = [by |-> {t}, whole |-> FALSE]

\* What holds of a name that no thread is changing.
Agrees(f) ==
    /\ f \in DOMAIN files => files[f] = Cardinality(Readers(f)) /\ Intact(f)
    /\ Readers(f) # {} => f \in DOMAIN files
    /\ f \in DOMAIN disk /\ disk[f].whole => f \in DOMAIN files \/ f = ListFile

\* What holds of its name while thread t, and no other, is changing it.
Midway(t) ==
    LET f     == tfile[t]
        known == f \in DOMAIN files
        count == Cardinality(Readers(f)) IN
    /\ tpc[t] \in {"acqGet", "acqErase", "relErase", "count", "exists", "remove"} => known /\ Agrees(f)
    /\ tpc[t] \in {"acqErase", "acqInsert"} => treaders[t] = count + 1
    /\ tpc[t] \in {"relErase", "relInsert"} => treaders[t] = count - 1
    /\ tpc[t] \in {"acqInsert", "relInsert"} => ~known /\ Intact(f)
    /\ tpc[t] = "open" => ~known /\ Agrees(f)
    /\ tpc[t] \in {"data", "insert", "close"} => Own(t)
    /\ tpc[t] \in {"data", "insert"} => ~known
    /\ tpc[t] = "close" => known /\ files[f] = 0
    /\ tpc[t] \in {"data", "insert", "close", "exists", "remove", "erase"} => Readers(f) = {}
    /\ tpc[t] = "erase" => known /\ f \notin DOMAIN disk
    /\ tpc[t] = "list" => Own(t) /\ (known => files[f] = 0)
    /\ tpc[t] = "send" => Agrees(f)

\* What a reader has sent comes from the file that is there.
Sees(t) ==
    op[t] = "read" /\ tpc[t] \in {"send", "relGet"} =>
        tfile[t] \in DOMAIN disk /\ seen[t] \subseteq {disk[tfile[t]]}

Fine(f) ==
    /\ (\A t \in Threads : tfile[t] = f => ~Changing(t)) => Agrees(f)
    /\ \A t \in Threads : tfile[t] = f => (Changing(t) => Midway(t)) /\ Sees(t)

IInv ==
    /\ Types
    /\ \A t \in Threads : Placed(t)
    /\ status = "up" => Contended \subseteq raced /\ \A f \in AllNames \ raced : Fine(f)
    /\ AbortExplained

---------------------------------------------------------------------------
(* Steps of one thread.                                                    *)

\* What every step of a thread leaves alone: other threads, other names.
Frame(t) ==
    /\ status = "up"
    /\ op' = op /\ tfile' = tfile /\ next' = next
    /\ \A u \in Threads \ {t} : tpc'[u] = tpc[u] /\ treaders'[u] = treaders[u] /\ seen'[u] = seen[u]
    /\ \A f \in AllNames \ {tfile[t]} :
          /\ f \in DOMAIN files' <=> f \in DOMAIN files
          /\ f \in DOMAIN files => files'[f] = files[f]
          /\ f \in DOMAIN disk' <=> f \in DOMAIN disk
          /\ f \in DOMAIN disk => disk'[f] = disk[f]
          /\ f \in leftover' <=> f \in leftover

\* Nobody else is changing the thread's name.
Alone(t) == \A u \in Threads : u # t /\ tfile[u] = tfile[t] => ~Changing(u)

\* The readers of a name can be counted.
LEMMA ReadersFinite ==
    ASSUME NEW f
    PROVE  IsFiniteSet(Readers(f)) /\ Cardinality(Readers(f)) \in Nat
<1>1. IsFiniteSet(Threads)
    BY FS_Interval, RegistryAssumption DEF Threads
<1>2. Readers(f) \in SUBSET Threads
    BY DEF Readers
<1> QED BY <1>1, <1>2, FS_Subset, FS_CardinalityType

\* A name another thread works on is as fine as it was.
LEMMA Elsewhere ==
    ASSUME NEW t \in Threads, NEW f \in AllNames, Types, Frame(t), f # tfile[t], Fine(f)
    PROVE  Fine(f)'
<1>1. Readers(f)' = Readers(f)
    BY DEF Readers, Frame, Types
<1>2. Agrees(f) => Agrees(f)'
    BY <1>1 DEF Agrees, Intact, Frame
<1>3. ASSUME NEW u \in Threads, tfile[u] = f
      PROVE  /\ tpc'[u] = tpc[u] /\ op'[u] = op[u] /\ seen'[u] = seen[u]
             /\ treaders'[u] = treaders[u] /\ tfile'[u] = f
    BY <1>3 DEF Frame, Types
<1>4. ASSUME NEW u \in Threads, tfile[u] = f
      PROVE  Changing(u)' = Changing(u)
    BY <1>3, <1>4 DEF Changing
<1>5. ASSUME NEW u \in Threads, tfile[u] = f, Midway(u)
      PROVE  Midway(u)'
    <2>1. Own(u)' = Own(u)
        BY <1>3, <1>5 DEF Own, Frame
    <2> QED BY <1>1, <1>2, <1>3, <1>5, <2>1 DEF Midway, Intact, Frame
<1>6. ASSUME NEW u \in Threads, tfile[u] = f, Sees(u)
      PROVE  Sees(u)'
    BY <1>3, <1>6 DEF Sees, Frame
<1>7. tfile' = tfile
    BY DEF Frame
<1> QED BY <1>2, <1>4, <1>5, <1>6, <1>7 DEF Fine

\* A name that stays unraced is one the thread is alone in changing.
LEMMA Unraced ==
    ASSUME NEW t \in Threads, Types, Frame(t), tfile[t] \in AllNames,
           Contended \subseteq raced, raced' = raced \cup Contended',
           tfile[t] \notin raced', Changing(t) \/ Changing(t)'
    PROVE  Alone(t)
<1> SUFFICES ASSUME NEW u \in Threads, u # t, tfile[u] = tfile[t], Changing(u)
             PROVE  FALSE
    BY DEF Alone
<1>1. CASE Changing(t)
    BY <1>1 DEF Contended
<1>2. CASE Changing(t)'
    <2>1. Changing(u)'
        BY DEF Changing, Frame
    <2>2. tfile' = tfile
        BY DEF Frame
    <2> QED BY <1>2, <2>1, <2>2 DEF Contended
<1> QED BY <1>1, <1>2

\* What the thread that is alone on its name knows of it.
LEMMA Before ==
    ASSUME NEW t \in Threads, Fine(tfile[t]), Alone(t)
    PROVE  /\ Changing(t) => Midway(t)
           /\ ~Changing(t) => Agrees(tfile[t])
           /\ \A u \in Threads : tfile[u] = tfile[t] => Sees(u)
BY DEF Fine, Alone

\* A step of a thread that is changing its name before or after it.
LEMMA OwnStep ==
    ASSUME NEW t \in Threads, Types, Frame(t), Fine(tfile[t]), Alone(t),
           Changing(t)' => Midway(t)',
           ~Changing(t)' => Agrees(tfile[t])',
           Sees(t)',
           \/ Readers(tfile[t]) \subseteq {t}
           \/ tfile[t] \in DOMAIN disk => tfile[t] \in DOMAIN disk' /\ disk'[tfile[t]] = disk[tfile[t]]
    PROVE  Fine(tfile[t])'
<1> DEFINE f == tfile[t]
<1>1. tfile' = tfile
    BY DEF Frame
<1>2. ASSUME NEW u \in Threads, u # t, tfile[u] = f
      PROVE  ~Changing(u)' /\ Sees(u)'
    <2>1. tpc'[u] = tpc[u] /\ op'[u] = op[u] /\ seen'[u] = seen[u]
        BY <1>2 DEF Frame
    <2>2. ~Changing(u)'
        BY <1>2, <2>1 DEF Changing, Alone
    <2>3. Sees(u)
        BY <1>2 DEF Fine
    <2>4. op[u] = "read" /\ tpc[u] \in {"send", "relGet"} => u \in Readers(f)
        BY <1>2 DEF Readers
    <2>5. Sees(u)'
        BY <1>1, <1>2, <2>1, <2>3, <2>4 DEF Sees
    <2> QED BY <2>2, <2>5
<1>3. (\A u \in Threads : tfile'[u] = f => ~Changing(u)') => Agrees(f)'
    BY <1>1
<1>4. ASSUME NEW u \in Threads, tfile'[u] = f
      PROVE  (Changing(u)' => Midway(u)') /\ Sees(u)'
    <2>1. CASE u = t
        BY <2>1
    <2>2. CASE u # t
        BY <1>1, <1>2, <1>4, <2>2
    <2> QED BY <2>1, <2>2
<1> QED BY <1>1, <1>3, <1>4 DEF Fine

\* The thread is counted as a reader.
Reads(t) == op[t] = "read" /\ tpc[t] \in {"send", "relGet", "relErase", "relInsert"}

\* A step of t adds t to the readers of its name, or takes it from them.
LEMMA ReadersStep ==
    ASSUME NEW t \in Threads, Types, Frame(t)
    PROVE  /\ t \in Readers(tfile[t]) <=> Reads(t)
           /\ (Reads(t)' <=> Reads(t)) => Readers(tfile[t])' = Readers(tfile[t])
           /\ ~Reads(t) /\ Reads(t)' =>
                 /\ Cardinality(Readers(tfile[t]))' = Cardinality(Readers(tfile[t])) + 1
                 /\ Readers(tfile[t])' # {}
           /\ Reads(t) /\ ~Reads(t)' =>
                 Cardinality(Readers(tfile[t]))' = Cardinality(Readers(tfile[t])) - 1
           /\ Cardinality(Readers(tfile[t])) = 0 <=> Readers(tfile[t]) = {}
           /\ Cardinality(Readers(tfile[t]))' = 0 <=> Readers(tfile[t])' = {}
           /\ Cardinality(Readers(tfile[t])) \in Nat
<1> DEFINE R == Readers(tfile[t])
<1>1. t \in R <=> Reads(t)
    BY DEF Readers, Reads
<1>2. \A u \in Threads \ {t} : u \in R' <=> u \in R
    BY DEF Readers, Frame
<1>3. t \in R' <=> Reads(t)'
    BY DEF Readers, Reads, Frame
<1>4. R \subseteq Threads /\ R' \subseteq Threads
    BY DEF Readers, Frame
<1>5. /\ Reads(t)' => R' = R \cup {t}
      /\ ~Reads(t)' => R' = R \ {t}
    BY <1>2, <1>3, <1>4
<1>6. IsFiniteSet(R) /\ Cardinality(R) \in Nat
    BY ReadersFinite
<1>7. /\ IsFiniteSet(R \cup {t}) /\ Cardinality(R \cup {t}) = IF t \in R THEN Cardinality(R) ELSE Cardinality(R) + 1
      /\ IsFiniteSet(R \ {t}) /\ Cardinality(R \ {t}) = IF t \in R THEN Cardinality(R) - 1 ELSE Cardinality(R)
    BY <1>6, FS_AddElement, FS_RemoveElement
<1>8. IsFiniteSet(R')
    BY <1>5, <1>7
<1>9. (Cardinality(R) = 0 <=> R = {}) /\ (Cardinality(R') = 0 <=> R' = {})
    BY <1>6, <1>8, FS_EmptySet
<1> HIDE DEF R
<1>10. (Reads(t)' <=> Reads(t)) => R' = R
    BY <1>1, <1>5
<1>11. ~Reads(t) /\ Reads(t)' => Cardinality(R') = Cardinality(R) + 1 /\ R' # {}
    BY <1>1, <1>5, <1>7
<1>12. Reads(t) /\ ~Reads(t)' => Cardinality(R') = Cardinality(R) - 1
    BY <1>1, <1>5, <1>7
<1>13. Cardinality(R)' = Cardinality(R')
    OBVIOUS
<1> QED BY <1>1, <1>6, <1>9, <1>10, <1>11, <1>12, <1>13 DEF R

\* A thread's step keeps the invariant if it keeps it for its own name.
LEMMA StepKeeps ==
    ASSUME NEW t \in Threads, IInv, Frame(t), raced' = raced \cup Contended',
           Types', Placed(t)', AbortExplained',
           status' = "up" /\ tfile[t] \notin raced' => Fine(tfile[t])'
    PROVE  IInv'
<1>1. tfile' = tfile /\ op' = op /\ next' = next /\ status = "up"
    BY DEF Frame
<1>2. ASSUME NEW u \in Threads PROVE Placed(u)'
    <2>1. CASE u = t
        BY <2>1
    <2>2. CASE u # t
        <3>1. tpc'[u] = tpc[u] /\ seen'[u] = seen[u]
            BY <2>2 DEF Frame
        <3>2. Placed(u)
            BY DEF IInv
        <3> QED BY <1>1, <3>1, <3>2 DEF Placed
    <2> QED BY <2>1, <2>2
<1>3. ASSUME status' = "up", NEW f \in AllNames, f \notin raced' PROVE Fine(f)'
    <2>1. CASE f = tfile[t]
        BY <1>1, <1>3, <2>1
    <2>2. CASE f # tfile[t]
        BY <1>1, <1>3, <2>2, Elsewhere DEF IInv
    <2> QED BY <2>1, <2>2
<1>4. Contended' \subseteq raced'
    OBVIOUS
<1>5. (status = "up" => Contended \subseteq raced /\ \A f \in AllNames \ raced : Fine(f))'
    BY <1>3, <1>4 DEF AllNames
<1> QED BY <1>2, <1>5 DEF IInv

\* What a thread that is alone on its name can rely on, and what it owes.
Knows(t) ==
    /\ Changing(t) => Midway(t)
    /\ ~Changing(t) => Agrees(tfile[t])
    /\ Sees(t)
Owes(t) ==
    /\ Changing(t)' => Midway(t)'
    /\ ~Changing(t)' => Agrees(tfile[t])'
    /\ Sees(t)'
    /\ \/ Readers(tfile[t]) \subseteq {t}
       \/ tfile[t] \in DOMAIN disk => tfile[t] \in DOMAIN disk' /\ disk'[tfile[t]] = disk[tfile[t]]

\* Unless its name is raced, a changing thread is alone and knows.
LEMMA AloneKnows ==
    ASSUME NEW t \in Threads, IInv, Frame(t), raced' = raced \cup Contended',
           tpc[t] # "done", Changing(t) \/ Changing(t)', tfile[t] \notin raced'
    PROVE  Knows(t) /\ Alone(t) /\ Fine(tfile[t])
<1>1. Types /\ Placed(t) /\ status = "up" /\ tfile[t] \in AllNames
    BY DEF IInv, Placed, Frame
<1>2. Contended \subseteq raced /\ Fine(tfile[t])
    BY <1>1 DEF IInv
<1>3. Alone(t)
    BY <1>1, <1>2, Unraced
<1> QED BY <1>2, <1>3, Before DEF Knows

\* A step of a changing thread that owes nothing keeps the invariant.
LEMMA ChangingStep ==
    ASSUME NEW t \in Threads, IInv, Frame(t), raced' = raced \cup Contended',
           Types', Placed(t)', tpc[t] # "done", status' = "up",
           Changing(t) \/ Changing(t)',
           Knows(t) => Owes(t)
    PROVE  IInv'
<1>1. Types
    BY DEF IInv
<1>2. AbortExplained'
    BY DEF AbortExplained
<1>3. ASSUME tfile[t] \notin raced' PROVE Fine(tfile[t])'
    BY <1>1, <1>3, AloneKnows, OwnStep DEF Owes
<1> QED BY <1>2, <1>3, StepKeeps

\* A step outside of any change: only the thread moves, and a reader reads.
LEMMA IdleStep ==
    ASSUME NEW t \in Threads, IInv, raced' = raced \cup Contended',
           Frame(t), Types', Placed(t)', tpc[t] # "done", status' = "up",
           UNCHANGED <<files, disk, leftover>>,
           ~Changing(t), ~Changing(t)', Reads(t)' <=> Reads(t),
           Sees(t) => Sees(t)'
    PROVE  IInv'
<1> DEFINE f == tfile[t]
<1>1. /\ Types /\ f \in AllNames /\ status = "up"
      /\ tfile' = tfile /\ op' = op
    BY DEF IInv, Placed, Frame
<1>2. AbortExplained'
    BY DEF AbortExplained
<1>3. ASSUME f \notin raced' PROVE Fine(f)'
    <2>1. Fine(f)
        BY <1>1, <1>3 DEF IInv
    <2>2. Readers(f)' = Readers(f)
        BY <1>1, ReadersStep
    <2>3. Agrees(f)' <=> Agrees(f)
        BY <1>1, <2>2 DEF Agrees, Intact
    <2>4. ASSUME NEW u \in Threads, u # t, tfile[u] = f
          PROVE  Changing(u)' = Changing(u) /\ (Midway(u) => Midway(u)') /\ (Sees(u) => Sees(u)')
        <3>1. tpc'[u] = tpc[u] /\ seen'[u] = seen[u] /\ treaders'[u] = treaders[u]
            BY <2>4 DEF Frame
        <3>2. Changing(u)' = Changing(u)
            BY <1>1, <3>1 DEF Changing
        <3>3. Midway(u) => Midway(u)'
            BY <1>1, <2>2, <2>3, <2>4, <3>1 DEF Midway, Own, Intact
        <3>4. Sees(u) => Sees(u)'
            BY <1>1, <2>4, <3>1 DEF Sees
        <3> QED BY <3>2, <3>3, <3>4
    <2>5. Sees(t)'
        BY <2>1 DEF Fine
    <2>6. (\A u \in Threads : tfile[u] = f => ~Changing(u)) <=> (\A u \in Threads : tfile'[u] = f => ~Changing(u)')
        BY <1>1, <2>4
    <2>7. ASSUME NEW u \in Threads, tfile'[u] = f
          PROVE  (Changing(u)' => Midway(u)') /\ Sees(u)'
        BY <1>1, <2>1, <2>4, <2>5, <2>7 DEF Fine
    <2> QED BY <1>1, <2>1, <2>3, <2>6, <2>7 DEF Fine
<1> QED BY <1>2, <1>3, StepKeeps

---------------------------------------------------------------------------
(* The calls the handlers are made of.                                     *)

\* A step that only decides where the thread goes.
LEMMA BranchFrame ==
    ASSUME NEW t \in Threads, NEW to \in Steps, Types, status = "up", tfile[t] \in AllNames,
           Branch(t, to)
    PROVE  /\ Frame(t) /\ Types'
           /\ tpc'[t] = to /\ status' = "up"
           /\ UNCHANGED <<files, disk, leftover, seen, op, tfile, next, treaders>>
BY DEF Branch, Goto, Frame, Types, shared

\* insert touches the thread's own entry, and only a missing one.
LEMMA InsertFrame ==
    ASSUME NEW t \in Threads, NEW to \in Steps, NEW n \in Int, Types, status = "up", tfile[t] \in AllNames,
           Insert(t, to, n)
    PROVE  /\ Frame(t) /\ Types'
           /\ tpc'[t] = to /\ status' = "up"
           /\ DOMAIN files' = DOMAIN files \cup {tfile[t]}
           /\ files'[tfile[t]] = IF tfile[t] \in DOMAIN files THEN files[tfile[t]] ELSE n
           /\ UNCHANGED <<disk, leftover, seen, op, tfile, next, treaders>>
<1>1. /\ files' = mapInsert(files, tfile[t], n) /\ tpc' = [tpc EXCEPT ![t] = to]
      /\ UNCHANGED <<disk, status, restarts, next, op, tfile, treaders, seen, at, leftover>>
    BY DEF Insert, Goto
<1>2. /\ DOMAIN files' = DOMAIN files \cup {tfile[t]}
      /\ \A g \in DOMAIN files' : files'[g] \in Int
      /\ \A g \in DOMAIN files : files'[g] = files[g]
      /\ tfile[t] \notin DOMAIN files => files'[tfile[t]] = n
    BY <1>1 DEF mapInsert, Types
<1>3. Types'
    BY <1>1, <1>2 DEF Types, AllNames
<1> QED BY <1>1, <1>2, <1>3 DEF Frame, Types

\* readers = files[f] makes a missing entry and changes no other.
LEMMA GetFrame ==
    ASSUME NEW t \in Threads, NEW to \in Steps, NEW delta \in {1, -1}, Types, status = "up", tfile[t] \in AllNames,
           Get(t, to, delta)
    PROVE  /\ Frame(t) /\ Types'
           /\ tpc'[t] = to /\ status' = "up"
           /\ DOMAIN files' = DOMAIN files \cup {tfile[t]}
           /\ tfile[t] \in DOMAIN files => files'[tfile[t]] = files[tfile[t]]
           /\ treaders'[t] = files'[tfile[t]] + delta
           /\ UNCHANGED <<disk, leftover, seen, op, tfile, next>>
<1>1. /\ files' = mapInsert(files, tfile[t], 0) /\ tpc' = [tpc EXCEPT ![t] = to]
      /\ treaders' = [treaders EXCEPT ![t] = files'[tfile[t]] + delta]
      /\ UNCHANGED <<disk, status, restarts, next, op, tfile, seen, at, leftover>>
    BY DEF Get, Goto
<1>2. /\ DOMAIN files' = DOMAIN files \cup {tfile[t]}
      /\ \A g \in DOMAIN files' : files'[g] \in Int
      /\ \A g \in DOMAIN files : files'[g] = files[g]
    BY <1>1 DEF mapInsert, Types
<1>3. Types'
    BY <1>1, <1>2 DEF Types, AllNames
<1> QED BY <1>1, <1>2, <1>3 DEF Frame, Types

\* erase takes out the thread's own entry, or aborts where there is none.
LEMMA EraseFrame ==
    ASSUME NEW t \in Threads, NEW to \in Steps, Types, status = "up", tfile[t] \in AllNames,
           Erase(t, to)
    PROVE  /\ Frame(t) /\ Types'
           /\ UNCHANGED <<disk, leftover, seen, op, tfile, next, treaders>>
           /\ IF tfile[t] \in DOMAIN files
              THEN status' = "up" /\ tpc'[t] = to /\ DOMAIN files' = DOMAIN files \ {tfile[t]}
              ELSE status' = "aborted" /\ tpc' = tpc
<1>1. UNCHANGED <<disk, restarts, next, op, tfile, treaders, seen, at, leftover>>
    BY DEF Erase
<1>2. CASE fileExists(tfile[t])
    <2>1. files' = mapErase(files, tfile[t]) /\ tpc' = [tpc EXCEPT ![t] = to] /\ status' = "up"
        BY <1>2 DEF Erase, Goto
    <2>2. DOMAIN files' = DOMAIN files \ {tfile[t]} /\ \A g \in DOMAIN files' : files'[g] = files[g]
        BY <2>1 DEF mapErase
    <2>3. Types'
        BY <1>1, <2>1, <2>2 DEF Types
    <2> QED BY <1>1, <1>2, <2>1, <2>2, <2>3 DEF Frame, Types, fileExists
<1>3. CASE ~fileExists(tfile[t])
    BY <1>1, <1>3 DEF Erase, Frame, Types, fileExists
<1> QED BY <1>2, <1>3

\* Opening leaves a file of the thread alone, empty, under its name.
LEMMA OpenFrame ==
    ASSUME NEW t \in Threads, NEW from, NEW to \in Steps, Types, status = "up", tfile[t] \in AllNames,
           OpenFile(t, from, to)
    PROVE  /\ Frame(t) /\ Types'
           /\ tpc'[t] = to /\ status' = "up"
           /\ tfile[t] \in DOMAIN disk' /\ disk'[tfile[t]] = [by |-> {t}, whole |-> FALSE]
           /\ UNCHANGED <<files, seen, op, tfile, next, treaders>>
<1>1. /\ disk' = [f \in DOMAIN disk \cup {tfile[t]} |->
                    IF f = tfile[t] THEN [by |-> {t}, whole |-> FALSE] ELSE disk[f]]
      /\ leftover' = leftover \ {tfile[t]} /\ tpc' = [tpc EXCEPT ![t] = to]
      /\ UNCHANGED <<files, status, restarts, next, op, tfile, treaders, seen>>
    BY DEF OpenFile, Goto
<1>2. [by |-> {t}, whole |-> FALSE] \in Versions
    BY DEF Versions
<1>3. Types'
    BY <1>1, <1>2 DEF Types, AllNames
<1> QED BY <1>1, <1>3 DEF Frame, Types

\* Closing completes the thread's own file if nobody else got at it.
LEMMA ClosedFrame ==
    ASSUME NEW t \in Threads, NEW whole \in BOOLEAN, NEW to \in Steps, Types, status = "up", tfile[t] \in AllNames,
           disk' \in Closed(t, whole), tpc' = [tpc EXCEPT ![t] = to],
           leftover' \in {leftover, leftover \cup {tfile[t]}},
           UNCHANGED <<files, status, next, op, tfile, treaders, seen>>
    PROVE  /\ Frame(t) /\ Types'
           /\ tpc'[t] = to /\ status' = "up"
           /\ Own(t) => tfile[t] \in DOMAIN disk' /\ disk'[tfile[t]] = [by |-> {t}, whole |-> whole]
<1> DEFINE f == tfile[t]
<1>1. CASE disk' = disk /\ ~Own(t)
    BY <1>1 DEF Frame, Types
<1>2. CASE f \in DOMAIN disk /\ disk[f].by = {t} /\ disk' = [disk EXCEPT ![f].whole = whole]
    <2>1. disk[f] \in Versions
        BY <1>2 DEF Types
    <2>2. [disk[f] EXCEPT !.whole = whole] = [by |-> {t}, whole |-> whole]
        BY <1>2, <2>1 DEF Versions
    <2>3. /\ DOMAIN disk' = DOMAIN disk /\ disk'[f] = [by |-> {t}, whole |-> whole]
          /\ \A g \in DOMAIN disk \ {f} : disk'[g] = disk[g]
        BY <1>2, <2>2
    <2>4. [by |-> {t}, whole |-> whole] \in Versions
        BY DEF Versions
    <2>5. \A g \in DOMAIN disk' : disk'[g] \in Versions
        BY <2>3, <2>4 DEF Types
    <2>6. Types'
        BY <2>3, <2>5 DEF Types, AllNames
    <2>7. Frame(t)
        BY <2>3 DEF Frame, Types
    <2>8. tpc'[t] = to
        BY DEF Types
    <2> QED BY <1>2, <2>3, <2>6, <2>7, <2>8
<1>3. CASE f \in DOMAIN disk /\ ~Own(t) /\ disk' = [disk EXCEPT ![f] = [by |-> @.by \cup {t}, whole |-> FALSE]]
    <2>1. disk[f] \in Versions
        BY <1>3 DEF Types
    <2>2. [by |-> disk[f].by \cup {t}, whole |-> FALSE] \in Versions
        BY <2>1 DEF Versions
    <2> QED BY <1>3, <2>2 DEF Frame, Types
<1>4. \/ disk' = disk /\ ~Own(t)
      \/ f \in DOMAIN disk /\ disk[f].by = {t} /\ disk' = [disk EXCEPT ![f].whole = whole]
      \/ f \in DOMAIN disk /\ ~Own(t) /\ disk' = [disk EXCEPT ![f] = [by |-> @.by \cup {t}, whole |-> FALSE]]
    BY DEF Closed, Own
<1> QED BY <1>1, <1>2, <1>3, <1>4

\* What a handler knows before its next call.
LEMMA InHandler ==
    ASSUME NEW t \in Threads, IInv, status = "up", tpc[t] # "done"
    PROVE  Types /\ Placed(t) /\ tfile[t] \in AllNames /\ t < next
BY DEF IInv, Placed

---------------------------------------------------------------------------
(* One lemma per action.                                                   *)

\* handleReadRequest: a name that is not registered is refused.
LEMMA ReadStartKeeps ==
    ASSUME NEW t \in Threads, IInv, raced' = raced \cup Contended', ReadStart(t)
    PROVE  IInv'
<1>1. status = "up" /\ op[t] = "read" /\ tpc[t] = "start"
    BY DEF ReadStart, At
<1>2. Types /\ Placed(t) /\ tfile[t] \in AllNames /\ t < next
    BY <1>1, InHandler
<1>3. CASE fileExists(tfile[t])
    <2>1. Branch(t, "acqGet")
        BY <1>3 DEF ReadStart
    <2>2. /\ Frame(t) /\ Types' /\ tpc'[t] = "acqGet" /\ status' = "up"
          /\ UNCHANGED <<files, disk, leftover, seen, op, tfile, next>>
        BY <1>1, <1>2, <2>1, BranchFrame DEF Steps
    <2>3. Placed(t)'
        BY <1>1, <1>2, <2>2 DEF Placed
    <2>4. Readers(tfile[t])' = Readers(tfile[t])
        BY <1>1, <1>2, <2>2, ReadersStep DEF Reads
    <2>5. ~Changing(t) /\ Changing(t)'
        BY <1>1, <2>2 DEF Changing
    <2>6. Knows(t) => Owes(t)
        BY <1>1, <1>2, <1>3, <2>2, <2>4, <2>5 DEF Knows, Owes, Midway, Agrees, Intact, Sees, fileExists
    <2> QED BY <1>1, <2>2, <2>3, <2>5, <2>6, ChangingStep
<1>4. CASE ~fileExists(tfile[t])
    <2>1. Branch(t, "done")
        BY <1>4 DEF ReadStart
    <2>2. /\ Frame(t) /\ Types' /\ tpc'[t] = "done" /\ status' = "up"
          /\ UNCHANGED <<files, disk, leftover, seen, op, tfile, next>>
        BY <1>1, <1>2, <2>1, BranchFrame DEF Steps
    <2>3. Placed(t)'
        BY <1>1, <1>2, <2>2 DEF Placed
    <2>4. /\ ~Changing(t) /\ ~Changing(t)' /\ (Reads(t)' <=> Reads(t))
          /\ Sees(t) => Sees(t)'
        BY <1>1, <2>2 DEF Changing, Reads, Sees
    <2> QED BY <1>1, <2>2, <2>3, <2>4, IdleStep
<1> QED BY <1>3, <1>4

\* An entry that is not there to be erased is one of a raced name.
LEMMA AbortStep ==
    ASSUME NEW t \in Threads, IInv, raced' = raced \cup Contended', Frame(t), Types',
           tpc[t] \in {"acqErase", "relErase", "erase"}, tfile[t] \notin DOMAIN files,
           status' = "aborted", tpc' = tpc, seen' = seen
    PROVE  IInv'
<1>1. status = "up" /\ tfile' = tfile /\ op' = op /\ next' = next
    BY DEF Frame
<1>2. Changing(t)
    BY DEF Changing
<1>3. tfile[t] \in raced'
    <2> SUFFICES ASSUME tfile[t] \notin raced' PROVE FALSE
        OBVIOUS
    <2>1. Knows(t)
        BY <1>2, AloneKnows
    <2> QED BY <1>2, <2>1 DEF Knows, Midway
<1>4. AbortExplained'
    BY <1>1, <1>3 DEF AbortExplained
<1>5. Placed(t)'
    BY <1>1 DEF Placed, IInv
<1> QED BY <1>4, <1>5, StepKeeps

\* readers++ in three calls: the count is exact again when the entry is back.
LEMMA CountReaderKeeps ==
    ASSUME NEW t \in Threads, IInv, raced' = raced \cup Contended', CountReader(t)
    PROVE  IInv'
<1>1. status = "up" /\ op[t] = "read" /\ tpc[t] \in {"acqGet", "acqErase", "acqInsert"}
    BY DEF CountReader, At
<1>2. Types /\ Placed(t) /\ tfile[t] \in AllNames /\ t < next /\ tfile[t] # ListFile
    BY <1>1, InHandler DEF Placed
<1>3. Changing(t)
    BY <1>1 DEF Changing
<1>4. CASE tpc[t] = "acqGet"
    <2>1. Get(t, "acqErase", 1)
        BY <1>4 DEF CountReader, At
    <2>2. /\ Frame(t) /\ Types' /\ tpc'[t] = "acqErase" /\ status' = "up"
          /\ DOMAIN files' = DOMAIN files \cup {tfile[t]}
          /\ tfile[t] \in DOMAIN files => files'[tfile[t]] = files[tfile[t]]
          /\ treaders'[t] = files'[tfile[t]] + 1
          /\ UNCHANGED <<disk, leftover, seen, op, tfile, next>>
        BY <1>1, <1>2, <2>1, GetFrame DEF Steps
    <2>3. Placed(t)'
        BY <1>1, <1>2, <2>2, <1>4 DEF Placed
    <2>4. Readers(tfile[t])' = Readers(tfile[t])
        BY <1>1, <1>2, <2>2, ReadersStep DEF Reads
    <2>5. Knows(t) => Owes(t)
        BY <1>1, <1>2, <1>3, <1>4, <2>2, <2>4 DEF Knows, Owes, Changing, Midway, Agrees, Intact, Sees
    <2> QED BY <1>1, <1>3, <2>2, <2>3, <2>5, ChangingStep
<1>5. CASE tpc[t] = "acqErase"
    <2>1. Erase(t, "acqInsert")
        BY <1>5 DEF CountReader, At
    <2>2. /\ Frame(t) /\ Types'
          /\ UNCHANGED <<disk, leftover, seen, op, tfile, next, treaders>>
          /\ IF tfile[t] \in DOMAIN files
             THEN status' = "up" /\ tpc'[t] = "acqInsert" /\ DOMAIN files' = DOMAIN files \ {tfile[t]}
             ELSE status' = "aborted" /\ tpc' = tpc
        BY <1>1, <1>2, <2>1, EraseFrame DEF Steps
    <2>3. CASE tfile[t] \in DOMAIN files
        <3>1. Placed(t)'
            BY <1>1, <1>2, <2>2, <2>3, <1>5 DEF Placed
        <3>2. Readers(tfile[t])' = Readers(tfile[t])
            BY <1>1, <1>2, <1>5, <2>2, <2>3, ReadersStep DEF Reads
        <3>3. Knows(t) => Owes(t)
            BY <1>1, <1>2, <1>3, <1>5, <2>2, <2>3, <3>2 DEF Knows, Owes, Changing, Midway, Agrees, Intact, Sees
        <3> QED BY <1>1, <1>3, <2>2, <2>3, <3>1, <3>3, ChangingStep
    <2>4. CASE tfile[t] \notin DOMAIN files
        BY <1>5, <2>2, <2>4, AbortStep
    <2> QED BY <2>3, <2>4
<1>6. CASE tpc[t] = "acqInsert"
    <2>1. Insert(t, "send", treaders[t])
        BY <1>6 DEF CountReader, At
    <2>2. treaders[t] \in Int
        BY <1>2 DEF Types
    <2>3. /\ Frame(t) /\ Types' /\ tpc'[t] = "send" /\ status' = "up"
          /\ DOMAIN files' = DOMAIN files \cup {tfile[t]}
          /\ files'[tfile[t]] = IF tfile[t] \in DOMAIN files THEN files[tfile[t]] ELSE treaders[t]
          /\ UNCHANGED <<disk, leftover, seen, op, tfile, next, treaders>>
        BY <1>1, <1>2, <2>1, <2>2, InsertFrame DEF Steps
    <2>4. Placed(t)'
        BY <1>1, <1>2, <2>3 DEF Placed
    <2>5. /\ Cardinality(Readers(tfile[t]))' = Cardinality(Readers(tfile[t])) + 1
          /\ Readers(tfile[t])' # {}
        BY <1>1, <1>2, <1>6, <2>3, ReadersStep DEF Reads
    <2>6. Knows(t) => Owes(t)
        BY <1>1, <1>2, <1>3, <1>6, <2>3, <2>5 DEF Knows, Owes, Changing, Midway, Agrees, Intact, Sees, Placed
    <2> QED BY <1>1, <1>3, <2>3, <2>4, <2>6, ChangingStep
<1> QED BY <1>1, <1>4, <1>5, <1>6

\* readers-- in three calls.
LEMMA DropReaderKeeps ==
    ASSUME NEW t \in Threads, IInv, raced' = raced \cup Contended', DropReader(t)
    PROVE  IInv'
<1>1. status = "up" /\ op[t] = "read" /\ tpc[t] \in {"relGet", "relErase", "relInsert"}
    BY DEF DropReader, At
<1>2. Types /\ Placed(t) /\ tfile[t] \in AllNames /\ t < next
    BY <1>1, InHandler
<1>3. CASE tpc[t] = "relGet"
    <2>1. Get(t, "relErase", -1)
        BY <1>3 DEF DropReader, At
    <2>2. /\ Frame(t) /\ Types' /\ tpc'[t] = "relErase" /\ status' = "up"
          /\ DOMAIN files' = DOMAIN files \cup {tfile[t]}
          /\ tfile[t] \in DOMAIN files => files'[tfile[t]] = files[tfile[t]]
          /\ treaders'[t] = files'[tfile[t]] - 1
          /\ UNCHANGED <<disk, leftover, seen, op, tfile, next>>
        BY <1>1, <1>2, <2>1, GetFrame DEF Steps
    <2>3. Placed(t)'
        BY <1>1, <1>2, <2>2 DEF Placed
    <2>4. /\ Readers(tfile[t])' = Readers(tfile[t]) /\ Readers(tfile[t]) # {}
          /\ Cardinality(Readers(tfile[t])) \in Nat
        BY <1>1, <1>2, <1>3, <2>2, ReadersStep DEF Reads
    <2>5. ~Changing(t) /\ Changing(t)'
        BY <1>1, <1>3, <2>2 DEF Changing
    <2>6. Knows(t) => Owes(t)
        BY <1>1, <1>2, <1>3, <2>2, <2>4, <2>5 DEF Knows, Owes, Midway, Agrees, Intact, Sees
    <2> QED BY <1>1, <2>2, <2>3, <2>5, <2>6, ChangingStep
<1>4. CASE tpc[t] = "relErase"
    <2>1. Erase(t, "relInsert")
        BY <1>4 DEF DropReader, At
    <2>2. /\ Frame(t) /\ Types'
          /\ UNCHANGED <<disk, leftover, seen, op, tfile, next, treaders>>
          /\ IF tfile[t] \in DOMAIN files
             THEN status' = "up" /\ tpc'[t] = "relInsert" /\ DOMAIN files' = DOMAIN files \ {tfile[t]}
             ELSE status' = "aborted" /\ tpc' = tpc
        BY <1>1, <1>2, <2>1, EraseFrame DEF Steps
    <2>3. CASE tfile[t] \in DOMAIN files
        <3>1. Placed(t)'
            BY <1>1, <1>2, <2>2, <2>3 DEF Placed
        <3>2. Readers(tfile[t])' = Readers(tfile[t])
            BY <1>1, <1>2, <1>4, <2>2, <2>3, ReadersStep DEF Reads
        <3>3. Changing(t)
            BY <1>4 DEF Changing
        <3>4. Knows(t) => Owes(t)
            BY <1>1, <1>2, <1>4, <2>2, <2>3, <3>2, <3>3 DEF Knows, Owes, Changing, Midway, Agrees, Intact, Sees
        <3> QED BY <1>1, <2>2, <2>3, <3>1, <3>3, <3>4, ChangingStep
    <2>4. CASE tfile[t] \notin DOMAIN files
        BY <1>4, <2>2, <2>4, AbortStep
    <2> QED BY <2>3, <2>4
<1>5. CASE tpc[t] = "relInsert"
    <2>1. Insert(t, "done", treaders[t])
        BY <1>5 DEF DropReader, At
    <2>2. treaders[t] \in Int
        BY <1>2 DEF Types
    <2>3. /\ Frame(t) /\ Types' /\ tpc'[t] = "done" /\ status' = "up"
          /\ DOMAIN files' = DOMAIN files \cup {tfile[t]}
          /\ files'[tfile[t]] = IF tfile[t] \in DOMAIN files THEN files[tfile[t]] ELSE treaders[t]
          /\ UNCHANGED <<disk, leftover, seen, op, tfile, next, treaders>>
        BY <1>1, <1>2, <2>1, <2>2, InsertFrame DEF Steps
    <2>4. Placed(t)'
        BY <1>1, <1>2, <2>3 DEF Placed
    <2>5. Cardinality(Readers(tfile[t]))' = Cardinality(Readers(tfile[t])) - 1
        BY <1>1, <1>2, <1>5, <2>3, ReadersStep DEF Reads
    <2>6. Changing(t) /\ ~Changing(t)'
        BY <1>5, <2>3 DEF Changing
    <2>7. Knows(t) => Owes(t)
        BY <1>1, <1>2, <1>5, <2>3, <2>5, <2>6 DEF Knows, Owes, Midway, Agrees, Intact, Sees
    <2> QED BY <1>1, <2>3, <2>4, <2>6, <2>7, ChangingStep
<1> QED BY <1>1, <1>3, <1>4, <1>5

\* Blocks come from the file a reader, or a listing, is counted or was written for.
LEMMA SendBlockKeeps ==
    ASSUME NEW t \in Threads, IInv, raced' = raced \cup Contended', SendBlock(t)
    PROVE  IInv'
<1>1. status = "up" /\ tpc[t] = "send"
    BY DEF SendBlock
<1>2. Types /\ Placed(t) /\ tfile[t] \in AllNames /\ t < next
    BY <1>1, InHandler
<1>3. /\ seen' = [seen EXCEPT ![t] = @ \cup {disk[f] : f \in {tfile[t]} \cap DOMAIN disk}]
      /\ \/ tpc' = [tpc EXCEPT ![t] = IF op[t] = "list" THEN "done" ELSE "relGet"]
         \/ tpc' = tpc
      /\ UNCHANGED <<files, disk, status, restarts, next, op, tfile, treaders, at, leftover>>
    BY DEF SendBlock, Goto, shared
<1>4. /\ seen'[t] = seen[t] \cup {disk[f] : f \in {tfile[t]} \cap DOMAIN disk}
      /\ seen' \in [Threads -> SUBSET Versions]
    BY <1>2, <1>3 DEF Types
<1>5. tpc'[t] \in {"send", IF op[t] = "list" THEN "done" ELSE "relGet"}
    BY <1>1, <1>2, <1>3 DEF Types
<1>6. Frame(t) /\ Types'
    BY <1>1, <1>2, <1>3, <1>4 DEF Frame, Types, Steps
<1>7. Placed(t)'
    <2>1. t \in Int /\ next \in Int
        BY <1>2, RegistryAssumption DEF Types, Threads
    <2>2. ~(t >= next')
        BY <1>2, <1>3, <2>1
    <2> QED BY <1>1, <1>2, <1>3, <1>5, <2>2 DEF Placed
<1>8. op[t] \in {"read", "list"}
    BY <1>1, <1>2 DEF Placed
<1>9. CASE op[t] = "read"
    <2>1. /\ ~Changing(t) /\ ~Changing(t)' /\ (Reads(t)' <=> Reads(t))
          /\ Sees(t) => Sees(t)'
        BY <1>1, <1>3, <1>4, <1>5, <1>9 DEF Changing, Reads, Sees
    <2> QED BY <1>1, <1>3, <1>6, <1>7, <2>1, IdleStep
<1>10. CASE op[t] = "list"
    <2>1. Readers(tfile[t])' = Readers(tfile[t])
        BY <1>2, <1>3, <1>6, <1>10, ReadersStep DEF Reads
    <2>2. Changing(t)
        BY <1>1, <1>10 DEF Changing
    <2>3. Knows(t) => Owes(t)
        BY <1>1, <1>3, <1>5, <1>10, <2>1, <2>2 DEF Knows, Owes, Midway, Agrees, Intact, Sees
    <2> QED BY <1>1, <1>3, <1>6, <1>7, <2>2, <2>3, ChangingStep
<1> QED BY <1>8, <1>9, <1>10

\* handleWriteRequest: a name that is registered is refused.
LEMMA WriteStartKeeps ==
    ASSUME NEW t \in Threads, IInv, raced' = raced \cup Contended', WriteStart(t)
    PROVE  IInv'
<1>1. status = "up" /\ op[t] = "write" /\ tpc[t] = "start"
    BY DEF WriteStart, At
<1>2. Types /\ Placed(t) /\ tfile[t] \in AllNames /\ t < next
    BY <1>1, InHandler
<1>3. CASE ~fileExists(tfile[t])
    <2>1. Branch(t, "open")
        BY <1>3 DEF WriteStart
    <2>2. /\ Frame(t) /\ Types' /\ tpc'[t] = "open" /\ status' = "up"
          /\ UNCHANGED <<files, disk, leftover, seen, op, tfile, next>>
        BY <1>1, <1>2, <2>1, BranchFrame DEF Steps
    <2>3. Placed(t)'
        BY <1>1, <1>2, <2>2 DEF Placed
    <2>4. Readers(tfile[t])' = Readers(tfile[t])
        BY <1>1, <1>2, <2>2, ReadersStep DEF Reads
    <2>5. ~Changing(t) /\ Changing(t)'
        BY <1>1, <2>2 DEF Changing
    <2>6. Knows(t) => Owes(t)
        BY <1>1, <1>2, <1>3, <2>2, <2>4, <2>5 DEF Knows, Owes, Midway, Agrees, Intact, Sees, fileExists
    <2> QED BY <1>1, <2>2, <2>3, <2>5, <2>6, ChangingStep
<1>4. CASE fileExists(tfile[t])
    <2>1. Branch(t, "done")
        BY <1>4 DEF WriteStart
    <2>2. /\ Frame(t) /\ Types' /\ tpc'[t] = "done" /\ status' = "up"
          /\ UNCHANGED <<files, disk, leftover, seen, op, tfile, next>>
        BY <1>1, <1>2, <2>1, BranchFrame DEF Steps
    <2>3. Placed(t)'
        BY <1>1, <1>2, <2>2 DEF Placed
    <2>4. /\ ~Changing(t) /\ ~Changing(t)' /\ (Reads(t)' <=> Reads(t))
          /\ Sees(t) => Sees(t)'
        BY <1>1, <2>2 DEF Changing, Reads, Sees
    <2> QED BY <1>1, <2>2, <2>3, <2>4, IdleStep
<1> QED BY <1>3, <1>4

\* The stream of an unregistered name replaces no complete file.
LEMMA WriteOpenKeeps ==
    ASSUME NEW t \in Threads, IInv, raced' = raced \cup Contended', WriteOpen(t)
    PROVE  IInv'
<1>1. status = "up" /\ op[t] = "write" /\ tpc[t] = "open"
    BY DEF WriteOpen, At
<1>2. Types /\ Placed(t) /\ tfile[t] \in AllNames /\ t < next
    BY <1>1, InHandler
<1>3. Changing(t)
    BY <1>1 DEF Changing
<1>4. CASE OpenFile(t, "open", "data")
    <2>1. /\ Frame(t) /\ Types' /\ tpc'[t] = "data" /\ status' = "up"
          /\ tfile[t] \in DOMAIN disk' /\ disk'[tfile[t]] = [by |-> {t}, whole |-> FALSE]
          /\ UNCHANGED <<files, seen, op, tfile, next, treaders>>
        BY <1>1, <1>2, <1>4, OpenFrame DEF Steps
    <2>2. Placed(t)'
        BY <1>1, <1>2, <2>1 DEF Placed
    <2>3. Readers(tfile[t])' = Readers(tfile[t])
        BY <1>1, <1>2, <2>1, ReadersStep DEF Reads
    <2>4. Knows(t) => Owes(t)
        BY <1>1, <1>3, <2>1, <2>3 DEF Knows, Owes, Changing, Midway, Agrees, Own, Sees
    <2> QED BY <1>1, <1>3, <2>1, <2>2, <2>4, ChangingStep
<1>5. CASE Branch(t, "done")
    <2>1. /\ Frame(t) /\ Types' /\ tpc'[t] = "done" /\ status' = "up"
          /\ UNCHANGED <<files, disk, leftover, seen, op, tfile, next>>
        BY <1>1, <1>2, <1>5, BranchFrame DEF Steps
    <2>2. Placed(t)'
        BY <1>1, <1>2, <2>1 DEF Placed
    <2>3. Readers(tfile[t])' = Readers(tfile[t])
        BY <1>1, <1>2, <2>1, ReadersStep DEF Reads
    <2>4. Knows(t) => Owes(t)
        BY <1>1, <1>3, <2>1, <2>3 DEF Knows, Owes, Changing, Midway, Agrees, Intact, Sees
    <2> QED BY <1>1, <1>3, <2>1, <2>2, <2>4, ChangingStep
<1> QED BY <1>4, <1>5 DEF WriteOpen

\* A write that ends early leaves an incomplete file that is not registered.
LEMMA WriteBlocksKeeps ==
    ASSUME NEW t \in Threads, IInv, raced' = raced \cup Contended', WriteBlocks(t)
    PROVE  IInv'
<1>1. status = "up" /\ op[t] = "write" /\ tpc[t] = "data"
    BY DEF WriteBlocks, At
<1>2. Types /\ Placed(t) /\ tfile[t] \in AllNames /\ t < next
    BY <1>1, InHandler
<1>3. Changing(t)
    BY <1>1 DEF Changing
<1>4. CASE Branch(t, "insert")
    <2>1. /\ Frame(t) /\ Types' /\ tpc'[t] = "insert" /\ status' = "up"
          /\ UNCHANGED <<files, disk, leftover, seen, op, tfile, next>>
        BY <1>1, <1>2, <1>4, BranchFrame DEF Steps
    <2>2. Placed(t)'
        BY <1>1, <1>2, <2>1 DEF Placed
    <2>3. Readers(tfile[t])' = Readers(tfile[t])
        BY <1>1, <1>2, <2>1, ReadersStep DEF Reads
    <2>4. Knows(t) => Owes(t)
        BY <1>1, <1>3, <2>1, <2>3 DEF Knows, Owes, Changing, Midway, Own, Sees
    <2> QED BY <1>1, <1>3, <2>1, <2>2, <2>4, ChangingStep
<1>5. CASE /\ disk' \in Closed(t, FALSE) /\ Goto(t, "done")
           /\ UNCHANGED <<files, status, restarts, next, op, tfile, treaders, seen, at, leftover>>
    <2>1. /\ Frame(t) /\ Types' /\ tpc'[t] = "done" /\ status' = "up"
          /\ Own(t) => tfile[t] \in DOMAIN disk' /\ disk'[tfile[t]] = [by |-> {t}, whole |-> FALSE]
        BY <1>1, <1>2, <1>5, ClosedFrame DEF Steps, Goto
    <2>2. Placed(t)'
        BY <1>1, <1>2, <1>5, <2>1 DEF Placed
    <2>3. Readers(tfile[t])' = Readers(tfile[t])
        BY <1>1, <1>2, <1>5, <2>1, ReadersStep DEF Reads
    <2>4. ~Changing(t)'
        BY <2>1 DEF Changing
    <2>5. Knows(t) => Owes(t)
        BY <1>1, <1>3, <1>5, <2>1, <2>3, <2>4 DEF Knows, Owes, Midway, Agrees, Sees
    <2> QED BY <1>1, <1>3, <2>1, <2>2, <2>5, ChangingStep
<1> QED BY <1>4, <1>5 DEF WriteBlocks

\* A complete upload becomes readable while its stream is still open.
LEMMA RegisterKeeps ==
    ASSUME NEW t \in Threads, IInv, raced' = raced \cup Contended', Register(t)
    PROVE  IInv'
<1>1. status = "up" /\ op[t] = "write" /\ tpc[t] = "insert"
    BY DEF Register, At
<1>2. Types /\ Placed(t) /\ tfile[t] \in AllNames /\ t < next
    BY <1>1, InHandler
<1>3. PICK n \in Int : n = 0 /\ Insert(t, "close", n)
    BY DEF Register
<1>4. /\ Frame(t) /\ Types' /\ tpc'[t] = "close" /\ status' = "up"
      /\ DOMAIN files' = DOMAIN files \cup {tfile[t]}
      /\ files'[tfile[t]] = IF tfile[t] \in DOMAIN files THEN files[tfile[t]] ELSE 0
      /\ UNCHANGED <<disk, leftover, seen, op, tfile, next, treaders>>
    BY <1>1, <1>2, <1>3, InsertFrame DEF Steps
<1>5. Placed(t)'
    BY <1>1, <1>2, <1>4 DEF Placed
<1>6. Readers(tfile[t])' = Readers(tfile[t])
    BY <1>1, <1>2, <1>4, ReadersStep DEF Reads
<1>7. Changing(t)
    BY <1>1 DEF Changing
<1>8. Knows(t) => Owes(t)
    BY <1>1, <1>4, <1>6, <1>7 DEF Knows, Owes, Changing, Midway, Own, Sees
<1> QED BY <1>1, <1>4, <1>5, <1>7, <1>8, ChangingStep

\* The close completes the file, or leaves it incomplete and registered.
LEMMA WriteCloseKeeps ==
    ASSUME NEW t \in Threads, IInv, raced' = raced \cup Contended', WriteClose(t)
    PROVE  IInv'
<1>1. status = "up" /\ op[t] = "write" /\ tpc[t] = "close"
    BY DEF WriteClose, At
<1>2. Types /\ Placed(t) /\ tfile[t] \in AllNames /\ t < next
    BY <1>1, InHandler
<1>3. PICK whole \in BOOLEAN :
        /\ disk' \in Closed(t, whole)
        /\ leftover' = IF whole THEN leftover ELSE leftover \cup {tfile[t]}
    BY DEF WriteClose, CloseFile
<1>4. /\ tpc' = [tpc EXCEPT ![t] = "done"]
      /\ UNCHANGED <<files, status, restarts, next, op, tfile, treaders, seen, at>>
    BY DEF WriteClose, Goto
<1>5. /\ Frame(t) /\ Types' /\ tpc'[t] = "done" /\ status' = "up"
      /\ Own(t) => tfile[t] \in DOMAIN disk' /\ disk'[tfile[t]] = [by |-> {t}, whole |-> whole]
    BY <1>1, <1>2, <1>3, <1>4, ClosedFrame DEF Steps
<1>6. Placed(t)'
    BY <1>1, <1>2, <1>4, <1>5 DEF Placed
<1>7. /\ Readers(tfile[t])' = Readers(tfile[t])
      /\ Cardinality(Readers(tfile[t])) = 0 <=> Readers(tfile[t]) = {}
    BY <1>1, <1>2, <1>4, <1>5, ReadersStep DEF Reads
<1>8. Changing(t) /\ ~Changing(t)'
    BY <1>1, <1>5 DEF Changing
<1>9. Knows(t) => Owes(t)
    BY <1>1, <1>3, <1>4, <1>5, <1>7, <1>8 DEF Knows, Owes, Midway, Agrees, Intact, Sees
<1> QED BY <1>1, <1>5, <1>6, <1>8, <1>9, ChangingStep

\* handleDeleteRequest's fileExists decides nothing that lasts.
LEMMA DeleteStartKeeps ==
    ASSUME NEW t \in Threads, IInv, raced' = raced \cup Contended', DeleteStart(t)
    PROVE  IInv'
<1>1. status = "up" /\ op[t] = "delete" /\ tpc[t] = "start"
    BY DEF DeleteStart, At
<1>2. Types /\ Placed(t) /\ tfile[t] \in AllNames /\ t < next
    BY <1>1, InHandler
<1>3. PICK to \in Steps : to \in {"find", "done"} /\ Branch(t, to)
    BY DEF DeleteStart, Steps
<1>4. /\ Frame(t) /\ Types' /\ tpc'[t] = to /\ status' = "up"
      /\ UNCHANGED <<files, disk, leftover, seen, op, tfile, next>>
    BY <1>1, <1>2, <1>3, BranchFrame
<1>5. Placed(t)'
    BY <1>1, <1>2, <1>3, <1>4 DEF Placed
<1>6. /\ ~Changing(t) /\ ~Changing(t)' /\ (Reads(t)' <=> Reads(t))
      /\ Sees(t) => Sees(t)'
    BY <1>1, <1>3, <1>4 DEF Changing, Reads, Sees
<1> QED BY <1>1, <1>4, <1>5, <1>6, IdleStep

\* canDelete's find.
LEMMA CanFindKeeps ==
    ASSUME NEW t \in Threads, IInv, raced' = raced \cup Contended', CanFind(t)
    PROVE  IInv'
<1>1. status = "up" /\ op[t] = "delete" /\ tpc[t] = "find"
    BY DEF CanFind, At
<1>2. Types /\ Placed(t) /\ tfile[t] \in AllNames /\ t < next
    BY <1>1, InHandler
<1>3. PICK to \in Steps : to = (IF fileExists(tfile[t]) THEN "count" ELSE "done") /\ Branch(t, to)
    BY DEF CanFind, Steps
<1>4. /\ Frame(t) /\ Types' /\ tpc'[t] = to /\ status' = "up"
      /\ UNCHANGED <<files, disk, leftover, seen, op, tfile, next>>
    BY <1>1, <1>2, <1>3, BranchFrame
<1>5. Placed(t)'
    BY <1>1, <1>2, <1>3, <1>4 DEF Placed
<1>6. ~Changing(t)
    BY <1>1 DEF Changing
<1>7. CASE fileExists(tfile[t])
    <2>1. Readers(tfile[t])' = Readers(tfile[t])
        BY <1>1, <1>2, <1>4, ReadersStep DEF Reads
    <2>2. Changing(t)'
        BY <1>3, <1>4, <1>7 DEF Changing
    <2>3. Knows(t) => Owes(t)
        BY <1>1, <1>3, <1>4, <1>6, <1>7, <2>1 DEF Knows, Owes, Midway, Agrees, Intact, Sees, fileExists
    <2> QED BY <1>1, <1>4, <1>5, <2>2, <2>3, ChangingStep
<1>8. CASE ~fileExists(tfile[t])
    <2>1. ~Changing(t)' /\ (Reads(t)' <=> Reads(t)) /\ (Sees(t) => Sees(t)')
        BY <1>1, <1>3, <1>4, <1>8 DEF Changing, Reads, Sees
    <2> QED BY <1>1, <1>4, <1>5, <1>6, <2>1, IdleStep
<1> QED BY <1>7, <1>8

\* canDelete's operator[]: a count of 0 means that nobody reads.
LEMMA CanCountKeeps ==
    ASSUME NEW t \in Threads, IInv, raced' = raced \cup Contended', CanCount(t)
    PROVE  IInv'
<1>1. status = "up" /\ op[t] = "delete" /\ tpc[t] = "count"
    BY DEF CanCount, At
<1>2. Types /\ Placed(t) /\ tfile[t] \in AllNames /\ t < next
    BY <1>1, InHandler
<1>3. PICK to \in Steps, n \in Int :
        n = 0 /\ to = (IF files'[tfile[t]] = 0 THEN "exists" ELSE "done") /\ Insert(t, to, n)
    BY DEF CanCount, Insert, Steps
<1>4. /\ Frame(t) /\ Types' /\ tpc'[t] = to /\ status' = "up"
      /\ DOMAIN files' = DOMAIN files \cup {tfile[t]}
      /\ files'[tfile[t]] = IF tfile[t] \in DOMAIN files THEN files[tfile[t]] ELSE 0
      /\ UNCHANGED <<disk, leftover, seen, op, tfile, next, treaders>>
    BY <1>1, <1>2, <1>3, InsertFrame
<1>5. Placed(t)'
    BY <1>1, <1>2, <1>3, <1>4 DEF Placed
<1>6. /\ Readers(tfile[t])' = Readers(tfile[t])
      /\ Cardinality(Readers(tfile[t])) = 0 <=> Readers(tfile[t]) = {}
    BY <1>1, <1>2, <1>4, ReadersStep DEF Reads
<1>7. Changing(t)
    BY <1>1 DEF Changing
<1>8. Knows(t) => Owes(t)
    BY <1>1, <1>3, <1>4, <1>6, <1>7 DEF Knows, Owes, Midway, Agrees, Intact, Sees
<1> QED BY <1>1, <1>4, <1>5, <1>7, <1>8, ChangingStep

\* fs::exists.
LEMMA CheckFileKeeps ==
    ASSUME NEW t \in Threads, IInv, raced' = raced \cup Contended', CheckFile(t)
    PROVE  IInv'
<1>1. status = "up" /\ op[t] = "delete" /\ tpc[t] = "exists"
    BY DEF CheckFile, At
<1>2. Types /\ Placed(t) /\ tfile[t] \in AllNames /\ t < next
    BY <1>1, InHandler
<1>3. PICK to \in Steps : to \in {"remove", "done"} /\ Branch(t, to)
    BY DEF CheckFile, Steps
<1>4. /\ Frame(t) /\ Types' /\ tpc'[t] = to /\ status' = "up"
      /\ UNCHANGED <<files, disk, leftover, seen, op, tfile, next>>
    BY <1>1, <1>2, <1>3, BranchFrame
<1>5. Placed(t)'
    BY <1>1, <1>2, <1>3, <1>4 DEF Placed
<1>6. Readers(tfile[t])' = Readers(tfile[t])
    BY <1>1, <1>2, <1>4, ReadersStep DEF Reads
<1>7. Changing(t)
    BY <1>1 DEF Changing
<1>8. Knows(t) => Owes(t)
    BY <1>1, <1>3, <1>4, <1>6, <1>7 DEF Knows, Owes, Midway, Agrees, Intact, Sees
<1> QED BY <1>1, <1>4, <1>5, <1>7, <1>8, ChangingStep

\* fs::remove, with the entry still in the map.
LEMMA RemoveFileKeeps ==
    ASSUME NEW t \in Threads, IInv, raced' = raced \cup Contended', RemoveFile(t)
    PROVE  IInv'
<1>1. status = "up" /\ op[t] = "delete" /\ tpc[t] = "remove"
    BY DEF RemoveFile, At
<1>2. Types /\ Placed(t) /\ tfile[t] \in AllNames /\ t < next
    BY <1>1, InHandler
<1>3. Changing(t)
    BY <1>1 DEF Changing
<1>4. CASE /\ disk' = [f \in DOMAIN disk \ {tfile[t]} |-> disk[f]]
           /\ Goto(t, "erase")
           /\ UNCHANGED <<files, status, restarts, next, op, tfile, treaders, seen, at, leftover>>
    <2>1. tpc' = [tpc EXCEPT ![t] = "erase"] /\ tpc'[t] = "erase"
        BY <1>2, <1>4 DEF Goto, Types
    <2>2. Frame(t) /\ Types'
        BY <1>1, <1>2, <1>4, <2>1 DEF Frame, Types, Steps
    <2>3. Placed(t)'
        BY <1>1, <1>2, <1>4, <2>1 DEF Placed
    <2>4. Readers(tfile[t])' = Readers(tfile[t])
        BY <1>1, <1>2, <1>4, <2>1, <2>2, ReadersStep DEF Reads
    <2>5. Knows(t) => Owes(t)
        BY <1>1, <1>3, <1>4, <2>1, <2>4 DEF Knows, Owes, Changing, Midway, Sees
    <2> QED BY <1>1, <1>3, <1>4, <2>2, <2>3, <2>5, ChangingStep
<1>5. CASE Branch(t, "done")
    <2>1. /\ Frame(t) /\ Types' /\ tpc'[t] = "done" /\ status' = "up"
          /\ UNCHANGED <<files, disk, leftover, seen, op, tfile, next>>
        BY <1>1, <1>2, <1>5, BranchFrame DEF Steps
    <2>2. Placed(t)'
        BY <1>1, <1>2, <2>1 DEF Placed
    <2>3. Readers(tfile[t])' = Readers(tfile[t])
        BY <1>1, <1>2, <2>1, ReadersStep DEF Reads
    <2>4. Knows(t) => Owes(t)
        BY <1>1, <1>3, <2>1, <2>3 DEF Knows, Owes, Changing, Midway, Agrees, Intact, Sees
    <2> QED BY <1>1, <1>3, <2>1, <2>2, <2>4, ChangingStep
<1> QED BY <1>4, <1>5 DEF RemoveFile

\* The erase after fs::remove brings map and directory together again.
LEMMA EraseEntryKeeps ==
    ASSUME NEW t \in Threads, IInv, raced' = raced \cup Contended', EraseEntry(t)
    PROVE  IInv'
<1>1. status = "up" /\ op[t] = "delete" /\ tpc[t] = "erase" /\ Erase(t, "done")
    BY DEF EraseEntry, At
<1>2. Types /\ Placed(t) /\ tfile[t] \in AllNames /\ t < next
    BY <1>1, InHandler
<1>3. /\ Frame(t) /\ Types'
      /\ UNCHANGED <<disk, leftover, seen, op, tfile, next, treaders>>
      /\ IF tfile[t] \in DOMAIN files
         THEN status' = "up" /\ tpc'[t] = "done" /\ DOMAIN files' = DOMAIN files \ {tfile[t]}
         ELSE status' = "aborted" /\ tpc' = tpc
    BY <1>1, <1>2, EraseFrame DEF Steps
<1>4. CASE tfile[t] \in DOMAIN files
    <2>1. Placed(t)'
        BY <1>1, <1>2, <1>3, <1>4 DEF Placed
    <2>2. Readers(tfile[t])' = Readers(tfile[t])
        BY <1>1, <1>2, <1>3, <1>4, ReadersStep DEF Reads
    <2>3. Changing(t)
        BY <1>1 DEF Changing
    <2>4. Knows(t) => Owes(t)
        BY <1>1, <1>3, <1>4, <2>2, <2>3 DEF Knows, Owes, Changing, Midway, Agrees, Sees
    <2> QED BY <1>1, <1>3, <1>4, <2>1, <2>3, <2>4, ChangingStep
<1>5. CASE tfile[t] \notin DOMAIN files
    BY <1>1, <1>3, <1>5, AbortStep
<1> QED BY <1>4, <1>5

\* No READ asks for ls.txt.
LEMMA ListUnread ==
    ASSUME IInv
    PROVE  Readers(ListFile) = {}
BY DEF IInv, Placed, Readers

\* A listing empties ls.txt, which nobody reads.
LEMMA ListOpenKeeps ==
    ASSUME NEW t \in Threads, IInv, raced' = raced \cup Contended', ListOpen(t)
    PROVE  IInv'
<1>1. status = "up" /\ op[t] = "list" /\ tpc[t] = "start"
    BY DEF ListOpen, At
<1>2. Types /\ Placed(t) /\ tfile[t] \in AllNames /\ t < next /\ tfile[t] = ListFile
    BY <1>1, InHandler DEF Placed
<1>3. ~Changing(t)
    BY <1>1 DEF Changing
<1>4. CASE OpenFile(t, "start", "list")
    <2>1. /\ Frame(t) /\ Types' /\ tpc'[t] = "list" /\ status' = "up"
          /\ tfile[t] \in DOMAIN disk' /\ disk'[tfile[t]] = [by |-> {t}, whole |-> FALSE]
          /\ UNCHANGED <<files, seen, op, tfile, next, treaders>>
        BY <1>1, <1>2, <1>4, OpenFrame DEF Steps
    <2>2. Placed(t)'
        BY <1>1, <1>2, <2>1 DEF Placed
    <2>3. Readers(tfile[t]) = {} /\ Cardinality(Readers(tfile[t])) = 0
        BY <1>2, <2>1, ListUnread, ReadersStep
    <2>4. Changing(t)'
        BY <2>1 DEF Changing
    <2>5. Knows(t) => Owes(t)
        BY <1>1, <1>3, <2>1, <2>3, <2>4 DEF Knows, Owes, Midway, Agrees, Own, Sees
    <2> QED BY <1>1, <2>1, <2>2, <2>4, <2>5, ChangingStep
<1>5. CASE Branch(t, "done")
    <2>1. /\ Frame(t) /\ Types' /\ tpc'[t] = "done" /\ status' = "up"
          /\ UNCHANGED <<files, disk, leftover, seen, op, tfile, next>>
        BY <1>1, <1>2, <1>5, BranchFrame DEF Steps
    <2>2. Placed(t)'
        BY <1>1, <1>2, <2>1 DEF Placed
    <2>3. ~Changing(t)' /\ (Reads(t)' <=> Reads(t)) /\ (Sees(t) => Sees(t)')
        BY <1>1, <2>1 DEF Changing, Reads, Sees
    <2> QED BY <1>1, <1>3, <2>1, <2>2, <2>3, IdleStep
<1> QED BY <1>4, <1>5 DEF ListOpen

\* An entry of the listing, or the abort on a dangling iterator.
LEMMA ListEntryKeeps ==
    ASSUME NEW t \in Threads, IInv, raced' = raced \cup Contended', ListEntry(t)
    PROVE  IInv'
<1>1. status = "up" /\ op[t] = "list" /\ tpc[t] = "list"
    BY DEF ListEntry, At
<1>2. Types /\ Placed(t) /\ tfile[t] \in AllNames /\ t < next
    BY <1>1, InHandler
<1>3. UNCHANGED <<files, disk, restarts, next, op, tfile, tpc, treaders, seen, leftover>>
    BY DEF ListEntry
<1>4. Frame(t) /\ Types' /\ Placed(t)'
    BY <1>1, <1>2, <1>3 DEF Frame, Types, Placed
<1>5. CASE status' = status
    <2>1. Readers(tfile[t])' = Readers(tfile[t])
        BY <1>1, <1>2, <1>3, <1>4, ReadersStep DEF Reads
    <2>2. Changing(t) /\ Changing(t)'
        BY <1>1, <1>3 DEF Changing
    <2>3. Knows(t) => Owes(t)
        BY <1>1, <1>3, <2>1, <2>2 DEF Knows, Owes, Midway, Own, Sees
    <2> QED BY <1>1, <1>4, <1>5, <2>2, <2>3, ChangingStep
<1>6. CASE at[t] \notin DOMAIN files /\ status' = "aborted" /\ at' = at
    <2>1. AbortExplained'
        BY <1>1, <1>3, <1>6 DEF AbortExplained
    <2> QED BY <1>4, <1>6, <2>1, StepKeeps
<1> QED BY <1>5, <1>6 DEF ListEntry

\* The listing is complete, or its close has failed.
LEMMA ListCloseKeeps ==
    ASSUME NEW t \in Threads, IInv, raced' = raced \cup Contended', ListClose(t)
    PROVE  IInv'
<1>1. status = "up" /\ op[t] = "list" /\ tpc[t] = "list"
    BY DEF ListClose, At
<1>2. Types /\ Placed(t) /\ tfile[t] \in AllNames /\ t < next /\ tfile[t] = ListFile
    BY <1>1, InHandler DEF Placed
<1>3. PICK whole \in BOOLEAN :
        /\ disk' \in Closed(t, whole)
        /\ leftover' = IF whole THEN leftover ELSE leftover \cup {tfile[t]}
    BY DEF ListClose, CloseFile
<1>4. /\ tpc' = [tpc EXCEPT ![t] = "send"]
      /\ UNCHANGED <<files, status, restarts, next, op, tfile, treaders, seen, at>>
    BY DEF ListClose, Goto
<1>5. /\ Frame(t) /\ Types' /\ tpc'[t] = "send" /\ status' = "up"
      /\ Own(t) => tfile[t] \in DOMAIN disk' /\ disk'[tfile[t]] = [by |-> {t}, whole |-> whole]
    BY <1>1, <1>2, <1>3, <1>4, ClosedFrame DEF Steps
<1>6. Placed(t)'
    BY <1>1, <1>2, <1>4, <1>5 DEF Placed
<1>7. /\ Readers(tfile[t])' = Readers(tfile[t])
      /\ Readers(tfile[t]) = {} /\ Cardinality(Readers(tfile[t])) = 0
    BY <1>1, <1>2, <1>4, <1>5, ListUnread, ReadersStep DEF Reads
<1>8. Changing(t) /\ Changing(t)'
    BY <1>1, <1>4, <1>5 DEF Changing
<1>9. ASSUME Knows(t) PROVE Owes(t)
    <2>1. Intact(tfile[t])'
        BY <1>1, <1>3, <1>4, <1>5, <1>8, <1>9 DEF Knows, Midway, Intact
    <2>2. tfile[t] \in DOMAIN files => files[tfile[t]] = 0
        BY <1>1, <1>8, <1>9 DEF Knows, Midway
    <2>3. Agrees(tfile[t])'
        BY <1>2, <1>4, <1>7, <2>1, <2>2 DEF Agrees
    <2> QED BY <1>1, <1>4, <1>5, <1>7, <1>8, <2>3 DEF Owes, Midway, Sees
<1> QED BY <1>1, <1>5, <1>6, <1>8, <1>9, ChangingStep

---------------------------------------------------------------------------
(* The listener and the process.                                           *)

\* A new thread changes nothing before its first look-up.
LEMMA AcceptKeeps ==
    ASSUME NEW kind \in {"read", "write", "delete", "list"}, NEW f \in AllNames,
           IInv, raced' = raced \cup Contended', Accept(kind, f)
    PROVE  IInv'
<1> PICK n \in Threads : n = next
    BY DEF Accept
<1>1. /\ status = "up" /\ next' = n + 1
      /\ f = ListFile => kind \in {"delete", "list"}
      /\ kind = "list" => f = ListFile
      /\ op' = [op EXCEPT ![n] = kind] /\ tfile' = [tfile EXCEPT ![n] = f]
      /\ tpc' = [tpc EXCEPT ![n] = "start"]
      /\ UNCHANGED <<files, disk, status, restarts, treaders, seen, at, leftover>>
    BY DEF Accept, shared
<1>2. Types /\ n = next
    BY DEF IInv
<1>3. tpc[n] = "done" /\ seen[n] = {}
    <2>1. Placed(n) /\ n \in Int
        BY <1>1, RegistryAssumption DEF IInv, Threads
    <2> QED BY <1>2, <2>1 DEF Placed
<1>4. op'[n] = kind /\ tfile'[n] = f /\ tpc'[n] = "start"
    BY <1>1, <1>2 DEF Types
<1>5. ASSUME NEW u \in Threads, u # n
      PROVE  /\ op'[u] = op[u] /\ tfile'[u] = tfile[u] /\ tpc'[u] = tpc[u]
             /\ seen'[u] = seen[u] /\ treaders'[u] = treaders[u]
    BY <1>1, <1>2, <1>5 DEF Types
<1>6. Types'
    BY <1>1, <1>2 DEF Types, Kinds, Steps
<1>7. ASSUME NEW u \in Threads PROVE Placed(u)'
    <2>1. u \in Int /\ n \in Int
        BY <1>1, RegistryAssumption DEF Threads
    <2>2. CASE u = n
        BY <1>1, <1>3, <1>4, <2>1, <2>2 DEF Placed
    <2>3. CASE u # n
        BY <1>1, <1>2, <1>5, <2>1, <2>3 DEF Placed, IInv
    <2> QED BY <2>2, <2>3
<1>8. ASSUME NEW g \in AllNames, g \notin raced' PROVE Fine(g)'
    <2>1. Fine(g)
        BY <1>1, <1>8 DEF IInv
    <2>2. Readers(g)' = Readers(g)
        <3>1. n \notin Readers(g) /\ n \notin Readers(g)'
            BY <1>3, <1>4 DEF Readers
        <3>2. \A u \in Threads \ {n} : u \in Readers(g)' <=> u \in Readers(g)
            BY <1>5 DEF Readers
        <3> QED BY <3>1, <3>2 DEF Readers
    <2>3. Agrees(g)' <=> Agrees(g)
        BY <1>1, <2>2 DEF Agrees, Intact
    <2>4. ~Changing(n) /\ ~Changing(n)' /\ Sees(n)'
        BY <1>3, <1>4 DEF Changing, Sees
    <2>5. ASSUME NEW u \in Threads, u # n, tfile[u] = g
          PROVE  Changing(u)' = Changing(u) /\ (Midway(u) => Midway(u)') /\ (Sees(u) => Sees(u)')
        <3>1. Changing(u)' = Changing(u)
            BY <1>5, <2>5 DEF Changing
        <3>2. Midway(u) => Midway(u)'
            <4>1. /\ tfile'[u] = g /\ tpc'[u] = tpc[u] /\ treaders'[u] = treaders[u]
                  /\ files' = files /\ disk' = disk /\ leftover' = leftover
                BY <1>1, <1>5, <2>5
            <4>2. Own(u)' <=> Own(u)
                BY <2>5, <4>1 DEF Own
            <4> QED BY <2>2, <2>3, <2>5, <4>1, <4>2 DEF Midway, Intact
        <3>3. Sees(u) => Sees(u)'
            BY <1>1, <1>5, <2>5 DEF Sees
        <3> QED BY <3>1, <3>2, <3>3
    <2>6. (\A u \in Threads : tfile[u] = g => ~Changing(u)) <=> (\A u \in Threads : tfile'[u] = g => ~Changing(u)')
        BY <1>5, <2>4, <2>5
    <2>7. ASSUME NEW u \in Threads, tfile'[u] = g
          PROVE  (Changing(u)' => Midway(u)') /\ Sees(u)'
        BY <1>5, <2>1, <2>4, <2>5, <2>7 DEF Fine
    <2> QED BY <2>1, <2>3, <2>6, <2>7 DEF Fine
<1>9. (status = "up" => Contended \subseteq raced /\ \A g \in AllNames \ raced : Fine(g))'
    BY <1>8 DEF AllNames
<1>10. AbortExplained'
    BY <1>1 DEF AbortExplained
<1> QED BY <1>6, <1>7, <1>9, <1>10 DEF IInv

\* A killed server promises nothing.
LEMMA KillKeeps ==
    ASSUME IInv, Kill
    PROVE  IInv'
<1>1. status' = "killed" /\ UNCHANGED <<files, disk, restarts, next, op, tfile, tpc, treaders, seen, at, leftover>>
    BY DEF Kill, locals
<1>2. Types'
    BY <1>1 DEF IInv, Types
<1>3. \A t \in Threads : Placed(t)'
    BY <1>1 DEF IInv, Placed
<1> QED BY <1>1, <1>2, <1>3 DEF IInv, AbortExplained

\* The map of a new process is what the directory holds.
LEMMA RestartKeeps ==
    ASSUME IInv, Restart
    PROVE  IInv'
<1>1. /\ status' = "up" /\ files' = initializeFileMap(disk)
      /\ tpc' = [t \in Threads |-> "done"]
      /\ leftover' = {f \in DOMAIN disk : ~disk[f].whole} /\ raced' = {}
      /\ UNCHANGED <<disk, next, op, tfile, treaders, seen, at>>
    BY DEF Restart
<1>2. DOMAIN files' = DOMAIN disk /\ \A f \in DOMAIN files' : files'[f] = 0
    BY <1>1 DEF initializeFileMap
<1>3. Types'
    BY <1>1, <1>2 DEF IInv, Types, AllNames, Steps
<1>4. ASSUME NEW t \in Threads PROVE Placed(t)' /\ ~Changing(t)' /\ Sees(t)'
    <2>1. tpc'[t] = "done"
        BY <1>1
    <2> QED BY <1>1, <2>1 DEF IInv, Placed, Changing, Sees
<1>5. ASSUME NEW f PROVE Agrees(f)'
    <2>1. Readers(f)' = {}
        BY <1>1 DEF Readers
    <2>2. Cardinality(Readers(f)') = 0
        BY <2>1, FS_EmptySet
    <2> QED BY <1>1, <1>2, <2>1, <2>2 DEF Agrees, Intact
<1>6. Contended' = {}
    BY <1>4 DEF Contended
<1>7. \A f \in AllNames : Fine(f)'
    BY <1>4, <1>5 DEF Fine
<1> QED BY <1>1, <1>3, <1>4, <1>6, <1>7 DEF IInv, AbortExplained, AllNames

\* The server starts with a map that is what the directory holds.
LEMMA InitHolds == Init => IInv
<1> SUFFICES ASSUME Init PROVE IInv
    OBVIOUS
<1>1. /\ disk = [f \in Initial |-> [by |-> {0}, whole |-> TRUE]]
      /\ files = initializeFileMap(disk) /\ status = "up"
      /\ tpc = [t \in Threads |-> "done"] /\ op = [t \in Threads |-> "none"]
      /\ raced = {} /\ leftover = {}
    BY DEF Init
<1>2. DOMAIN files = DOMAIN disk /\ \A f \in DOMAIN files : files[f] = 0
    BY <1>1 DEF initializeFileMap
<1>3. Initial \subseteq AllNames /\ [by |-> {0}, whole |-> TRUE] \in Versions
    BY RegistryAssumption DEF Versions
<1>4. Types
    <2>1. DOMAIN disk \subseteq AllNames /\ \A f \in DOMAIN disk : disk[f] \in Versions
        BY <1>1, <1>3
    <2>2. /\ next = 1 /\ tfile = [t \in Threads |-> NoName]
          /\ treaders = [t \in Threads |-> 0] /\ seen = [t \in Threads |-> {}]
        BY DEF Init
    <2>3. /\ op \in [Threads -> Kinds] /\ tpc \in [Threads -> Steps]
          /\ tfile \in [Threads -> AllNames \cup {NoName}]
          /\ treaders \in [Threads -> Int] /\ seen \in [Threads -> SUBSET Versions]
        BY <1>1, <2>2 DEF Kinds, Steps
    <2> QED BY <1>2, <2>1, <2>2, <2>3 DEF Types
<1>5. ASSUME NEW t \in Threads PROVE Placed(t) /\ ~Changing(t) /\ Sees(t)
    <2>1. tpc[t] = "done" /\ op[t] = "none" /\ seen[t] = {}
        BY <1>1 DEF Init
    <2> QED BY <2>1 DEF Placed, Changing, Sees
<1>6. ASSUME NEW f PROVE Agrees(f)
    <2>1. Readers(f) = {}
        BY <1>1 DEF Readers
    <2>2. Cardinality(Readers(f)) = 0
        BY <2>1, FS_EmptySet
    <2> QED BY <1>1, <1>2, <2>1, <2>2 DEF Agrees, Intact
<1>7. Contended = {}
    BY <1>5 DEF Contended
<1>8. \A f \in AllNames : Fine(f)
    BY <1>5, <1>6 DEF Fine
<1> QED BY <1>1, <1>4, <1>5, <1>7, <1>8 DEF IInv, AbortExplained

\* Every step keeps the invariant.
LEMMA NextKeeps == IInv /\ [Next]_vars => IInv'
<1> SUFFICES ASSUME IInv, [Next]_vars PROVE IInv'
    OBVIOUS
<1>1. ASSUME NEW t \in Threads, ThreadStep(t), raced' = raced \cup Contended'
      PROVE  IInv'
    BY <1>1, ReadStartKeeps, CountReaderKeeps, SendBlockKeeps, DropReaderKeeps, WriteStartKeeps,
       WriteOpenKeeps, WriteBlocksKeeps, RegisterKeeps, WriteCloseKeeps, DeleteStartKeeps, CanFindKeeps,
       CanCountKeeps, CheckFileKeeps, RemoveFileKeeps, EraseEntryKeeps, ListOpenKeeps, ListEntryKeeps,
       ListCloseKeeps DEF ThreadStep
<1>2. CASE UNCHANGED vars
    <2>1. /\ files' = files /\ disk' = disk /\ status' = status /\ next' = next /\ op' = op
          /\ tfile' = tfile /\ tpc' = tpc /\ treaders' = treaders /\ seen' = seen /\ at' = at
          /\ raced' = raced /\ leftover' = leftover
        BY <1>2 DEF vars, shared, locals
    <2>2. Types' /\ AbortExplained' /\ \A t \in Threads : Placed(t)'
        BY <2>1 DEF IInv, Types, AbortExplained, Placed
    <2>3. \A t \in Threads : Changing(t)' = Changing(t)
        BY <2>1 DEF Changing
    <2>4. Contended' = Contended
        BY <2>1, <2>3 DEF Contended, AllNames
    <2>5. ASSUME NEW f, Fine(f) PROVE Fine(f)'
        <3>1. Readers(f)' = Readers(f)
            BY <2>1 DEF Readers
        <3>2. Agrees(f)' <=> Agrees(f)
            BY <2>1, <3>1 DEF Agrees, Intact
        <3>3. ASSUME NEW t \in Threads, tfile[t] = f
              PROVE  (Midway(t) => Midway(t)') /\ (Sees(t) => Sees(t)')
            BY <2>1, <3>1, <3>2, <3>3 DEF Midway, Own, Intact, Sees
        <3> QED BY <2>1, <2>3, <2>5, <3>2, <3>3 DEF Fine
    <2>6. (status = "up" => Contended \subseteq raced /\ \A f \in AllNames \ raced : Fine(f))'
        BY <2>1, <2>4, <2>5 DEF IInv, AllNames
    <2> QED BY <2>2, <2>6 DEF IInv
<1> QED BY <1>1, <1>2, AcceptKeeps, KillKeeps, RestartKeeps DEF Next

\* The inductive invariant holds of every behaviour of the map and the directory.
THEOREM RegistryInvariant == Spec => []IInv
BY InitHolds, NextKeeps, PTL DEF Spec

\* The counts of the files map are exact on every name that is settled: readers++
\* and readers-- as three unlocked calls lose no reader unless two threads meet.
THEOREM CountsExact == Spec => []CountExact
<1>1. IInv => CountExact
    BY DEF IInv, CountExact, Settled, Fine, Agrees
<1> QED BY <1>1, RegistryInvariant, PTL

\* The files map and serverDatabase/ agree on every settled name, over restarts.
THEOREM MapAndDirectoryAgree == Spec => []MapAgrees
<1>1. IInv => MapAgrees
    BY DEF IInv, MapAgrees, Settled, Fine, Agrees, Intact
<1> QED BY <1>1, RegistryInvariant, PTL

\* handleReadRequest sends blocks of one file, although it reopens it for each.
THEOREM ReadersSeeOneFile == Spec => []ReaderSeesOneFile
<1>1. IInv => ReaderSeesOneFile
    BY DEF IInv, ReaderSeesOneFile, Placed, Fine, Sees
<1> QED BY <1>1, RegistryInvariant, PTL

\* Only a raced name, or an entry erased under a listing, aborts the server.
THEOREM AbortsExplained == Spec => []AbortExplained
<1>1. IInv => AbortExplained
    BY DEF IInv
<1> QED BY <1>1, RegistryInvariant, PTL

\* What a thread knows of an unraced name it is changing.
LEMMA MidwayNow ==
    ASSUME NEW t \in Threads, IInv, raced' = raced \cup Contended', status = "up",
           Changing(t), tfile[t] \notin raced'
    PROVE  Midway(t)
<1>1. tpc[t] # "done"
    BY DEF Changing
<1>2. tfile[t] \in AllNames \ raced
    BY <1>1, InHandler
<1> QED BY <1>2 DEF IInv, Fine

\* A stream that was opened for an unraced name ends in its own, unfinished file.
LEMMA ClosedKeepsWhole ==
    ASSUME NEW t \in Threads, NEW whole \in BOOLEAN, NEW f \in DOMAIN disk,
           disk[f].whole, disk' \in Closed(t, whole), f = tfile[t] => Own(t)
    PROVE  f \in DOMAIN disk' /\ disk'[f] = disk[f]
<1>1. f # tfile[t]
    BY DEF Own
<1> QED BY <1>1 DEF Closed

\* A thread's step leaves every complete, unraced file alone, or removes it unread.
LEMMA StepKeepsWhole ==
    ASSUME NEW t \in Threads, IInv, raced' = raced \cup Contended', ThreadStep(t),
           NEW f \in (DOMAIN disk) \ (raced' \cup {ListFile}), disk[f].whole
    PROVE  IF f \in DOMAIN disk' THEN disk'[f] = disk[f] ELSE Readers(f) = {}
<1>1. CASE disk' = disk
    BY <1>1
<1>2. CASE WriteOpen(t) /\ OpenFile(t, "open", "data")
    <2>1. status = "up" /\ tpc[t] = "open" /\ op[t] = "write"
        BY <1>2 DEF WriteOpen, At
    <2>2. CASE f = tfile[t]
        <3>1. Midway(t)
            BY <2>1, <2>2, MidwayNow DEF Changing
        <3> QED BY <2>1, <2>2, <3>1 DEF Midway, Agrees
    <2>3. CASE f # tfile[t]
        BY <1>2, <2>3 DEF OpenFile
    <2> QED BY <2>2, <2>3
<1>3. CASE WriteBlocks(t) /\ disk' \in Closed(t, FALSE)
    <2>1. status = "up" /\ tpc[t] = "data"
        BY <1>3 DEF WriteBlocks, At
    <2>2. f = tfile[t] => Own(t)
        BY <2>1, MidwayNow DEF Changing, Midway
    <2> QED BY <1>3, <2>2, ClosedKeepsWhole
<1>4. CASE WriteClose(t)
    <2>1. status = "up" /\ tpc[t] = "close"
        BY <1>4 DEF WriteClose, At
    <2>2. f = tfile[t] => Own(t)
        BY <2>1, MidwayNow DEF Changing, Midway
    <2>3. PICK whole \in BOOLEAN : disk' \in Closed(t, whole)
        BY <1>4 DEF WriteClose, CloseFile
    <2> QED BY <2>2, <2>3, ClosedKeepsWhole
<1>5. CASE RemoveFile(t) /\ disk' = [g \in DOMAIN disk \ {tfile[t]} |-> disk[g]]
    <2>1. status = "up" /\ tpc[t] = "remove"
        BY <1>5 DEF RemoveFile, At
    <2>2. f = tfile[t] => Readers(f) = {}
        BY <2>1, MidwayNow DEF Changing, Midway
    <2> QED BY <1>5, <2>2
<1>6. CASE ListOpen(t) /\ OpenFile(t, "start", "list")
    <2>1. f # tfile[t]
        BY <1>6, InHandler DEF ListOpen, At, Placed
    <2> QED BY <1>6, <2>1 DEF OpenFile
<1>7. CASE ListClose(t)
    <2>1. f # tfile[t]
        BY <1>7, InHandler DEF ListClose, At, Placed
    <2>2. PICK whole \in BOOLEAN : disk' \in Closed(t, whole)
        BY <1>7 DEF ListClose, CloseFile
    <2> QED BY <2>1, <2>2, ClosedKeepsWhole
<1>8. \/ disk' = disk
      \/ WriteOpen(t) /\ OpenFile(t, "open", "data")
      \/ WriteBlocks(t) /\ disk' \in Closed(t, FALSE)
      \/ WriteClose(t)
      \/ RemoveFile(t) /\ disk' = [g \in DOMAIN disk \ {tfile[t]} |-> disk[g]]
      \/ ListOpen(t) /\ OpenFile(t, "start", "list")
      \/ ListClose(t)
    BY DEF ThreadStep, ReadStart, CountReader, SendBlock, DropReader, WriteStart, WriteOpen, WriteBlocks,
       Register, DeleteStart, CanFind, CanCount, CheckFile, RemoveFile, EraseEntry, ListOpen, ListEntry,
       Branch, Get, Insert, Erase, shared
<1> QED BY <1>1, <1>2, <1>3, <1>4, <1>5, <1>6, <1>7, <1>8

\* No request rewrites a complete file, and none removes one that is being read,
\* as long as no two threads were changing its name at once.
THEOREM WholeFilesKept == Spec => WholeKept
<1>1. ASSUME IInv, Next, NEW f \in (DOMAIN disk) \ (raced' \cup {ListFile}), disk[f].whole
      PROVE  IF f \in DOMAIN disk' THEN disk'[f] = disk[f] ELSE Readers(f) = {}
    <2>1. CASE disk' = disk
        BY <2>1
    <2>2. CASE (\E t \in Threads : ThreadStep(t)) /\ raced' = raced \cup Contended'
        BY <1>1, <2>2, StepKeepsWhole
    <2> QED BY <1>1, <2>1, <2>2 DEF Next, Accept, Kill, Restart, shared
<1>2. IInv /\ [Next]_vars =>
        [\A f \in (DOMAIN disk) \ (raced' \cup {ListFile}) :
            disk[f].whole => IF f \in DOMAIN disk' THEN disk'[f] = disk[f] ELSE Readers(f) = {}]_vars
    BY <1>1
<1> QED BY <1>2, RegistryInvariant, PTL DEF Spec, WholeKept

---------------------------------------------------------------------------
(* Type correctness.                                                       *)

\* Every non-empty set of naturals has a least element.
LEMMA Least ==
    ASSUME NEW S \in SUBSET Nat, S # {}
    PROVE  \E m \in S : \A k \in S : m <= k
<1>1. PICK m \in S : \A k \in S : ~ (<<k, m>> \in OpToRel(<, Nat))
    BY WFMin, NatLessThanWellFounded
<1>2. \A k \in S : ~ (k < m)
    BY <1>1 DEF OpToRel
<1> QED BY <1>2

\* The map's iterator stands at a name or at the end.
LEMMA EntryFromType ==
    ASSUME NEW m, NEW i \in Int
    PROVE  EntryFrom(m, i) \in AllNames \cup {NoName}
<1> DEFINE behind == {j \in DOMAIN Names : j > i /\ Names[j] \in DOMAIN m}
<1>1. CASE behind = {}
    BY <1>1 DEF EntryFrom
<1>2. CASE behind # {}
    <2>1. behind \in SUBSET Nat
        BY RegistryAssumption
    <2>2. \E j \in behind : \A k \in behind : j <= k
        BY <1>2, <2>1, Least
    <2>3. (CHOOSE j \in behind : \A k \in behind : j <= k) \in DOMAIN Names
        BY <2>2
    <2> QED BY <1>2, <2>3 DEF EntryFrom, AllNames
<1> QED BY <1>1, <1>2

\* What TypeOK says and IInv does not need.
Rest ==
    /\ status \in {"up", "killed", "aborted"}
    /\ next \in 1 .. MaxRequests + 1
    /\ at \in [Threads -> AllNames \cup {NoName}]
    /\ raced \subseteq AllNames /\ leftover \subseteq AllNames

\* What a thread's step does to the variables of Rest.
LEMMA RestOfStep ==
    ASSUME NEW t \in Threads, IInv, Rest, ThreadStep(t)
    PROVE  /\ status' \in {"up", "killed", "aborted"} /\ next' = next
           /\ at' \in [Threads -> AllNames \cup {NoName}]
           /\ leftover' \subseteq leftover \cup {tfile[t]} /\ tfile[t] \in AllNames
<1>1. status = "up" /\ tpc[t] # "done"
    BY DEF ThreadStep, ReadStart, CountReader, SendBlock, DropReader, WriteStart, WriteOpen, WriteBlocks,
       Register, WriteClose, DeleteStart, CanFind, CanCount, CheckFile, RemoveFile, EraseEntry, ListOpen,
       ListEntry, ListClose, At
<1>2. tfile[t] \in AllNames
    BY <1>1, InHandler
<1>3. CASE ListOpen(t)
    <2>1. at' = [at EXCEPT ![t] = EntryFrom(files, 0)] \/ at' = at
        BY <1>3 DEF ListOpen, Branch
    <2>2. at' \in [Threads -> AllNames \cup {NoName}]
        BY <2>1, EntryFromType DEF Rest
    <2> QED BY <1>1, <1>2, <1>3, <2>2 DEF ListOpen, OpenFile, Branch, shared
<1>4. CASE ListEntry(t)
    <2>1. Position(at[t]) \in Int
        <3>1. at[t] \in AllNames
            BY <1>4 DEF ListEntry, Rest
        <3>2. \E i \in DOMAIN Names : Names[i] = at[t]
            BY <3>1 DEF AllNames
        <3>3. Position(at[t]) \in DOMAIN Names
            BY <3>2 DEF Position
        <3> QED BY <3>3, RegistryAssumption
    <2>2. EntryFrom(files, Position(at[t])) \in AllNames \cup {NoName}
        BY <2>1, EntryFromType
    <2> QED BY <1>2, <1>4, <2>2 DEF ListEntry, Rest
<1>5. CASE at' = at /\ next' = next /\ leftover' \subseteq leftover \cup {tfile[t]} /\ status' \in {"up", "aborted"}
    BY <1>2, <1>5 DEF Rest
<1> QED BY <1>1, <1>3, <1>4, <1>5
        DEF ThreadStep, ReadStart, CountReader, SendBlock, DropReader, WriteStart, WriteOpen, WriteBlocks,
            Register, WriteClose, CloseFile, DeleteStart, CanFind, CanCount, CheckFile, RemoveFile, EraseEntry, ListClose,
            OpenFile, Branch, Get, Insert, Erase, shared

\* Every reachable state is type correct, and a thread is where its handler can be.
THEOREM TypeCorrect == Spec => []TypeOK
<1>1. Init => Rest
    <2> SUFFICES ASSUME Init PROVE Rest
        OBVIOUS
    <2>1. /\ status = "up" /\ next = 1 /\ at = [t \in Threads |-> NoName]
          /\ raced = {} /\ leftover = {}
        BY DEF Init
    <2> QED BY <2>1, RegistryAssumption DEF Rest
<1>2. ASSUME IInv, Rest, [Next]_vars PROVE Rest'
    <2>1. raced' \subseteq AllNames
        BY <1>2 DEF Next, Restart, Contended, Rest, vars
    <2>2. CASE \E t \in Threads : ThreadStep(t)
        <3>1. PICK t \in Threads : ThreadStep(t)
            BY <2>2
        <3> QED BY <1>2, <2>1, <3>1, RestOfStep DEF Rest, AllNames
    <2>3. ASSUME NEW kind, NEW f \in AllNames, Accept(kind, f) PROVE Rest'
        BY <1>2, <2>1, <2>3, RegistryAssumption DEF Accept, Rest, Threads, AllNames, shared
    <2>4. CASE Kill
        BY <1>2, <2>1, <2>4 DEF Kill, Rest, AllNames, locals
    <2>5. CASE Restart
        BY <1>2, <2>1, <2>5 DEF Restart, Rest, AllNames, IInv, Types
    <2>6. CASE UNCHANGED vars
        BY <1>2, <2>6 DEF vars, shared, locals, Rest, AllNames
    <2> QED BY <1>2, <2>2, <2>3, <2>4, <2>5, <2>6 DEF Next
<1>3. IInv /\ Rest => TypeOK
    <2> SUFFICES ASSUME IInv, Rest PROVE TypeOK
        OBVIOUS
    <2>1. DOMAIN Labels = Kinds
        BY DEF Labels, Kinds
    <2>2. ASSUME NEW t \in Threads PROVE tpc[t] \in Labels[op[t]] \cup {"done"}
        BY DEF IInv, Placed, Labels
    <2> QED BY <2>1, <2>2 DEF IInv, Types, Rest, TypeOK
<1> QED BY <1>1, <1>2, <1>3, RegistryInvariant, InitHolds, NextKeeps, PTL DEF Spec
=============================================================================
