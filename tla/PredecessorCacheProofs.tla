----------------------- MODULE PredecessorCacheProofs ------------------------
(***************************************************************************)
(* The query layer of the PDR engine answers from the frames as they are:  *)
(* PredecessorCache implements PredecessorQueries, whatever the solvers    *)
(* and stores keep from query to query and from batch to batch.            *)
(***************************************************************************)
EXTENDS PredecessorCache, FiniteSetTheorems, SequenceTheorems, WellFoundedInduction, TLAPS

USE DEF Levels

-----------------------------------------------------------------------------
(* Clauses and the sets of states they admit *)

\* The states a set of clauses leaves.
Allowed(C) == {s \in States : \A c \in C : s \in Admits(c)}

Frame == [clauses : SUBSET (Learnable \cup Seeds), log : Seq(Learnable)]

\* A cube of more literals holds in fewer states.
LEMMA SubCubeHolds ==
  ASSUME NEW c, NEW d, SubCube(c, d)
  PROVE  Holds(d) \subseteq Holds(c) /\ Admits(c) \subseteq Admits(d)
BY DEF SubCube, Holds, Admits

LEMMA MeetAdmits ==
  ASSUME NEW facts, NEW C
  PROVE  Meet(facts \cup {Admits(c) : c \in C}) = Meet(facts) \cap Allowed(C)
<1>1. ASSUME NEW s
      PROVE  s \in Meet(facts \cup {Admits(c) : c \in C}) <=> s \in Meet(facts) /\ s \in Allowed(C)
  BY DEF Meet, Allowed
<1> QED BY <1>1

LEMMA AllowedFacts ==
  ASSUME NEW C, NEW D
  PROVE  /\ Allowed(C) \subseteq States
         /\ Allowed({}) = States
         /\ C \subseteq D => Allowed(D) \subseteq Allowed(C)
         /\ \A c \in C : Allowed(C) \subseteq Admits(c)
         /\ (\A c \in C : Allowed(D) \subseteq Admits(c)) => Allowed(D) \subseteq Allowed(C)
BY DEF Allowed

\* FrameClauses::addClause conjoins the new clause, although it may skip the
\* insertion or drop clauses that are subsumed.
LEMMA AddClauseAllows ==
  ASSUME NEW f, NEW c
  PROVE  LET g == AddClauseToFrame(f, c)
         IN  /\ Allowed(g.clauses) = Allowed(f.clauses) \cap Admits(c)
             /\ g.clauses \subseteq f.clauses \cup {c}
             /\ g = f \/ g.log = Append(f.log, c)
<1> DEFINE g == AddClauseToFrame(f, c)
<1>1. CASE SubsumedIn(f, c)
  <2>1. g = f
    BY <1>1 DEF AddClauseToFrame
  <2>2. PICK d \in f.clauses : SubCube(d, c)
    BY <1>1 DEF SubsumedIn
  <2>3. Allowed(f.clauses) \subseteq Admits(c)
    BY <2>2, SubCubeHolds DEF Allowed
  <2> HIDE DEF g
  <2> QED BY <2>1, <2>3 DEF g
<1>2. CASE ~SubsumedIn(f, c)
  <2>1. g = [clauses |-> {d \in f.clauses : ~SubCube(c, d)} \cup {c}, log |-> Append(f.log, c)]
    BY <1>2 DEF AddClauseToFrame
  <2>2. g.clauses = {d \in f.clauses : ~SubCube(c, d)} \cup {c} /\ g.log = Append(f.log, c)
    BY <2>1
  <2> HIDE DEF g
  <2>3. ASSUME NEW s PROVE s \in Allowed(g.clauses) <=> s \in Allowed(f.clauses) /\ s \in Admits(c)
    <3>1. \A d \in f.clauses : SubCube(c, d) => Admits(c) \subseteq Admits(d)
      BY SubCubeHolds
    <3> QED BY <2>2, <3>1 DEF Allowed
  <2> QED BY <2>2, <2>3 DEF g
<1> QED BY <1>1, <1>2

LEMMA AddClauseTyped ==
  ASSUME NEW f \in Frame, NEW c \in Learnable
  PROVE  AddClauseToFrame(f, c) \in Frame
BY AppendProperties DEF AddClauseToFrame, Frame

-----------------------------------------------------------------------------
(* Solvers and the frame they follow *)

Solver == [symbols : SUBSET Symbols, facts : SUBSET SUBSET States,
           emitted : SUBSET (Learnable \cup Seeds), offset : Nat,
           fingerprint : SUBSET (Learnable \cup Seeds), run : 0..Runs, contexts : Nat]

\* The clauses logged after the first n.
Later(log, n) == {log[i] : i \in n + 1..Len(log)}

\* The frame has not forgotten a clause it logged.
LogImplied(f) == \A c \in ToSet(f.log) : Allowed(f.clauses) \subseteq Admits(c)

\* The solver means the clauses of its fingerprint, within the states base that
\* its other facts admit, and the frame is no weaker.
Means(solver, f, base) ==
  /\ Meet(solver.facts) = base \cap Allowed(solver.fingerprint)
  /\ \A c \in solver.emitted : Meet(solver.facts) \subseteq Admits(c)
  /\ Allowed(f.clauses) \subseteq Allowed(solver.fingerprint)

\* The log says everything that has changed since.
Follows(solver, f) ==
  /\ solver.offset <= Len(f.log)
  /\ f.clauses \subseteq solver.fingerprint \cup Later(f.log, solver.offset)

Tracks(solver, f, base) == Means(solver, f, base) /\ Follows(solver, f)

LEMMA LaterIsSuffix ==
  ASSUME NEW log \in Seq(Learnable), NEW n \in Nat, n <= Len(log)
  PROVE  /\ ToSet(SubSeq(log, n + 1, Len(log))) = Later(log, n)
         /\ Later(log, n) \subseteq ToSet(log)
         /\ ToSet(log) \subseteq Learnable
<1> DEFINE r == SubSeq(log, n + 1, Len(log))
<1>0. Len(log) \in Nat /\ DOMAIN log = 1..Len(log) /\ \A i \in 1..Len(log) : log[i] \in Learnable
  BY LenProperties, ElementOfSeq
<1>1. /\ r \in Seq(Learnable) /\ Len(r) = Len(log) - n
      /\ \A i \in 1..Len(log) - n : r[i] = log[n + i]
  <2>1. n + 1 \in Int /\ Len(log) \in Int /\ \A i \in n + 1..Len(log) : log[i] \in Learnable
    BY <1>0
  <2>2. /\ r \in Seq(Learnable)
        /\ Len(r) = (IF n + 1 <= Len(log) THEN Len(log) - (n + 1) + 1 ELSE 0)
        /\ \A i \in 1..Len(log) - (n + 1) + 1 : r[i] = log[(n + 1) + i - 1]
    BY <2>1, SubSeqProperties
  <2>3. ASSUME NEW i \in 1..Len(log) - n PROVE r[i] = log[n + i]
    <3>1. i \in 1..Len(log) - (n + 1) + 1 /\ (n + 1) + i - 1 = n + i
      BY <1>0
    <3> QED BY <2>2, <3>1
  <2>4. Len(r) = Len(log) - n
    <3> DEFINE size == Len(log)
    <3>1. size \in Nat /\ n \in Nat /\ n <= size
      BY <1>0
    <3>2. Len(r) = (IF n + 1 <= size THEN size - (n + 1) + 1 ELSE 0)
      BY <2>2
    <3> HIDE DEF r, size
    <3>3. Len(r) = size - n
      BY <3>1, <3>2
    <3> QED BY <3>3 DEF size
  <2> QED BY <2>2, <2>3, <2>4
<1> HIDE DEF r
<1>2. DOMAIN r = 1..Len(log) - n
  BY <1>1, LenProperties
<1>3. ASSUME NEW c PROVE c \in ToSet(r) <=> c \in Later(log, n)
  <2>1. ASSUME NEW i \in DOMAIN r PROVE r[i] \in Later(log, n)
    <3>1. n + i \in n + 1..Len(log) /\ r[i] = log[n + i]
      BY <1>0, <1>1, <1>2
    <3> QED BY <3>1 DEF Later
  <2>2. ASSUME NEW i \in n + 1..Len(log) PROVE log[i] \in ToSet(r)
    <3>1. i - n \in DOMAIN r /\ r[i - n] = log[i]
      BY <1>0, <1>1, <1>2
    <3> QED BY <3>1 DEF ToSet
  <2> QED BY <2>1, <2>2 DEF ToSet, Later
<1>4. Later(log, n) \subseteq ToSet(log)
  <2>1. \A i \in n + 1..Len(log) : i \in DOMAIN log
    BY <1>0
  <2> QED BY <2>1 DEF Later, ToSet
<1>5. ToSet(log) \subseteq Learnable
  BY <1>0 DEF ToSet
<1> QED BY <1>3, <1>4, <1>5 DEF r

\* What a clause that is added to the frame does to a log suffix.
LEMMA LaterAppend ==
  ASSUME NEW log \in Seq(Learnable), NEW c \in Learnable, NEW n \in Nat, n <= Len(log)
  PROVE  /\ Append(log, c) \in Seq(Learnable) /\ Len(Append(log, c)) = Len(log) + 1
         /\ Later(log, n) \cup {c} \subseteq Later(Append(log, c), n)
         /\ ToSet(Append(log, c)) \subseteq ToSet(log) \cup {c}
<1>0. Len(log) \in Nat /\ DOMAIN log = 1..Len(log)
  BY LenProperties
<1> DEFINE r == Append(log, c)
<1>1. /\ r \in Seq(Learnable) /\ Len(r) = Len(log) + 1 /\ DOMAIN r = 1..Len(log) + 1
      /\ \A i \in 1..Len(log) : r[i] = log[i]
      /\ r[Len(log) + 1] = c
  <2>1. r \in Seq(Learnable) /\ Len(r) = Len(log) + 1
    BY AppendProperties
  <2>2. (\A i \in 1..Len(log) : r[i] = log[i]) /\ r[Len(log) + 1] = c
    BY AppendProperties
  <2> QED BY <2>1, <2>2, LenProperties
<1> HIDE DEF r
<1>2. ASSUME NEW i \in n + 1..Len(log) PROVE log[i] \in Later(r, n)
  <2>1. i \in n + 1..Len(r) /\ r[i] = log[i]
    BY <1>0, <1>1
  <2> QED BY <2>1 DEF Later
<1>3. c \in Later(r, n)
  <2>1. Len(log) + 1 \in n + 1..Len(r)
    BY <1>0, <1>1
  <2> QED BY <1>1, <2>1 DEF Later
<1>4. ASSUME NEW i \in DOMAIN r PROVE r[i] \in ToSet(log) \cup {c}
  <2>1. CASE i = Len(log) + 1
    BY <1>1, <2>1
  <2>2. CASE i # Len(log) + 1
    <3>1. i \in DOMAIN log /\ r[i] = log[i]
      BY <1>0, <1>1, <2>2
    <3> QED BY <3>1 DEF ToSet
  <2> QED BY <2>1, <2>2
<1> QED BY <1>1, <1>2, <1>3, <1>4 DEF Later, ToSet, r

\* A solver that follows a frame still does when a clause has been added.
LEMMA AddClauseTracked ==
  ASSUME NEW f \in Frame, LogImplied(f), NEW c \in Learnable
  PROVE  LET g == AddClauseToFrame(f, c)
         IN  /\ g \in Frame /\ LogImplied(g)
             /\ Allowed(g.clauses) = Allowed(f.clauses) \cap Admits(c)
             /\ \A base : \A solver \in Solver : Tracks(solver, f, base) => Tracks(solver, g, base)
<1> DEFINE g == AddClauseToFrame(f, c)
<1>0. /\ g \in Frame
      /\ Allowed(g.clauses) = Allowed(f.clauses) \cap Admits(c)
      /\ g.clauses \subseteq f.clauses \cup {c}
      /\ g = f \/ g.log = Append(f.log, c)
  BY AddClauseAllows, AddClauseTyped
<1> HIDE DEF g
<1>t. f.log \in Seq(Learnable)
  BY DEF Frame
<1>1. CASE g = f
  BY <1>0, <1>1 DEF g
<1>2. CASE g.log = Append(f.log, c)
  <2>1. ToSet(g.log) \subseteq ToSet(f.log) \cup {c}
    <3>1. 0 \in Nat /\ 0 <= Len(f.log)
      BY <1>t, LenProperties
    <3> QED BY <1>2, <1>t, <3>1, LaterAppend
  <2>2. LogImplied(g)
    BY <1>0, <2>1 DEF LogImplied
  <2>3. ASSUME NEW solver \in Solver, NEW base, Tracks(solver, f, base)
        PROVE  Tracks(solver, g, base)
    <3>1. solver.offset \in Nat /\ solver.offset <= Len(f.log)
      BY <2>3, <1>t, LenProperties DEF Tracks, Follows, Solver
    <3>2. /\ Len(g.log) = Len(f.log) + 1
          /\ Later(f.log, solver.offset) \cup {c} \subseteq Later(g.log, solver.offset)
      BY <1>2, <1>t, <3>1, LaterAppend
    <3>3. solver.offset <= Len(g.log)
      BY <3>1, <3>2, <1>t, LenProperties
    <3>4. g.clauses \subseteq solver.fingerprint \cup Later(g.log, solver.offset)
      BY <1>0, <2>3, <3>2 DEF Tracks, Follows
    <3>5. Means(solver, g, base)
      BY <1>0, <2>3 DEF Tracks, Means
    <3> QED BY <3>3, <3>4, <3>5 DEF Tracks, Follows
  <2> QED BY <1>0, <2>2, <2>3 DEF g
<1> QED BY <1>0, <1>1, <1>2

LEMMA EmitFields ==
  ASSUME NEW l \in Levels, frames[l] \in Frame,
         NEW solver \in Solver, NEW new \in SUBSET (Learnable \cup Seeds)
  PROVE  LET r == Emit(solver, new, l)
         IN  /\ r \in Solver
             /\ r.symbols = solver.symbols /\ r.run = solver.run /\ r.contexts = solver.contexts
             /\ r.facts = solver.facts \cup {Admits(c) : c \in new}
             /\ r.emitted = solver.emitted \cup new
             /\ r.offset = Len(frames[l].log) /\ r.fingerprint = frames[l].clauses
<1> DEFINE facts == solver.facts \cup {Admits(c) : c \in new}
           emitted == solver.emitted \cup new
           offset == Len(frames[l].log)
           mark == frames[l].clauses
<1>1. /\ facts \in SUBSET SUBSET States /\ emitted \in SUBSET (Learnable \cup Seeds)
      /\ mark \in SUBSET (Learnable \cup Seeds)
  BY DEF Frame, Solver, Admits
<1>2. offset \in Nat
  BY LenProperties DEF Frame
<1>3. Emit(solver, new, l) = [solver EXCEPT !.facts = facts, !.emitted = emitted,
                                            !.offset = offset, !.fingerprint = mark]
  BY DEF Emit, Fingerprint
<1> HIDE DEF facts, emitted, offset, mark
<1>4. LET r == Emit(solver, new, l)
      IN  /\ r \in Solver
          /\ r.symbols = solver.symbols /\ r.run = solver.run /\ r.contexts = solver.contexts
          /\ r.facts = facts /\ r.emitted = emitted /\ r.offset = offset /\ r.fingerprint = mark
  BY <1>1, <1>2, <1>3 DEF Solver
<1> QED BY <1>4 DEF facts, emitted, offset, mark

\* What a frame always satisfies, a solver that may be brought up to date with
\* it, and one that has been.
FrameSound(f) == f \in Frame /\ LogImplied(f)

Ready(solver, f, base) ==
  /\ solver \in Solver /\ Means(solver, f, base)
  /\ \A c \in f.clauses : DOMAIN c \subseteq solver.symbols

UpToDate(solver, f, base) ==
  /\ solver \in Solver /\ Tracks(solver, f, base)
  /\ solver.fingerprint = f.clauses
  /\ Meet(solver.facts) = base \cap Allowed(f.clauses)

SameHost(r, solver) ==
  r.symbols = solver.symbols /\ r.run = solver.run /\ r.contexts = solver.contexts

\* addNewPredecessorFrameClauses: a solver that is brought up to date, from the
\* log or from the whole frame, means the frame again.
LEMMA Synchronized ==
  ASSUME NEW l \in Levels, FrameSound(frames[l]), NEW solver, NEW base,
         Ready(solver, frames[l], base),
         NEW complete \in BOOLEAN, complete \/ Follows(solver, frames[l])
  PROVE  LET r == Synchronize(solver, l, complete)
         IN  UpToDate(r, frames[l], base) /\ SameHost(r, solver)
<1>0. /\ frames[l] \in Frame /\ LogImplied(frames[l]) /\ solver \in Solver
      /\ \A c \in frames[l].clauses : DOMAIN c \subseteq solver.symbols
      /\ Means(solver, frames[l], base)
  BY DEF FrameSound, Ready
<1> DEFINE f == frames[l]
           P == Pending(solver, l, complete)
           new == Covered(solver, P) \ solver.emitted
           r == Emit(solver, new, l)
<1>1. CASE ~complete /\ solver.fingerprint = f.clauses
  BY <1>0, <1>1 DEF Synchronize, Fingerprint, Tracks, Means, UpToDate, SameHost
<1>2. CASE ~(~complete /\ solver.fingerprint = f.clauses)
  <2>1. Synchronize(solver, l, complete) = r
    BY <1>2 DEF Synchronize, Fingerprint
  <2>2. /\ P \subseteq f.clauses \cup ToSet(f.log) /\ P \subseteq Learnable \cup Seeds
        /\ \A c \in f.clauses : c \in P \/ c \in solver.fingerprint
    <3>1. f.log \in Seq(Learnable) /\ f.clauses \subseteq Learnable \cup Seeds
      BY <1>0 DEF Frame
    <3>2. CASE complete \/ solver.offset > Len(f.log)
      BY <3>1, <3>2 DEF Pending
    <3>3. CASE ~complete /\ ~(solver.offset > Len(f.log))
      <4>1. solver.offset \in Nat /\ solver.offset <= Len(f.log)
        BY <1>0, <3>3 DEF Follows, Solver
      <4>2. P = Later(f.log, solver.offset)
        BY <3>1, <3>3, <4>1, LaterIsSuffix DEF Pending
      <4>3. Later(f.log, solver.offset) \subseteq ToSet(f.log) /\ ToSet(f.log) \subseteq Learnable
        BY <3>1, <4>1, LaterIsSuffix
      <4> QED BY <3>3, <4>2, <4>3 DEF Follows
    <3> QED BY <3>2, <3>3
  <2> HIDE DEF P
  <2>3. new \subseteq P /\ \A c \in f.clauses : c \in new \/ c \in solver.emitted \/ c \in solver.fingerprint
    BY <1>0, <2>2 DEF Covered
  <2> HIDE DEF new
  <2>4. new \in SUBSET (Learnable \cup Seeds)
    BY <2>2, <2>3
  <2>5. /\ r \in Solver
        /\ r.symbols = solver.symbols /\ r.run = solver.run /\ r.contexts = solver.contexts
        /\ r.facts = solver.facts \cup {Admits(c) : c \in new}
        /\ r.emitted = solver.emitted \cup new
        /\ r.offset = Len(f.log) /\ r.fingerprint = f.clauses
    BY <1>0, <2>4, EmitFields
  <2> HIDE DEF r
  <2>6. Meet(r.facts) = Meet(solver.facts) \cap Allowed(new)
    BY <2>5, MeetAdmits
  <2>7. Allowed(f.clauses) \subseteq Allowed(new)
    <3>1. \A c \in new : Allowed(f.clauses) \subseteq Admits(c)
      BY <1>0, <2>2, <2>3, AllowedFacts DEF LogImplied
    <3> QED BY <3>1, AllowedFacts
  <2>8. Meet(solver.facts) \cap Allowed(new) \subseteq Allowed(f.clauses)
    <3>1. ASSUME NEW s \in Meet(solver.facts), s \in Allowed(new), NEW c \in f.clauses
          PROVE  s \in Admits(c)
      <4>1. CASE c \in new
        BY <3>1, <4>1 DEF Allowed
      <4>2. CASE c \in solver.emitted
        BY <1>0, <4>2 DEF Means
      <4>3. CASE c \in solver.fingerprint
        BY <1>0, <4>3 DEF Means, Allowed
      <4> QED BY <2>3, <4>1, <4>2, <4>3
    <3> QED BY <3>1 DEF Allowed
  <2>9. Meet(r.facts) = base \cap Allowed(f.clauses)
    BY <1>0, <2>6, <2>7, <2>8 DEF Means
  <2>10. \A c \in r.emitted : Meet(r.facts) \subseteq Admits(c)
    BY <1>0, <2>5, <2>6, AllowedFacts DEF Means
  <2>11. Follows(r, f)
    <3>1. Len(f.log) \in Nat
      BY <1>0, LenProperties DEF Frame
    <3> QED BY <2>5, <3>1 DEF Follows
  <2> QED BY <2>1, <2>5, <2>9, <2>10, <2>11 DEF Tracks, Means, UpToDate, SameHost, r
<1> QED BY <1>1, <1>2

\* A surface on which every clause of a frame can be written.
Covers(symbols, f) == symbols \in SUBSET Symbols /\ \A c \in f.clauses : DOMAIN c \subseteq symbols

\* A new solver, and a context that was just begun, know nothing of the frame.
LEMMA BareMeans ==
  ASSUME NEW solver, solver.emitted = {}, solver.fingerprint = {}, NEW f
  PROVE  Means(solver, f, Meet(solver.facts))
BY AllowedFacts DEF Means, Meet

LEMMA FrameBase ==
  ASSUME run \in 1..Runs
  PROVE  /\ \A safe : \A l \in Levels : FrameFacts(l, safe) \in SUBSET SUBSET States
         /\ Meet({Property[run]}) = Property[run] /\ {Property[run]} \in SUBSET SUBSET States
         /\ \A l \in 1..Top : /\ Meet(FrameFacts(l, TRUE)) = Property[run]
                              /\ Meet(FrameFacts(l, FALSE)) = States
         /\ \A safe : Meet(FrameFacts(0, safe)) = StartStates
<1>1. Property[run] \in SUBSET States /\ StartStates \in SUBSET States /\ Top \in Nat
  BY CacheConstants
<1>2. \A l \in 1..Top : FrameFacts(l, TRUE) = {Property[run]} /\ FrameFacts(l, FALSE) = {}
  BY <1>1 DEF FrameFacts
<1>3. \A safe : FrameFacts(0, safe) = {StartStates}
  BY DEF FrameFacts
<1>4. \A A \in SUBSET States : Meet({A}) = A
  BY DEF Meet
<1>5. Meet({}) = States
  BY DEF Meet
<1>6. \A safe : \A l \in Levels : FrameFacts(l, safe) \in SUBSET SUBSET States
  BY <1>1 DEF FrameFacts
<1> QED BY <1>1, <1>2, <1>3, <1>4, <1>5, <1>6

\* getOrCreatePredecessorAssumptionSolver: what a solver built for one frame means.
LEMMA NewSolverTracks ==
  ASSUME NEW l \in Levels, FrameSound(frames[l]), run \in 1..Runs,
         NEW symbols, Covers(symbols, frames[l]), NEW safe \in BOOLEAN
  PROVE  LET r == NewSolver(l, symbols, safe)
         IN  UpToDate(r, frames[l], Meet(FrameFacts(l, safe))) /\ r.symbols = symbols
<1> DEFINE bare == [symbols |-> symbols, facts |-> FrameFacts(l, safe), emitted |-> {},
                    offset |-> 0, fingerprint |-> {}, run |-> 0, contexts |-> 0]
           base == Meet(FrameFacts(l, safe))
<1>1. /\ bare.symbols = symbols /\ bare.facts = FrameFacts(l, safe) /\ bare.emitted = {}
      /\ bare.fingerprint = {}
  OBVIOUS
<1>2. bare \in Solver
  <2>1. FrameFacts(l, safe) \in SUBSET SUBSET States
    BY FrameBase
  <2>2. symbols \in SUBSET Symbols /\ 0 \in 0..Runs
    BY CacheConstants DEF Covers
  <2> QED BY <2>1, <2>2 DEF Solver
<1>3. NewSolver(l, symbols, safe) = Emit(bare, Covered(bare, frames[l].clauses), l)
  BY DEF NewSolver
<1> HIDE DEF bare
<1>4. NewSolver(l, symbols, safe) = Synchronize(bare, l, TRUE)
  <2>1. Covered(bare, frames[l].clauses) = Covered(bare, frames[l].clauses) \ bare.emitted
    BY <1>1
  <2> QED BY <1>3, <2>1 DEF Synchronize, Pending
<1>5. Ready(bare, frames[l], base)
  <2>1. Means(bare, frames[l], Meet(bare.facts))
    BY <1>1, BareMeans
  <2> QED BY <1>1, <1>2, <2>1 DEF Ready, Covers
<1> HIDE DEF base
<1>6. \A complete \in BOOLEAN : complete =>
        LET r == Synchronize(bare, l, complete)
        IN  UpToDate(r, frames[l], base) /\ SameHost(r, bare)
  BY <1>5, Synchronized
<1>7. LET r == Synchronize(bare, l, TRUE)
      IN  UpToDate(r, frames[l], base) /\ SameHost(r, bare)
  BY <1>6, Zenon
<1> QED BY <1>1, <1>4, <1>7 DEF SameHost, base

\* A wider surface changes nothing else.
LEMMA Widened ==
  ASSUME NEW solver \in Solver, NEW symbols \in SUBSET Symbols, NEW f,
         \A c \in f.clauses : DOMAIN c \subseteq symbols
  PROVE  LET wide == [solver EXCEPT !.symbols = @ \cup symbols]
         IN  /\ wide \in Solver /\ wide.symbols = solver.symbols \cup symbols
             /\ wide.run = solver.run /\ wide.contexts = solver.contexts
             /\ \A c \in f.clauses : DOMAIN c \subseteq wide.symbols
             /\ \A base : /\ Tracks(solver, f, base) => Ready(wide, f, base) /\ Follows(wide, f)
                          /\ Meet(solver.facts) = base => Meet(wide.facts) = base
<1> DEFINE wide == [solver EXCEPT !.symbols = @ \cup symbols]
<1>1. /\ wide \in Solver /\ wide.symbols = solver.symbols \cup symbols
      /\ wide.run = solver.run /\ wide.contexts = solver.contexts
      /\ wide.facts = solver.facts /\ wide.emitted = solver.emitted
      /\ wide.offset = solver.offset /\ wide.fingerprint = solver.fingerprint
  BY DEF Solver
<1> HIDE DEF wide
<1>2. \A c \in f.clauses : DOMAIN c \subseteq wide.symbols
  BY <1>1
<1> QED BY <1>1, <1>2 DEF Tracks, Means, Follows, Ready, wide

\* A run's own solver of a frame above F[0] is up to date after every use.
LEMMA LocalTracks ==
  ASSUME NEW l \in Levels, FrameSound(frames[l]), run \in 1..Runs,
         NEW symbols, Covers(symbols, frames[l]), NEW safe \in BOOLEAN,
         NEW base, base = Meet(FrameFacts(l, safe)), NEW solver,
         solver = Absent \/ (solver \in Solver /\ Tracks(solver, frames[l], base))
  PROVE  UpToDate(LocalSolver(solver, l, symbols, safe), frames[l], base)
<1>1. CASE solver = Absent
  <2>1. LocalSolver(solver, l, symbols, safe) = NewSolver(l, symbols, safe)
    BY <1>1 DEF LocalSolver
  <2> QED BY <2>1, NewSolverTracks
<1>2. CASE solver # Absent
  <2> DEFINE wide == [solver EXCEPT !.symbols = @ \cup symbols]
             complete == wide.symbols # solver.symbols
  <2>0. solver \in Solver /\ Tracks(solver, frames[l], base)
    BY <1>2
  <2>1. LocalSolver(solver, l, symbols, safe) = Synchronize(wide, l, complete)
    BY <1>2 DEF LocalSolver
  <2>2. Ready(wide, frames[l], base) /\ Follows(wide, frames[l])
    BY <2>0, Widened DEF Covers
  <2>3. complete \in BOOLEAN
    OBVIOUS
  <2> HIDE DEF wide, complete
  <2> QED BY <2>1, <2>2, <2>3, Synchronized
<1> QED BY <1>1, <1>2

\* A context that has just been begun.
LEMMA ContextBegun ==
  ASSUME NEW w \in Solver, NEW facts \in SUBSET SUBSET States, NEW r \in 0..Runs
  PROVE  LET new == [w EXCEPT !.run = r, !.facts = facts, !.emitted = {}, !.offset = 0,
                              !.fingerprint = {}, !.contexts = @ + 1]
         IN  /\ new \in Solver /\ new.symbols = w.symbols /\ new.run = r
             /\ new.contexts = w.contexts + 1
             /\ new.facts = facts /\ new.emitted = {} /\ new.fingerprint = {}
<1> DEFINE none == {}
           count == w.contexts + 1
           new == [w EXCEPT !.run = r, !.facts = facts, !.emitted = none, !.offset = 0,
                            !.fingerprint = none, !.contexts = count]
<1>1. none \in SUBSET (Learnable \cup Seeds) /\ none = {} /\ count \in Nat
  BY DEF Solver
<1> HIDE DEF none, count
<1>2. /\ new \in Solver /\ new.symbols = w.symbols /\ new.run = r
      /\ new.contexts = count
      /\ new.facts = facts /\ new.emitted = none /\ new.fingerprint = none
  BY <1>1 DEF Solver
<1> QED BY <1>1, <1>2 DEF none, count

\* prepareGuardedPredecessorFrameContext: a shared solver is brought up to date,
\* or its context is replaced by one of the present run.
LEMMA SharedTracks ==
  ASSUME NEW l \in 1..Top, FrameSound(frames[l]), run \in 1..Runs,
         NEW symbols, Covers(symbols, frames[l]), NEW solver,
         \/ solver = Absent
         \/ solver \in Solver /\ (solver.run = run => Tracks(solver, frames[l], Property[run]))
  PROVE  LET r == SharedSolver(solver, l, symbols)
         IN  /\ UpToDate(r, frames[l], Property[run]) /\ r.run = run
             /\ solver = Absent => r.contexts = 1
             /\ solver # Absent => r.contexts = IF solver.run = run THEN solver.contexts
                                                ELSE solver.contexts + 1
<1> DEFINE bare == [symbols |-> symbols, facts |-> {}, emitted |-> {}, offset |-> 0,
                    fingerprint |-> {}, run |-> 0, contexts |-> 0]
           old == IF solver = Absent THEN bare ELSE solver
           wide == [old EXCEPT !.symbols = @ \cup symbols]
           complete == solver = Absent \/ wide.symbols # old.symbols
           new == NewContext(wide)
<1>0. l \in Levels /\ symbols \in SUBSET Symbols /\ \A c \in frames[l].clauses : DOMAIN c \subseteq symbols
  BY CacheConstants DEF Covers
<1>1. SharedSolver(solver, l, symbols) =
        IF wide.run = run THEN Synchronize(wide, l, complete) ELSE Synchronize(new, l, TRUE)
  BY DEF SharedSolver, GuardedContext
<1>2. /\ bare \in Solver /\ bare.run = 0 /\ bare.contexts = 0
      /\ bare.symbols = symbols
  BY <1>0, CacheConstants DEF Solver
<1>3. /\ old \in Solver
      /\ old.run = run => old = solver /\ solver # Absent /\ Tracks(solver, frames[l], Property[run])
      /\ solver = Absent => old.run # run /\ old.contexts = 0
      /\ solver # Absent => old = solver
  <2> HIDE DEF bare
  <2> QED BY <1>2
<1>4. complete \in BOOLEAN
  OBVIOUS
<1> HIDE DEF bare, old
<1>5. /\ wide \in Solver /\ wide.symbols = old.symbols \cup symbols
      /\ wide.run = old.run /\ wide.contexts = old.contexts
      /\ \A c \in frames[l].clauses : DOMAIN c \subseteq wide.symbols
      /\ Tracks(old, frames[l], Property[run]) =>
           Ready(wide, frames[l], Property[run]) /\ Follows(wide, frames[l])
  BY <1>0, <1>3, Widened
<1> HIDE DEF wide, complete
<1>6. CASE wide.run = run
  <2>1. SharedSolver(solver, l, symbols) = Synchronize(wide, l, complete)
    BY <1>1, <1>6
  <2>2. Ready(wide, frames[l], Property[run]) /\ Follows(wide, frames[l])
    BY <1>3, <1>5, <1>6
  <2>3. LET r == Synchronize(wide, l, complete)
        IN  UpToDate(r, frames[l], Property[run]) /\ SameHost(r, wide)
    BY <1>0, <1>4, <2>2, Synchronized
  <2> QED BY <1>3, <1>5, <1>6, <2>1, <2>3 DEF SameHost
<1>7. CASE wide.run # run
  <2>1. SharedSolver(solver, l, symbols) = Synchronize(new, l, TRUE)
    BY <1>1, <1>7
  <2>2. /\ new \in Solver /\ new.symbols = wide.symbols /\ new.run = run
        /\ new.contexts = wide.contexts + 1
        /\ new.facts = {Property[run]} /\ new.emitted = {} /\ new.fingerprint = {}
    <3>1. {Property[run]} \in SUBSET SUBSET States /\ run \in 0..Runs
      BY CacheConstants, FrameBase
    <3> QED BY <1>5, <3>1, ContextBegun DEF NewContext
  <2> HIDE DEF new
  <2>3. Ready(new, frames[l], Property[run])
    <3>1. Means(new, frames[l], Meet({Property[run]}))
      BY <2>2, BareMeans
    <3> QED BY <1>5, <2>2, <3>1, FrameBase DEF Ready
  <2>4. \A all \in BOOLEAN : all =>
          LET r == Synchronize(new, l, all)
          IN  UpToDate(r, frames[l], Property[run]) /\ SameHost(r, new)
    BY <1>0, <2>3, Synchronized
  <2>5. LET r == Synchronize(new, l, TRUE)
        IN  UpToDate(r, frames[l], Property[run]) /\ SameHost(r, new)
    BY <2>4, Zenon
  <2>6. /\ solver = Absent => wide.contexts + 1 = 1
        /\ solver # Absent => solver.run # run /\ wide.contexts + 1 = solver.contexts + 1
    BY <1>3, <1>5, <1>7
  <2> QED BY <2>1, <2>2, <2>5, <2>6 DEF SameHost
<1> QED BY <1>6, <1>7

-----------------------------------------------------------------------------
(* The frames as sets of states *)

Base(l) == IF l = 0 THEN StartStates ELSE Property[run]

\* The states of frame l when F is its set of clauses.
RegionWith(l, F) == Base(l) \cap Allowed(F)

FramesRight ==
  /\ run \in 1..Runs /\ budget \in 0..QueryBudget
  /\ frames \in [Levels -> Frame]
  /\ \A l \in Levels : LogImplied(frames[l])
  /\ StartStates \subseteq Allowed(frames[0].clauses)

\* The facts of a query admit the states of the frame.
LEMMA RegionIs ==
  ASSUME FramesRight, NEW l \in Levels
  PROVE  /\ Base(l) \subseteq States
         /\ Meet(FrameFacts(l, TRUE)) = Base(l)
         /\ Region(l) = RegionWith(l, frames[l].clauses)
         /\ Region(l) \subseteq States
         /\ l = 0 => Region(l) = StartStates
         /\ FrameSound(frames[l])
         /\ BadRegion(l) = ((IF l = 0 THEN StartStates ELSE States)
                              \cap Allowed(frames[l].clauses)) \ Property[run]
         /\ BadRegion(l) \subseteq States
<1>0. run \in 1..Runs /\ frames[l] \in Frame /\ LogImplied(frames[l]) /\ Top \in Nat
  BY CacheConstants DEF FramesRight
<1>1. Base(l) \subseteq States
  BY <1>0, CacheConstants DEF Base
<1>2. Meet(FrameFacts(l, TRUE)) = Base(l)
  <2>1. CASE l = 0
    BY <1>0, <2>1, FrameBase DEF Base
  <2>2. CASE l # 0
    <3>1. l \in 1..Top
      BY <1>0, <2>2
    <3> QED BY <1>0, <2>2, <3>1, FrameBase DEF Base
  <2> QED BY <2>1, <2>2
<1>3. Region(l) = RegionWith(l, frames[l].clauses)
  <2>1. Region(l) = Meet(FrameFacts(l, TRUE)) \cap Allowed(frames[l].clauses)
    BY MeetAdmits DEF Region
  <2> QED BY <1>2, <2>1 DEF RegionWith
<1>4. l = 0 => Region(l) = StartStates
  BY <1>3 DEF RegionWith, Base, FramesRight
<1>5. BadRegion(l) = ((IF l = 0 THEN StartStates ELSE States)
                        \cap Allowed(frames[l].clauses)) \ Property[run]
  <2>1. BadRegion(l) = (Meet(FrameFacts(l, FALSE)) \cap Allowed(frames[l].clauses)) \ Property[run]
    BY MeetAdmits DEF BadRegion
  <2>2. Meet(FrameFacts(l, FALSE)) = IF l = 0 THEN StartStates ELSE States
    <3>1. CASE l = 0
      BY <1>0, <3>1, FrameBase
    <3>2. CASE l # 0
      <4>1. l \in 1..Top
        BY <1>0, <3>2
      <4> QED BY <1>0, <3>2, <4>1, FrameBase
    <3> QED BY <3>1, <3>2
  <2> QED BY <2>1, <2>2
<1>6. Region(l) \subseteq States /\ BadRegion(l) \subseteq States
  BY <1>1, <1>3, <1>5, AllowedFacts DEF RegionWith
<1> QED BY <1>0, <1>1, <1>2, <1>3, <1>4, <1>5, <1>6 DEF FrameSound

\* A solver that is up to date admits the states of its frame.
LEMMA UpToDateMeans ==
  ASSUME FramesRight, NEW l \in Levels, NEW solver, UpToDate(solver, frames[l], Base(l))
  PROVE  Meet(solver.facts) = Region(l)
BY RegionIs DEF UpToDate, RegionWith

\* The surface of a query covers the clauses of its frame.
LEMMA SurfaceCovers ==
  ASSUME FramesRight, NEW l \in Levels
  PROVE  /\ \A cube \in Clauses : \A exclude : Covers(QuerySymbols(l, cube, exclude), frames[l])
         /\ Covers(BadSymbols(l), frames[l]) /\ Covers(Symbols, frames[l])
<1>1. frames[l].clauses \subseteq Clauses
  BY CacheConstants DEF FramesRight, Frame
<1>2. \A c \in Clauses : DOMAIN c \in SUBSET Symbols
  BY DEF Clauses
<1>3. /\ StableSymbols(l) \subseteq Symbols
      /\ \A c \in frames[l].clauses : DOMAIN c \subseteq StableSymbols(l)
  BY <1>1, <1>2 DEF StableSymbols
<1>4. Family[run] \subseteq Symbols
  BY CacheConstants DEF FramesRight
<1>5. ASSUME NEW cube \in Clauses, NEW exclude
      PROVE  Covers(QuerySymbols(l, cube, exclude), frames[l])
  <2>1. \A x \in DOMAIN cube : Support[x] \subseteq Symbols
    BY <1>2, CacheConstants
  <2>2. TargetSymbols(cube) \subseteq Symbols
    BY <2>1 DEF TargetSymbols
  <2>3. /\ QuerySymbols(l, cube, exclude) \subseteq Symbols
        /\ StableSymbols(l) \subseteq QuerySymbols(l, cube, exclude)
    BY <1>2, <1>3, <1>4, <2>2 DEF QuerySymbols
  <2> QED BY <1>3, <2>3 DEF Covers
<1>6. BadSymbols(l) \subseteq Symbols /\ StableSymbols(l) \subseteq BadSymbols(l)
  BY <1>3, <1>4 DEF BadSymbols
<1> QED BY <1>1, <1>2, <1>3, <1>5, <1>6 DEF Covers

-----------------------------------------------------------------------------
(* Answers *)

AnswerEntry ==
  [result : {"unsat"}, core : Clauses \cup {Absent}] \cup
  [result : {"sat"}, model : States \cup {Absent}]

\* An answer that is right for a set of predecessors.
Right(entry, preds) ==
  /\ entry.result \in {"sat", "unsat"}
  /\ (entry.result = "sat") <=> (preds # {})
  /\ entry.result = "sat" /\ entry.model # Absent => entry.model \in preds

\* A core, when there is one, has no predecessor in these states.
CoreRight(entry, states, cube, exclude) ==
  entry.result = "unsat" /\ entry.core # Absent /\ ~exclude =>
    entry.core \in Clauses /\ Within(states, entry.core, FALSE) = {}

Answered(entry, states, cube, exclude) ==
  entry \in AnswerEntry /\ Right(entry, Within(states, cube, exclude)) /\ CoreRight(entry, states, cube, exclude)

\* A solver call returns what its states allow.
LEMMA OutcomesRight ==
  ASSUME NEW states \in SUBSET States, NEW cube \in Clauses, NEW exclude, NEW needsModel,
         NEW entry \in Outcomes(states, cube, exclude, needsModel)
  PROVE  Answered(entry, states, cube, exclude)
<1> DEFINE preds == Within(states, cube, exclude)
<1>1. CASE preds = {}
  <2>1. PICK core \in Cores(states, cube, exclude) \cup {Absent} :
               entry = [result |-> "unsat", core |-> core]
    BY <1>1 DEF Outcomes
  <2>2. entry.result = "unsat" /\ entry.core = core
    BY <2>1
  <2>3. ASSUME core # Absent
        PROVE  core \in Clauses /\ (~exclude => Within(states, core, FALSE) = {})
    <3>1. core \in Cores(states, cube, exclude)
      BY <2>1, <2>3
    <3>2. PICK d \in (SUBSET (DOMAIN cube)) \ {{}} : core \in [d -> BOOLEAN]
      BY <3>1 DEF Cores
    <3>3. d \in SUBSET Symbols
      BY <3>2 DEF Clauses
    <3>4. core \in Clauses
      BY <3>2, <3>3 DEF Clauses
    <3>5. ~exclude => Within(states, core, FALSE) = {}
      BY <3>1 DEF Cores, Within
    <3> QED BY <3>4, <3>5
  <2>4. entry \in AnswerEntry
    <3>1. core \in Clauses \cup {Absent}
      BY <2>3
    <3> QED BY <2>1, <3>1 DEF AnswerEntry
  <2>5. Right(entry, preds)
    BY <1>1, <2>2 DEF Right
  <2>6. CoreRight(entry, states, cube, exclude)
    BY <2>2, <2>3 DEF CoreRight
  <2> QED BY <2>4, <2>5, <2>6 DEF Answered
<1>2. CASE preds # {}
  <2>1. \E m \in preds \cup {Absent} : entry = [result |-> "sat", model |-> m]
    BY <1>2 DEF Outcomes
  <2> HIDE DEF preds
  <2>2. PICK m \in preds \cup {Absent} : entry = [result |-> "sat", model |-> m]
    BY <2>1
  <2>3. entry.result = "sat" /\ entry.model = m
    BY <2>2
  <2>4. entry \in AnswerEntry
    <3>1. m \in States \cup {Absent}
      BY <2>2 DEF preds, Within
    <3> QED BY <2>2, <3>1 DEF AnswerEntry
  <2>5. Right(entry, preds)
    BY <1>2, <2>2, <2>3 DEF Right
  <2>6. CoreRight(entry, states, cube, exclude)
    BY <2>3 DEF CoreRight
  <2> QED BY <2>4, <2>5, <2>6 DEF Answered, preds
<1> QED BY <1>1, <1>2

\* A core answers for every larger cube.
LEMMA CoreAnswers ==
  ASSUME NEW states, NEW core, NEW cube, SubCube(core, cube), Within(states, core, FALSE) = {}
  PROVE  Within(states, cube, FALSE) = {}
BY SubCubeHolds DEF Within

\* Fewer states have fewer predecessors.
LEMMA WithinMonotone ==
  ASSUME NEW A, NEW B, A \subseteq B, NEW cube, NEW exclude
  PROVE  Within(A, cube, exclude) \subseteq Within(B, cube, exclude)
BY DEF Within

-----------------------------------------------------------------------------
(* Stores of answers *)

ExactKeys ==
  [level : Levels, cube : Targets, exclude : BOOLEAN, fingerprint : SUBSET (Learnable \cup Seeds)]

\* The exact answers a store may hold: right for the frame of their fingerprint.
Cells(k) ==
  {c \in [key : ExactKeys, entry : AnswerEntry] :
     /\ StoreOf(c.key.level) = k
     /\ Right(c.entry,
              Within(RegionWith(c.key.level, c.key.fingerprint), c.key.cube, c.key.exclude))}

\* The stable answers: no predecessor in the frame as it is now.
Impossible(k) ==
  {u \in [level : Levels, cube : Targets, exclude : BOOLEAN] :
     StoreOf(u.level) = k /\ Within(Region(u.level), u.cube, u.exclude) = {}}

DeadCores(k) ==
  {c \in [level : Levels, cube : Clauses] :
     StoreOf(c.level) = k /\ Within(Region(c.level), c.cube, FALSE) = {}}

GoodStore(st, k) ==
  /\ st \in [exact : Seq(Cells(k)), unsat : SUBSET Impossible(k), cores : SUBSET DeadCores(k)]
  /\ Len(st.exact) <= ExactLimit
  /\ IsFiniteSet(st.unsat) /\ Cardinality(st.unsat) <= UnsatLimit

\* The memory of least recent use only moves an answer.
LEMMA TouchKeeps ==
  ASSUME NEW S, NEW q \in Seq(S), NEW i \in DOMAIN q
  PROVE  Touch(q, i) \in Seq(S) /\ Len(Touch(q, i)) = Len(q)
<1> DEFINE front == SubSeq(q, 1, i - 1)
           back == SubSeq(q, i + 1, Len(q))
           size == Len(q)
<1>1. size \in Nat /\ i \in 1..size /\ \A j \in 1..size : q[j] \in S
  BY LenProperties, ElementOfSeq
<1>2. i - 1 \in Int /\ i + 1 \in Int /\ size \in Int /\ 1 \in Int
      /\ (\A j \in 1..i - 1 : q[j] \in S) /\ (\A j \in i + 1..size : q[j] \in S)
  <2> HIDE DEF size
  <2> QED BY <1>1
<1>3. front \in Seq(S) /\ Len(front) = (IF 1 <= i - 1 THEN i - 1 - 1 + 1 ELSE 0)
  BY <1>2, SubSeqProperties
<1>4. back \in Seq(S) /\ Len(back) = (IF i + 1 <= size THEN size - (i + 1) + 1 ELSE 0)
  BY <1>2, SubSeqProperties
<1>5. RemoveAt(q, i) = front \o back
  BY DEF RemoveAt
<1> HIDE DEF front, back
<1>6. RemoveAt(q, i) \in Seq(S) /\ Len(RemoveAt(q, i)) = Len(front) + Len(back)
  BY <1>3, <1>4, <1>5, ConcatProperties
<1>7. q[i] \in S
  BY <1>1
<1>8. Touch(q, i) \in Seq(S) /\ Len(Touch(q, i)) = Len(RemoveAt(q, i)) + 1
  BY <1>6, <1>7, AppendProperties DEF Touch
<1>9. Len(front) + Len(back) + 1 = size
  <2> HIDE DEF size
  <2>1. size \in Nat /\ i \in Nat /\ 1 <= i /\ i <= size
    BY <1>1
  <2>2. Len(front) = i - 1
    BY <1>3, <2>1
  <2>3. Len(back) = size - i
    BY <1>4, <2>1
  <2> QED BY <2>1, <2>2, <2>3
<1> QED BY <1>6, <1>8, <1>9

\* BoundedResultCache::insert: the bound is kept.
LEMMA InsertKeeps ==
  ASSUME NEW S, NEW q \in Seq(S), Len(q) <= ExactLimit,
         NEW key, NEW entry, [key |-> key, entry |-> entry] \in S
  PROVE  Insert(q, key, entry) \in Seq(S) /\ Len(Insert(q, key, entry)) <= ExactLimit
<1> DEFINE cell == [key |-> key, entry |-> entry]
           room == IF Len(q) >= ExactLimit THEN Tail(q) ELSE q
<1>0. ExactLimit \in Nat \ {0} /\ Len(q) \in Nat
  BY CacheConstants, LenProperties
<1>1. CASE Find(q, key) # {}
  <2>1. (CHOOSE i \in Find(q, key) : TRUE) \in DOMAIN q
    BY <1>1 DEF Find
  <2> QED BY <1>1, <2>1, TouchKeeps DEF Insert
<1>2. CASE Find(q, key) = {}
  <2>1. Insert(q, key, entry) = Append(room, cell)
    BY <1>2 DEF Insert
  <2>2. room \in Seq(S) /\ Len(room) + 1 <= ExactLimit
    <3>1. CASE Len(q) >= ExactLimit
      <4>1. q # <<>>
        BY <1>0, <3>1, EmptySeq
      <4>2. Tail(q) \in Seq(S) /\ Len(Tail(q)) = Len(q) - 1
        BY <4>1, HeadTailProperties
      <4> QED BY <1>0, <3>1, <4>2
    <3>2. CASE ~(Len(q) >= ExactLimit)
      BY <1>0, <3>2
    <3> QED BY <3>1, <3>2
  <2>3. cell \in S
    OBVIOUS
  <2> HIDE DEF room, cell
  <2>4. Append(room, cell) \in Seq(S) /\ Len(Append(room, cell)) = Len(room) + 1
    BY <2>2, <2>3, AppendProperties
  <2> QED BY <2>1, <2>2, <2>4
<1> QED BY <1>1, <1>2

LEMMA KeysTyped ==
  ASSUME FramesRight, NEW l \in Levels, NEW cube \in Targets, NEW exclude \in BOOLEAN
  PROVE  /\ ExactKey(l, cube, exclude) \in ExactKeys
         /\ ExactKey(l, cube, exclude).level = l /\ ExactKey(l, cube, exclude).cube = cube
         /\ ExactKey(l, cube, exclude).exclude = exclude
         /\ ExactKey(l, cube, exclude).fingerprint = frames[l].clauses
         /\ StableKey(l, cube, exclude) \in [level : Levels, cube : Targets, exclude : BOOLEAN]
         /\ StableKey(l, cube, exclude).level = l /\ StableKey(l, cube, exclude).cube = cube
         /\ StableKey(l, cube, exclude).exclude = exclude
<1>1. frames[l].clauses \in SUBSET (Learnable \cup Seeds)
  BY DEF FramesRight, Frame
<1> DEFINE F == frames[l].clauses
<1>2. F \in SUBSET (Learnable \cup Seeds)
  BY <1>1
<1>3. ExactKey(l, cube, exclude) = [level |-> l, cube |-> cube, exclude |-> exclude, fingerprint |-> F]
  BY DEF ExactKey, Fingerprint
<1> HIDE DEF F
<1>4. ExactKey(l, cube, exclude) \in ExactKeys
  BY <1>2, <1>3 DEF ExactKeys
<1>6. /\ ExactKey(l, cube, exclude).level = l /\ ExactKey(l, cube, exclude).cube = cube
      /\ ExactKey(l, cube, exclude).exclude = exclude
      /\ ExactKey(l, cube, exclude).fingerprint = F
  BY Zenon DEF ExactKey, Fingerprint, F
<1>5. /\ StableKey(l, cube, exclude) \in [level : Levels, cube : Targets, exclude : BOOLEAN]
      /\ StableKey(l, cube, exclude).level = l /\ StableKey(l, cube, exclude).cube = cube
      /\ StableKey(l, cube, exclude).exclude = exclude
  BY Zenon DEF StableKey
<1> QED BY <1>4, <1>5, <1>6, Zenon DEF F

\* rememberPredecessorQueryResult: an answer of the frame as it is keeps a store
\* right, whatever the store has to drop for it.
LEMMA RememberKeeps ==
  ASSUME FramesRight, NEW l \in Levels, NEW cube \in Targets, NEW exclude \in BOOLEAN,
         NEW entry, Answered(entry, Region(l), cube, exclude),
         NEW st, GoodStore(st, StoreOf(l))
  PROVE  GoodStore(Remember(st, l, cube, exclude, entry), StoreOf(l))
<1> DEFINE k == StoreOf(l)
           t == Trim(st)
           key == ExactKey(l, cube, exclude)
           stable == StableKey(l, cube, exclude)
           exact == Insert(t.exact, key, entry)
           unsat == t.unsat \cup (IF entry.result = "unsat" THEN {stable} ELSE {})
           cores == IF entry.result = "unsat" /\ entry.core # Absent /\ CoreShareable(exclude)
                    THEN WithCore(t.cores, l, entry.core) ELSE t.cores
<1>0. UnsatLimit \in Nat \ {0}
  BY CacheConstants
<1>1. /\ st.exact \in Seq(Cells(k)) /\ st.unsat \in SUBSET Impossible(k)
      /\ st.cores \in SUBSET DeadCores(k)
      /\ Len(st.exact) <= ExactLimit
      /\ IsFiniteSet(st.unsat) /\ Cardinality(st.unsat) <= UnsatLimit
      /\ st = [exact |-> st.exact, unsat |-> st.unsat, cores |-> st.cores]
  BY DEF GoodStore
<1>2. /\ t.exact \in Seq(Cells(k)) /\ t.unsat \in SUBSET Impossible(k)
      /\ t.cores \in SUBSET DeadCores(k)
      /\ Len(t.exact) <= ExactLimit
      /\ IsFiniteSet(t.unsat) /\ Cardinality(t.unsat) + 1 <= UnsatLimit
  <2>1. CASE ShouldResetStable(st)
    <3>1. t = [st EXCEPT !.unsat = {}, !.cores = {}]
      BY <2>1 DEF Trim
    <3>2. t.exact = st.exact /\ t.unsat = {} /\ t.cores = {}
      BY <1>1, <3>1
    <3>3. IsFiniteSet({}) /\ Cardinality({}) = 0
      BY FS_EmptySet
    <3>4. IsFiniteSet(t.unsat) /\ Cardinality(t.unsat) + 1 <= UnsatLimit
      BY <1>0, <3>2, <3>3
    <3> HIDE DEF t, k
    <3> QED BY <1>1, <3>2, <3>4
  <2>2. CASE ~ShouldResetStable(st)
    <3>1. t = st
      BY <2>2 DEF Trim
    <3>2. Cardinality(st.unsat) \in Nat
      BY <1>1, FS_CardinalityType
    <3>3. Cardinality(st.unsat) + 1 <= UnsatLimit
      BY <1>0, <2>2, <3>2 DEF ShouldResetStable
    <3> HIDE DEF t, k
    <3> QED BY <1>1, <3>1, <3>3
  <2> QED BY <2>1, <2>2
<1> HIDE DEF t
<1>3. /\ entry \in AnswerEntry /\ Right(entry, Within(Region(l), cube, exclude))
      /\ CoreRight(entry, Region(l), cube, exclude)
  BY DEF Answered
<1>4. exact \in Seq(Cells(k)) /\ Len(exact) <= ExactLimit
  <2>1. /\ key \in ExactKeys /\ key.level = l /\ key.cube = cube /\ key.exclude = exclude
        /\ key.fingerprint = frames[l].clauses
    BY KeysTyped
  <2> DEFINE cell == [key |-> key, entry |-> entry]
  <2>2. cell.key = key /\ cell.entry = entry
    OBVIOUS
  <2>3. Region(l) = RegionWith(l, frames[l].clauses)
    BY RegionIs
  <2>4. Right(entry, Within(RegionWith(key.level, key.fingerprint), key.cube, key.exclude))
    BY <1>3, <2>1, <2>3, Zenon
  <2> HIDE DEF key
  <2>5. cell \in [key : ExactKeys, entry : AnswerEntry]
    BY <1>3, <2>1
  <2> HIDE DEF cell
  <2>6. cell \in Cells(k)
    BY <2>1, <2>2, <2>4, <2>5 DEF Cells
  <2> QED BY <1>2, <2>6, InsertKeeps DEF cell
<1>5. unsat \in SUBSET Impossible(k) /\ IsFiniteSet(unsat) /\ Cardinality(unsat) <= UnsatLimit
  <2>1. CASE entry.result = "unsat"
    <3>1. Within(Region(l), cube, exclude) = {}
      BY <1>3, <2>1 DEF Right
    <3>2. /\ stable \in [level : Levels, cube : Targets, exclude : BOOLEAN]
          /\ stable.level = l /\ stable.cube = cube /\ stable.exclude = exclude
      BY KeysTyped
    <3>3. Within(Region(stable.level), stable.cube, stable.exclude) = {}
      BY <3>1, <3>2, Zenon
    <3> HIDE DEF stable
    <3>4. stable \in Impossible(k)
      BY <3>2, <3>3 DEF Impossible
    <3>5. unsat = t.unsat \cup {stable}
      BY <2>1
    <3>6. /\ IsFiniteSet(t.unsat \cup {stable})
          /\ Cardinality(t.unsat \cup {stable}) = Cardinality(t.unsat)
             \/ Cardinality(t.unsat \cup {stable}) = Cardinality(t.unsat) + 1
      BY <1>2, FS_AddElement
    <3>7. Cardinality(t.unsat) \in Nat
      BY <1>2, FS_CardinalityType
    <3>8. Cardinality(t.unsat \cup {stable}) <= UnsatLimit
      <4> DEFINE n == Cardinality(t.unsat)
                 m == Cardinality(t.unsat \cup {stable})
      <4>1. n \in Nat /\ n + 1 <= UnsatLimit /\ (m = n \/ m = n + 1)
        BY <1>2, <3>6, <3>7
      <4> HIDE DEF n, m
      <4>2. m <= UnsatLimit
        BY <1>0, <4>1
      <4> QED BY <4>2 DEF m
    <3> QED BY <1>2, <3>4, <3>5, <3>6, <3>8
  <2>2. CASE entry.result # "unsat"
    <3>1. unsat = t.unsat
      BY <2>2
    <3>2. Cardinality(t.unsat) \in Nat
      BY <1>2, FS_CardinalityType
    <3>3. Cardinality(t.unsat) <= UnsatLimit
      BY <1>0, <1>2, <3>2
    <3> QED BY <1>2, <3>1, <3>3
  <2> QED BY <2>1, <2>2
<1>6. cores \in SUBSET DeadCores(k)
  <2>1. CASE entry.result = "unsat" /\ entry.core # Absent /\ CoreShareable(exclude)
    <3>1. entry.core \in Clauses /\ Within(Region(l), entry.core, FALSE) = {}
      BY <1>3, <2>1 DEF CoreRight, CoreShareable
    <3> DEFINE core == entry.core
               kept == [level |-> l, cube |-> core]
    <3>2. core \in Clauses /\ Within(Region(l), core, FALSE) = {}
      BY <3>1
    <3> HIDE DEF core
    <3>3. kept \in [level : Levels, cube : Clauses] /\ kept.level = l /\ kept.cube = core
      BY <3>2
    <3> HIDE DEF kept
    <3>4. kept \in DeadCores(k)
      BY <3>2, <3>3 DEF DeadCores
    <3>5. WithCore(t.cores, l, core) \subseteq t.cores \cup {kept}
      BY DEF WithCore, kept
    <3>6. cores = WithCore(t.cores, l, core)
      BY <2>1 DEF core
    <3> QED BY <1>2, <3>4, <3>5, <3>6
  <2>2. CASE ~(entry.result = "unsat" /\ entry.core # Absent /\ CoreShareable(exclude))
    BY <1>2, <2>2
  <2> QED BY <2>1, <2>2
<1>7. Remember(st, l, cube, exclude, entry) = [exact |-> exact, unsat |-> unsat, cores |-> cores]
  BY DEF Remember, t
<1> HIDE DEF exact, unsat, cores, k
<1>8. GoodStore([exact |-> exact, unsat |-> unsat, cores |-> cores], k)
  BY <1>4, <1>5, <1>6 DEF GoodStore
<1> QED BY <1>7, <1>8 DEF k

\* cachedPredecessorQueryResult: a hit is an answer of the frame as it is.
LEMMA HitRight ==
  ASSUME FramesRight, NEW l \in Levels, NEW cube \in Targets, NEW exclude \in BOOLEAN,
         GoodStore(stores[StoreOf(l)], StoreOf(l)), ExactHit(l, cube, exclude) # {}
  PROVE  LET i == CHOOSE i \in ExactHit(l, cube, exclude) : TRUE
         IN  /\ i \in DOMAIN stores[StoreOf(l)].exact
             /\ Right(ExactEntry(l, cube, exclude), Within(Region(l), cube, exclude))
             /\ ExactEntry(l, cube, exclude) \in AnswerEntry
<1> DEFINE st == stores[StoreOf(l)]
           key == ExactKey(l, cube, exclude)
           i == CHOOSE j \in ExactHit(l, cube, exclude) : TRUE
           cell == st.exact[i]
<1>1. i \in DOMAIN st.exact /\ cell.key = key
  BY DEF ExactHit, Find
<1>2. st.exact \in Seq(Cells(StoreOf(l)))
  BY DEF GoodStore
<1>3. ExactEntry(l, cube, exclude) = cell.entry
  BY DEF ExactEntry
<1>4. cell \in Cells(StoreOf(l))
  <2> HIDE DEF i
  <2> QED BY <1>1, <1>2, LenProperties, ElementOfSeq
<1> HIDE DEF cell, i
<1>5. /\ cell.entry \in AnswerEntry
      /\ Right(cell.entry,
               Within(RegionWith(key.level, key.fingerprint), key.cube, key.exclude))
  BY <1>1, <1>4 DEF Cells
<1>6. /\ key.level = l /\ key.cube = cube /\ key.exclude = exclude
      /\ key.fingerprint = frames[l].clauses
  BY KeysTyped
<1> HIDE DEF key
<1>7. Region(l) = RegionWith(l, frames[l].clauses)
  BY RegionIs
<1>8. Right(cell.entry, Within(Region(l), cube, exclude))
  BY <1>5, <1>6, <1>7, Zenon
<1> QED BY <1>1, <1>3, <1>5, <1>8 DEF i

\* The same for a stable answer and for a core that a smaller cube left.
LEMMA StableRight ==
  ASSUME FramesRight, NEW l \in Levels, NEW cube \in Targets, NEW exclude \in BOOLEAN,
         GoodStore(stores[StoreOf(l)], StoreOf(l)), StableHit(l, cube, exclude)
  PROVE  Within(Region(l), cube, exclude) = {}
<1> DEFINE u == StableKey(l, cube, exclude)
<1>1. u \in Impossible(StoreOf(l))
  BY DEF StableHit, GoodStore
<1>2. u.level = l /\ u.cube = cube /\ u.exclude = exclude
  BY KeysTyped
<1> HIDE DEF u
<1>3. Within(Region(u.level), u.cube, u.exclude) = {}
  BY <1>1 DEF Impossible
<1> QED BY <1>2, <1>3, Zenon

LEMMA CoreHitRight ==
  ASSUME FramesRight, NEW l \in Levels, NEW cube \in Targets, NEW exclude \in BOOLEAN,
         GoodStore(stores[StoreOf(l)], StoreOf(l)),
         NEW c \in CoresFor(stores[StoreOf(l)], l, cube, exclude)
  PROVE  Answered([result |-> "unsat", core |-> c.cube], Region(l), cube, exclude)
<1>1. /\ c \in DeadCores(StoreOf(l)) /\ ~exclude /\ c.level = l /\ SubCube(c.cube, cube)
  BY DEF CoresFor, GoodStore, CoreShareable
<1>2. c.cube \in Clauses /\ Within(Region(l), c.cube, FALSE) = {}
  BY <1>1 DEF DeadCores
<1>3. Within(Region(l), cube, exclude) = {}
  <2>1. Within(Region(l), cube, FALSE) = {}
    BY <1>1, <1>2, CoreAnswers
  <2> QED BY <1>1, <2>1 DEF Within
<1> DEFINE core == c.cube
           entry == [result |-> "unsat", core |-> core]
<1>4. core \in Clauses /\ Within(Region(l), core, FALSE) = {}
  BY <1>2
<1> HIDE DEF core
<1>5. entry.result = "unsat" /\ entry.core = core /\ entry \in AnswerEntry
  BY <1>4 DEF AnswerEntry
<1> HIDE DEF entry
<1>6. Answered(entry, Region(l), cube, exclude)
  BY <1>3, <1>4, <1>5 DEF Answered, Right, CoreRight
<1> QED BY <1>6 DEF entry, core

-----------------------------------------------------------------------------
(* What is kept between queries *)

\* The clauses a solver still needs are clauses of the frame or of its log.
LEMMA PendingKnown ==
  ASSUME NEW l \in Levels, FrameSound(frames[l]), NEW solver \in Solver,
         NEW complete \in BOOLEAN
  PROVE  LET P == Pending(solver, l, complete)
         IN  P \subseteq Learnable \cup Seeds
             /\ P \subseteq frames[l].clauses \cup ToSet(frames[l].log)
<1> DEFINE P == Pending(solver, l, complete)
           f == frames[l]
<1>1. f.log \in Seq(Learnable) /\ f.clauses \subseteq Learnable \cup Seeds
  BY DEF FrameSound, Frame
<1>2. CASE complete \/ solver.offset > Len(f.log)
  BY <1>1, <1>2 DEF Pending
<1>3. CASE ~(complete \/ solver.offset > Len(f.log))
  <2>1. solver.offset \in Nat /\ solver.offset <= Len(f.log)
    <3>1. Len(f.log) \in Nat /\ solver.offset \in Nat
      BY <1>1, LenProperties DEF Solver
    <3> QED BY <1>3, <3>1
  <2>2. P = Later(f.log, solver.offset)
    BY <1>1, <1>3, <2>1, LaterIsSuffix DEF Pending
  <2>3. Later(f.log, solver.offset) \subseteq ToSet(f.log) /\ ToSet(f.log) \subseteq Learnable
    BY <1>1, <2>1, LaterIsSuffix
  <2> HIDE DEF P
  <2> QED BY <2>2, <2>3 DEF P
<1> QED BY <1>2, <1>3

ZeroSolver(solver) == solver \in Solver /\ Meet(solver.facts) = StartStates

\* The solver of F[0] serves every run, although its log offset belongs to the
\* run that used it last: what it learns of F[0] holds in the start states.
LEMMA ZeroTracks ==
  ASSUME FramesRight, NEW solver, solver = Absent \/ ZeroSolver(solver)
  PROVE  ZeroSolver(LocalSolver(solver, 0, Symbols, TRUE))
<1>0. /\ 0 \in Levels /\ FrameSound(frames[0]) /\ Base(0) = StartStates
      /\ Meet(FrameFacts(0, TRUE)) = Base(0) /\ run \in 1..Runs
  <2>1. 0 \in Levels
    BY CacheConstants
  <2> QED BY <2>1, RegionIs DEF Base, FramesRight
<1>1. CASE solver = Absent
  <2>1. LocalSolver(solver, 0, Symbols, TRUE) = NewSolver(0, Symbols, TRUE)
    BY <1>1 DEF LocalSolver
  <2>2. Covers(Symbols, frames[0])
    <3>1. frames[0].clauses \subseteq Clauses
      BY <1>0, CacheConstants DEF FrameSound, Frame
    <3> QED BY <3>1 DEF Covers, Clauses
  <2>3. \A safe \in BOOLEAN : safe =>
          UpToDate(NewSolver(0, Symbols, safe), frames[0], Meet(FrameFacts(0, safe)))
    BY <1>0, <2>2, NewSolverTracks
  <2>4. UpToDate(NewSolver(0, Symbols, TRUE), frames[0], Meet(FrameFacts(0, TRUE)))
    BY <2>3, Zenon
  <2> QED BY <1>0, <2>1, <2>4 DEF UpToDate, ZeroSolver, FramesRight
<1>2. CASE solver # Absent
  <2> DEFINE wide == [solver EXCEPT !.symbols = @ \cup Symbols]
             complete == wide.symbols # solver.symbols
             new == Covered(wide, Pending(wide, 0, complete)) \ wide.emitted
             r == Emit(wide, new, 0)
  <2>1. LocalSolver(solver, 0, Symbols, TRUE) = Synchronize(wide, 0, complete)
    BY <1>2 DEF LocalSolver
  <2>2. wide \in Solver /\ wide.facts = solver.facts
    <3>1. Symbols \in SUBSET Symbols
      OBVIOUS
    <3> QED BY <1>2, <3>1 DEF Solver, ZeroSolver
  <2>3. complete \in BOOLEAN
    OBVIOUS
  <2> HIDE DEF wide, complete
  <2>4. /\ new \subseteq Learnable \cup Seeds
        /\ new \subseteq frames[0].clauses \cup ToSet(frames[0].log)
    BY <1>0, <2>2, <2>3, PendingKnown DEF Covered
  <2>5. StartStates \subseteq Allowed(new)
    <3>1. \A c \in new : StartStates \subseteq Admits(c)
      BY <1>0, <2>4 DEF FrameSound, LogImplied, FramesRight, Allowed
    <3>2. StartStates \subseteq States
      BY CacheConstants
    <3> QED BY <3>1, <3>2 DEF Allowed
  <2> HIDE DEF new
  <2>6. r \in Solver /\ r.facts = wide.facts \cup {Admits(c) : c \in new}
    BY <1>0, <2>2, <2>4, EmitFields DEF FrameSound
  <2>7. Meet(r.facts) = Meet(wide.facts) \cap Allowed(new)
    BY <2>6, MeetAdmits
  <2>8. ZeroSolver(r) /\ ZeroSolver(wide)
    BY <1>2, <2>2, <2>5, <2>6, <2>7 DEF ZeroSolver
  <2>9. Synchronize(wide, 0, complete) \in {wide, r}
    BY DEF Synchronize, new
  <2> HIDE DEF r
  <2> QED BY <2>1, <2>8, <2>9
<1> QED BY <1>1, <1>2

PoolEntry ==
  [root : SUBSET Symbols, path : SUBSET Symbols, solver : Solver \cup {Absent}, lastUse : Nat]

\* No run has nested strict proofs.
NoNested == \A r \in 1..Runs : ~PathLocal[r]

\* The entries of a pool last used by run r.
GoodEntries(r, sequence) ==
  {e \in PoolEntry :
     /\ e.lastUse <= sequence
     /\ e.solver = Absent
        \/ /\ e.solver \in Solver /\ e.solver.run <= r
           /\ NoNested => e.solver.contexts <= ContextLimit}

PoolTyped(pool) ==
  /\ pool \in [run : 0..Runs, selected : Nat, sequence : Nat, entries : Seq(PoolEntry)]
  /\ pool.entries \in Seq(GoodEntries(pool.run, pool.sequence))
  /\ Len(pool.entries) <= PoolLimit
  /\ pool.selected <= Len(pool.entries)
  /\ pool.run <= run

\* The run that selected an entry has a context of its own in it.
PoolRight(pool, l) ==
  /\ PoolTyped(pool)
  /\ pool.run = run =>
       /\ pool.selected \in DOMAIN pool.entries
       /\ LET solver == pool.entries[pool.selected].solver
          IN solver \in Solver /\ solver.run = run /\ Tracks(solver, frames[l], Property[run])

Below == {ij \in Nat \X Nat : ij[1] < ij[2]}

LEMMA BelowWellFounded == IsWellFoundedOn(Below, Nat)
<1>1. Below = OpToRel(<, Nat)
  BY DEF OpToRel, Below
<1> QED BY <1>1, NatLessThanWellFounded

LEMMA LeastElement ==
  ASSUME NEW S \in SUBSET Nat, S # {}
  PROVE  \E n \in S : \A m \in S : n <= m
<1>1. PICK n \in S : \A m \in S : ~ (<<m, n>> \in Below)
  BY BelowWellFounded, WFMin, Zenon
<1>2. ASSUME NEW m \in S PROVE n <= m
  <2>1. ~ (<<m, n>> \in Below) /\ n \in Nat /\ m \in Nat
    BY <1>1
  <2>2. <<m, n>> \in Below <=> m < n
    BY <2>1 DEF Below
  <2> QED BY <2>1, <2>2
<1> QED BY <1>2

\* selectSharedPredecessorSolverEntry: the choice exists and stays in the pool.
LEMMA ChosenIn ==
  ASSUME run \in 1..Runs, NEW r \in Nat, NEW sequence \in Nat,
         NEW entries \in Seq(GoodEntries(r, sequence)), Len(entries) <= PoolLimit
  PROVE  /\ Chosen(entries) \in 1..Len(entries) + 1 /\ Chosen(entries) <= PoolLimit
         /\ Chosen(entries) \in Fitting(entries) => Chosen(entries) <= Len(entries)
<1>0. /\ Len(entries) \in Nat /\ DOMAIN entries = 1..Len(entries)
      /\ \A i \in DOMAIN entries : entries[i] \in GoodEntries(r, sequence)
      /\ PoolLimit \in Nat \ {0}
  BY CacheConstants, LenProperties, ElementOfSeq
<1>1. \A i \in DOMAIN entries : /\ entries[i].lastUse \in Nat /\ entries[i].lastUse <= sequence
                                /\ entries[i].root \in SUBSET Symbols
                                /\ entries[i].path \in SUBSET Symbols
  BY <1>0 DEF GoodEntries, PoolEntry
<1> DEFINE size(i) == Cardinality(FamilyOf(entries[i]))
<1>2. \A i \in DOMAIN entries : size(i) \in Nat
  <2>1. \A i \in DOMAIN entries : FamilyOf(entries[i]) \in SUBSET Symbols
    BY <1>1 DEF FamilyOf
  <2>2. \A A \in SUBSET Symbols : IsFiniteSet(A)
    BY CacheConstants, FS_Subset
  <2>3. \A A \in SUBSET Symbols : Cardinality(A) \in Nat
    BY <2>2, FS_CardinalityType
  <2> QED BY <2>1, <2>3
<1> DEFINE F == Fitting(entries)
<1>3. F \subseteq DOMAIN entries
  BY DEF Fitting
<1>4. CASE F # {}
  <2> DEFINE sizes == {size(i) : i \in F}
  <2>1. PICK m \in sizes : \A n \in sizes : m <= n
    <3>1. sizes \in SUBSET Nat /\ sizes # {}
      BY <1>2, <1>3, <1>4
    <3> HIDE DEF sizes
    <3> QED BY <3>1, LeastElement
  <2> DEFINE G == {i \in F : size(i) = m}
             ages == {sequence - entries[i].lastUse : i \in G}
  <2>2. G # {}
    BY <2>1
  <2>3. \A i \in G : sequence - entries[i].lastUse \in Nat
    BY <1>1, <1>3
  <2>4. PICK a \in ages : \A b \in ages : a <= b
    <3>1. ages \in SUBSET Nat /\ ages # {}
      BY <2>2, <2>3
    <3> HIDE DEF ages
    <3> QED BY <3>1, LeastElement
  <2>5. PICK i \in G : a = sequence - entries[i].lastUse
    BY <2>4
  <2>6. ASSUME NEW j \in F \ {i} PROVE ~Tighter(entries[j], entries[i])
    <3>1. size(i) = m /\ m <= size(j) /\ size(i) \in Nat /\ size(j) \in Nat
      BY <1>2, <1>3, <2>1, <2>5, <2>6
    <3>2. size(j) = size(i) => entries[j].lastUse <= entries[i].lastUse
      <4>1. SUFFICES ASSUME size(j) = size(i) PROVE entries[j].lastUse <= entries[i].lastUse
        OBVIOUS
      <4>2. j \in G
        BY <2>6, <3>1, <4>1
      <4>3. sequence - entries[i].lastUse <= sequence - entries[j].lastUse
        BY <2>4, <2>5, <4>2
      <4>4. entries[i].lastUse \in Nat /\ entries[j].lastUse \in Nat
        BY <1>1, <1>3, <2>5, <2>6
      <4> QED BY <4>3, <4>4
    <3>3. entries[i].lastUse \in Nat /\ entries[j].lastUse \in Nat
      BY <1>1, <1>3, <2>5, <2>6
    <3>4. Tighter(entries[j], entries[i]) <=>
            \/ size(j) < size(i)
            \/ size(j) = size(i) /\ entries[j].lastUse > entries[i].lastUse
      BY DEF Tighter
    <3> HIDE DEF size, F, G
    <3> QED BY <3>1, <3>2, <3>3, <3>4
  <2>7. i \in F
    BY <2>5
  <2>8. Chosen(entries) = CHOOSE k \in F : \A j \in F \ {k} : ~Tighter(entries[j], entries[k])
    BY <1>4 DEF Chosen
  <2> HIDE DEF F, G
  <2>9. Chosen(entries) \in F
    BY <2>6, <2>7, <2>8
  <2> QED BY <1>0, <1>3, <2>9
<1>5. CASE F = {} /\ Len(entries) < PoolLimit
  <2>1. Chosen(entries) = Len(entries) + 1
    BY <1>5 DEF Chosen
  <2> QED BY <1>0, <1>5, <2>1
<1>6. CASE F = {} /\ ~(Len(entries) < PoolLimit)
  <2>1. Chosen(entries) = CHOOSE i \in DOMAIN entries :
                            \A j \in DOMAIN entries : entries[i].lastUse <= entries[j].lastUse
    BY <1>6 DEF Chosen
  <2> DEFINE uses == {entries[i].lastUse : i \in DOMAIN entries}
  <2>2. PICK u \in uses : \A v \in uses : u <= v
    <3>1. 1 \in DOMAIN entries
      BY <1>0, <1>6
    <3>2. uses \in SUBSET Nat /\ uses # {}
      BY <1>1, <3>1
    <3> HIDE DEF uses
    <3> QED BY <3>2, LeastElement
  <2>3. PICK i \in DOMAIN entries : u = entries[i].lastUse
    BY <2>2
  <2>4. \A j \in DOMAIN entries : entries[i].lastUse <= entries[j].lastUse
    BY <2>2, <2>3
  <2>5. Chosen(entries) \in DOMAIN entries
    BY <2>1, <2>3, <2>4
  <2> QED BY <1>0, <1>6, <2>5
<1> QED BY <1>4, <1>5, <1>6

\* The entry a run is given: empty, or with a solver that has room for a context.
Usable(e, l) ==
  /\ e \in PoolEntry
  /\ e.solver = Absent
     \/ /\ e.solver \in Solver /\ e.solver.run <= run
        /\ e.solver.run = run => Tracks(e.solver, frames[l], Property[run])
        /\ NoNested => /\ e.solver.contexts <= ContextLimit
                       /\ e.solver.run # run => e.solver.contexts < ContextLimit

\* prepareSharedPredecessorSolverEntry: a worn solver is thrown away.
LEMMA PreparedUsable ==
  ASSUME FramesRight, NEW l \in 1..Top, NEW r \in Nat, r < run, NEW sequence \in Nat,
         NEW entries \in Seq(GoodEntries(r, sequence)), NEW i \in Nat
  PROVE  LET e == Prepared(entries, i, sequence + 1)
         IN  /\ Usable(e, l) /\ e.lastUse = sequence + 1
             /\ e \in GoodEntries(run, sequence + 1)
<1> DEFINE old == IF i \in Fitting(entries) THEN entries[i] ELSE FreshEntry
           worn == /\ ~PathLocal[run]
                   /\ old.solver # Absent
                   /\ old.solver.contexts >= ContextLimit
           path == IF PathLocal[run] THEN Family[run] ELSE old.path
           solver == IF worn THEN Absent ELSE old.solver
           e == Prepared(entries, i, sequence + 1)
<1>0. Family[run] \in SUBSET Symbols /\ run \in 1..Runs /\ ContextLimit \in Nat \ {0}
  BY CacheConstants DEF FramesRight
<1>1. /\ old \in PoolEntry
      /\ old.solver = Absent
         \/ /\ old.solver \in Solver /\ old.solver.run <= r
            /\ NoNested => old.solver.contexts <= ContextLimit
  <2>1. CASE i \in Fitting(entries)
    <3>1. i \in DOMAIN entries
      BY <2>1 DEF Fitting
    <3>2. entries[i] \in GoodEntries(r, sequence)
      BY <3>1, LenProperties, ElementOfSeq
    <3> QED BY <2>1, <3>2 DEF GoodEntries
  <2>2. CASE i \notin Fitting(entries)
    <3>1. FreshEntry \in PoolEntry /\ FreshEntry.solver = Absent
      BY <1>0 DEF FreshEntry, PoolEntry
    <3> QED BY <2>2, <3>1
  <2> QED BY <2>1, <2>2
<1>2. e = [old EXCEPT !.path = path, !.solver = solver, !.lastUse = sequence + 1]
  BY DEF Prepared
<1> HIDE DEF old, e
<1>3. path \in SUBSET Symbols
  BY <1>0, <1>1 DEF PoolEntry
<1>4. solver \in Solver \cup {Absent}
  BY <1>1
<1> HIDE DEF path, solver
<1>5. e \in PoolEntry /\ e.solver = solver /\ e.lastUse = sequence + 1
  <2>1. sequence + 1 \in Nat
    OBVIOUS
  <2> QED BY <1>1, <1>2, <1>3, <1>4, <2>1 DEF PoolEntry
<1>6. solver = Absent
      \/ /\ solver \in Solver /\ solver.run <= r
         /\ NoNested => solver.contexts <= ContextLimit /\ solver.contexts < ContextLimit
  <2>1. CASE worn
    BY <2>1 DEF solver
  <2>2. CASE ~worn /\ old.solver = Absent
    BY <2>2 DEF solver
  <2>3. CASE ~worn /\ old.solver # Absent
    <3>1. solver = old.solver /\ solver \in Solver /\ solver.run <= r
      BY <1>1, <2>3 DEF solver
    <3>2. NoNested => ~PathLocal[run]
      BY <1>0 DEF NoNested
    <3>3. solver.contexts \in Nat
      BY <3>1 DEF Solver
    <3>4. NoNested => solver.contexts < ContextLimit
      BY <1>0, <2>3, <3>1, <3>2, <3>3
    <3> QED BY <1>1, <3>1, <3>4
  <2> QED BY <2>1, <2>2, <2>3
<1>7. solver = Absent \/ (solver \in Solver /\ solver.run # run /\ solver.run <= run)
  <2>1. solver \in Solver => solver.run \in Nat
    BY DEF Solver
  <2> QED BY <1>0, <1>6, <2>1
<1>8. Usable(e, l)
  BY <1>5, <1>6, <1>7 DEF Usable
<1>9. e \in GoodEntries(run, sequence + 1)
  BY <1>5, <1>6, <1>7 DEF GoodEntries
<1> QED BY <1>5, <1>8, <1>9 DEF e

LEMMA EntriesAge ==
  ASSUME NEW r \in Int, NEW s \in Int, NEW q \in Int, NEW t \in Int, r <= s, q <= t
  PROVE  GoodEntries(r, q) \subseteq GoodEntries(s, t) /\ GoodEntries(s, t) \subseteq PoolEntry
<1>1. \A e \in PoolEntry : e.lastUse \in Int
  BY DEF PoolEntry
<1>2. \A x \in Solver : x.run \in Int
  BY CacheConstants DEF Solver
<1> QED BY <1>1, <1>2 DEF GoodEntries

\* The first query of a run selects an entry of the pool, and the run keeps it.
LEMMA SelectRight ==
  ASSUME FramesRight, NEW l \in 1..Top, NEW pool, PoolRight(pool, l)
  PROVE  LET p == Select(pool)
         IN  /\ PoolTyped(p) /\ p.run = run
             /\ p.selected \in DOMAIN p.entries
             /\ Usable(p.entries[p.selected], l)
<1>0. /\ pool \in [run : 0..Runs, selected : Nat, sequence : Nat, entries : Seq(PoolEntry)]
      /\ pool.entries \in Seq(GoodEntries(pool.run, pool.sequence))
      /\ Len(pool.entries) <= PoolLimit
      /\ pool.selected <= Len(pool.entries)
      /\ pool.run <= run /\ pool.run \in Nat /\ pool.sequence \in Nat
      /\ run \in 1..Runs /\ run \in Nat
  BY CacheConstants DEF PoolRight, PoolTyped, FramesRight
<1>1. CASE pool.run = run
  <2>1. Select(pool) = pool /\ PoolTyped(pool)
    BY <1>1 DEF Select, PoolRight
  <2> DEFINE e == pool.entries[pool.selected]
  <2>2. /\ pool.selected \in DOMAIN pool.entries
        /\ e.solver \in Solver /\ e.solver.run = run
        /\ Tracks(e.solver, frames[l], Property[run])
    BY <1>1 DEF PoolRight
  <2>3. e \in GoodEntries(run, pool.sequence)
    BY <1>0, <1>1, <2>2, LenProperties, ElementOfSeq
  <2> HIDE DEF e
  <2>4. e \in PoolEntry /\ (e.solver = Absent \/ (NoNested => e.solver.contexts <= ContextLimit))
    BY <2>3 DEF GoodEntries
  <2>5. Usable(e, l)
    BY <1>0, <2>2, <2>4 DEF Usable
  <2> QED BY <1>1, <2>1, <2>2, <2>5 DEF e
<1>2. CASE pool.run # run
  <2> DEFINE old == pool.entries
             next == pool.sequence + 1
             i == Chosen(old)
             e == Prepared(old, i, next)
             new == IF i > Len(old) THEN Append(old, e) ELSE [old EXCEPT ![i] = e]
             G == GoodEntries(run, next)
  <2>1. Select(pool) = [run |-> run, selected |-> i, sequence |-> next, entries |-> new]
    BY <1>2 DEF Select
  <2>2. i \in 1..Len(old) + 1 /\ i <= PoolLimit /\ Len(old) \in Nat /\ PoolLimit \in Nat
    BY <1>0, ChosenIn, CacheConstants, LenProperties
  <2>3. Usable(e, l) /\ e \in G
    <3>1. pool.run < run /\ i \in Nat
      BY <1>0, <1>2, <2>2
    <3> HIDE DEF i
    <3> QED BY <1>0, <3>1, PreparedUsable
  <2>4. next \in Nat
    BY <1>0
  <2>5. old \in Seq(G) /\ G \subseteq PoolEntry
    <3>1. GoodEntries(pool.run, pool.sequence) \subseteq G /\ G \subseteq PoolEntry
      <4>1. pool.sequence <= next
        BY <1>0
      <4> HIDE DEF next
      <4> QED BY <1>0, <2>4, <4>1, EntriesAge
    <3> HIDE DEF G, old
    <3> QED BY <1>0, <3>1, SeqMonotonic DEF old
  <2> HIDE DEF i, e, G, next, old
  <2>6. new \in Seq(G) /\ Len(new) <= PoolLimit /\ i \in 1..Len(new) /\ new[i] = e
    <3>1. CASE i > Len(old)
      <4>1. i = Len(old) + 1
        BY <2>2, <3>1
      <4>2. /\ Append(old, e) \in Seq(G) /\ Len(Append(old, e)) = Len(old) + 1
            /\ Append(old, e)[Len(old) + 1] = e
        BY <2>3, <2>5, AppendProperties
      <4>3. new = Append(old, e)
        BY <3>1
      <4> HIDE DEF new
      <4> QED BY <2>2, <4>1, <4>2, <4>3
    <3>2. CASE ~(i > Len(old))
      <4>1. i \in 1..Len(old)
        BY <2>2, <3>2
      <4>2. /\ [old EXCEPT ![i] = e] \in Seq(G) /\ Len([old EXCEPT ![i] = e]) = Len(old)
            /\ [old EXCEPT ![i] = e][i] = e
        BY <2>3, <2>5, <4>1, ExceptSeq
      <4>3. new = [old EXCEPT ![i] = e]
        BY <3>2
      <4>4. Len(old) <= PoolLimit
        BY <1>0 DEF old
      <4> HIDE DEF new
      <4> QED BY <4>1, <4>2, <4>3, <4>4
    <3> QED BY <3>1, <3>2
  <2> HIDE DEF new
  <2>7. new \in Seq(PoolEntry) /\ DOMAIN new = 1..Len(new) /\ Len(new) \in Nat
    BY <2>5, <2>6, SeqMonotonic, LenProperties
  <2> DEFINE p == [run |-> run, selected |-> i, sequence |-> next, entries |-> new]
  <2>8. p.run = run /\ p.selected = i /\ p.sequence = next /\ p.entries = new
    OBVIOUS
  <2>9. p \in [run : 0..Runs, selected : Nat, sequence : Nat, entries : Seq(PoolEntry)]
    <3>1. run \in 0..Runs /\ i \in Nat
      BY <1>0, <2>2
    <3> QED BY <2>4, <2>7, <3>1
  <2> HIDE DEF p
  <2>10. PoolTyped(p)
    <3>1. run <= run /\ i <= Len(new)
      BY <1>0, <2>6, <2>7
    <3>2. new \in Seq(GoodEntries(run, next))
      BY <2>6 DEF G
    <3> QED BY <2>6, <2>8, <2>9, <3>1, <3>2 DEF PoolTyped
  <2> QED BY <2>1, <2>3, <2>6, <2>7, <2>8, <2>10 DEF p
<1> QED BY <1>1, <1>2

\* A query leaves the selected solver up to date with the frame.
LEMMA PoolAfterRight ==
  ASSUME FramesRight, NEW l \in 1..Top, PoolRight(pools[l], l),
         NEW symbols, Covers(symbols, frames[l])
  PROVE  LET p == PoolAfter(l, symbols)
         IN  /\ PoolRight(p, l)
             /\ UpToDate(p.entries[p.selected].solver, frames[l], Property[run])
<1> DEFINE p == Select(pools[l])
           i == p.selected
           old == p.entries[i]
           solver == SharedSolver(old.solver, l, symbols)
           e == [old EXCEPT !.solver = solver]
           new == [p.entries EXCEPT ![i] = e]
           q == [p EXCEPT !.entries = new]
           G == GoodEntries(run, p.sequence)
<1>0. run \in 1..Runs /\ run \in Nat /\ ContextLimit \in Nat \ {0} /\ FrameSound(frames[l])
  BY CacheConstants DEF FramesRight, FrameSound
<1>1. PoolTyped(p) /\ p.run = run /\ i \in DOMAIN p.entries /\ Usable(old, l)
  BY SelectRight
<1>2. PoolAfter(l, symbols) = q
  BY DEF PoolAfter
<1> HIDE DEF p
<1>3. /\ p \in [run : 0..Runs, selected : Nat, sequence : Nat, entries : Seq(PoolEntry)]
      /\ p.entries \in Seq(G) /\ Len(p.entries) <= PoolLimit
      /\ i <= Len(p.entries)
  BY <1>1 DEF PoolTyped
<1>4. i \in 1..Len(p.entries) /\ DOMAIN p.entries = 1..Len(p.entries)
  BY <1>1, <1>3, LenProperties
<1> HIDE DEF i, old
<1>5. /\ old \in PoolEntry /\ old.lastUse <= p.sequence
      /\ old.solver = Absent
         \/ /\ old.solver \in Solver
            /\ old.solver.run = run => Tracks(old.solver, frames[l], Property[run])
  <2>1. old \in G
    <3> HIDE DEF G
    <3> QED BY <1>3, <1>4, ElementOfSeq DEF old
  <2> QED BY <1>1, <2>1 DEF Usable, GoodEntries
<1>6. /\ UpToDate(solver, frames[l], Property[run]) /\ solver.run = run
      /\ old.solver = Absent => solver.contexts = 1
      /\ old.solver # Absent => solver.contexts = IF old.solver.run = run THEN old.solver.contexts
                                                  ELSE old.solver.contexts + 1
  BY <1>0, <1>5, SharedTracks
<1> HIDE DEF solver
<1>7. solver \in Solver /\ (NoNested => solver.contexts <= ContextLimit)
  <2>1. solver \in Solver
    BY <1>6 DEF UpToDate
  <2>2. ASSUME NoNested PROVE solver.contexts <= ContextLimit
    <3>1. CASE old.solver = Absent
      BY <1>0, <1>6, <3>1
    <3>2. CASE old.solver # Absent
      <4>1. /\ old.solver.contexts <= ContextLimit /\ old.solver.contexts \in Nat
            /\ old.solver.run # run => old.solver.contexts < ContextLimit
        BY <1>1, <2>2, <3>2 DEF Usable, Solver
      <4> QED BY <1>0, <1>6, <3>2, <4>1
    <3> QED BY <3>1, <3>2
  <2> QED BY <2>1, <2>2
<1>8. e \in PoolEntry /\ e.lastUse = old.lastUse /\ e.solver = solver
  BY <1>5, <1>7 DEF PoolEntry
<1> HIDE DEF e
<1>9. e \in G
  <2>1. run <= run
    BY <1>0
  <2> QED BY <1>5, <1>6, <1>7, <1>8, <2>1 DEF GoodEntries
<1>10. G \subseteq PoolEntry
  BY DEF GoodEntries
<1> HIDE DEF G
<1>11. new \in Seq(G) /\ Len(new) = Len(p.entries) /\ new[i] = e
  BY <1>3, <1>4, <1>9, ExceptSeq
<1> HIDE DEF new
<1>12. new \in Seq(PoolEntry) /\ DOMAIN new = 1..Len(new)
  BY <1>10, <1>11, SeqMonotonic, LenProperties
<1>13. /\ q \in [run : 0..Runs, selected : Nat, sequence : Nat, entries : Seq(PoolEntry)]
       /\ q.run = run /\ q.selected = i /\ q.sequence = p.sequence /\ q.entries = new
  BY <1>1, <1>3, <1>12 DEF i
<1> HIDE DEF q
<1>14. PoolTyped(q)
  <2>1. q.run <= run
    BY <1>0, <1>13
  <2>2. q.entries \in Seq(GoodEntries(q.run, q.sequence))
    BY <1>11, <1>13 DEF G
  <2> QED BY <1>3, <1>11, <1>13, <2>1, <2>2 DEF PoolTyped
<1>15. q.entries[q.selected] = e /\ q.selected \in DOMAIN q.entries
  BY <1>4, <1>11, <1>12, <1>13
<1>16. PoolRight(q, l)
  BY <1>6, <1>7, <1>8, <1>14, <1>15 DEF PoolRight, UpToDate
<1> QED BY <1>2, <1>6, <1>8, <1>15, <1>16

-----------------------------------------------------------------------------
(* The inductive invariant *)

ZeroFits(z) == z = Absent \/ ZeroSolver(z)

ProbeFits(p, l) == p = Absent \/ (p \in Solver /\ Tracks(p, frames[l], Property[run]))

BadFits(b) ==
  b = Absent \/ (b \in [level : 1..Top, solver : Solver] /\ Tracks(b.solver, frames[b.level], States))

StoreNames == {"zero", "run"}

StoresFit(st) ==
  /\ st = [k \in StoreNames |-> st[k]]
  /\ \A k \in StoreNames : GoodStore(st[k], k)

PoolsFit(ps) == ps = [l \in 1..Top |-> ps[l]] /\ \A l \in 1..Top : PoolRight(ps[l], l)

ProbesFit(ps) == ps = [l \in 1..Top |-> ps[l]] /\ \A l \in 1..Top : ProbeFits(ps[l], l)

\* Whatever is kept between two queries fits the frames as they are.
CachesRight ==
  /\ FramesRight /\ ZeroFits(zero) /\ PoolsFit(pools) /\ ProbesFit(probes)
  /\ BadFits(badSolver) /\ StoresFit(stores)

\* The answers a query may be given.
Replies(l, cube, exclude) ==
  {Reply(Query(l, cube, exclude), "unknown")}
    \cup (IF Within(Region(l), cube, exclude) = {}
          THEN {Reply(Query(l, cube, exclude), "unsat")} ELSE {})
    \cup {Reply(Query(l, cube, exclude), "sat") : s \in Within(Region(l), cube, exclude)}
    \cup {ReplyWith(Query(l, cube, exclude), s) : s \in Within(Region(l), cube, exclude)}

BadReplies(l) ==
  LET query == [kind |-> "bad", level |-> l]
  IN {Reply(query, "unknown")}
       \cup (IF BadRegion(l) = {} THEN {Reply(query, "unsat")} ELSE {})
       \cup {ReplyWith(query, s) : s \in BadRegion(l)}

\* An answer that is right is one the caller may be given.
LEMMA ToldRight ==
  ASSUME NEW l, NEW cube, NEW exclude, NEW entry,
         Right(entry, Within(Region(l), cube, exclude))
  PROVE  Told(Query(l, cube, exclude), entry) \in Replies(l, cube, exclude)
<1> DEFINE preds == Within(Region(l), cube, exclude)
           q == Query(l, cube, exclude)
<1> HIDE DEF preds, q
<1>1. Right(entry, preds)
  BY DEF preds
<1>2. Replies(l, cube, exclude) =
        {Reply(q, "unknown")} \cup (IF preds = {} THEN {Reply(q, "unsat")} ELSE {})
          \cup {Reply(q, "sat") : s \in preds} \cup {ReplyWith(q, s) : s \in preds}
  BY DEF Replies, preds, q
<1>3. CASE entry.result = "sat" /\ entry.model # Absent
  <2>1. Told(q, entry) = ReplyWith(q, entry.model) /\ entry.model \in preds
    BY <1>1, <1>3 DEF Told, Right
  <2> QED BY <1>2, <2>1 DEF q
<1>4. CASE entry.result = "sat" /\ entry.model = Absent
  <2>1. Told(q, entry) = Reply(q, "sat") /\ preds # {}
    BY <1>1, <1>4 DEF Told, Right
  <2> QED BY <1>2, <2>1 DEF q
<1>5. CASE entry.result # "sat"
  <2>1. Told(q, entry) = Reply(q, "unsat") /\ preds = {}
    BY <1>1, <1>5 DEF Told, Right
  <2> QED BY <1>2, <2>1 DEF q
<1> QED BY <1>3, <1>4, <1>5

LEMMA UnsatRight ==
  ASSUME NEW l, NEW cube, NEW exclude, Within(Region(l), cube, exclude) = {}
  PROVE  Reply(Query(l, cube, exclude), "unsat") \in Replies(l, cube, exclude)
BY DEF Replies

LEMMA UnknownRight ==
  ASSUME NEW l, NEW cube, NEW exclude
  PROVE  Reply(Query(l, cube, exclude), "unknown") \in Replies(l, cube, exclude)
BY DEF Replies

\* An answer that is right for the frame is told and remembered.
LEMMA Remembered ==
  ASSUME FramesRight, StoresFit(stores), NEW l \in Levels, NEW cube \in Targets,
         NEW exclude \in BOOLEAN, NEW entry, Answered(entry, Region(l), cube, exclude)
  PROVE  /\ StoresFit([stores EXCEPT ![StoreOf(l)] = Remember(@, l, cube, exclude, entry)])
         /\ Told(Query(l, cube, exclude), entry) \in Replies(l, cube, exclude)
<1> DEFINE k == StoreOf(l)
           new == Remember(stores[k], l, cube, exclude, entry)
<1>1. k \in StoreNames
  BY DEF StoreOf, StoreNames
<1>2. GoodStore(new, k)
  BY <1>1, RememberKeeps DEF StoresFit
<1> HIDE DEF k, new
<1>3. StoresFit([stores EXCEPT ![k] = new])
  BY <1>1, <1>2 DEF StoresFit
<1>4. Told(Query(l, cube, exclude), entry) \in Replies(l, cube, exclude)
  BY ToldRight DEF Answered
<1> QED BY <1>3, <1>4 DEF k, new

\* What a solver that admits the states of the frame concludes.
LEMMA Concluded ==
  ASSUME FramesRight, StoresFit(stores), NEW l \in Levels, NEW cube \in Targets,
         NEW exclude \in BOOLEAN, NEW needsModel, NEW solver, Meet(solver.facts) = Region(l)
  PROVE  /\ \A entry \in Outcomes(Meet(solver.facts), cube, exclude, needsModel) :
              Answered(entry, Region(l), cube, exclude)
         /\ Conclude(solver, l, cube, exclude, needsModel) =>
              StoresFit(stores') /\ answer' \in Replies(l, cube, exclude)
<1>0. Region(l) \in SUBSET States /\ cube \in Clauses
  BY RegionIs, CacheConstants
<1>1. \A entry \in Outcomes(Meet(solver.facts), cube, exclude, needsModel) :
        Answered(entry, Region(l), cube, exclude)
  BY <1>0, OutcomesRight
<1>2. ASSUME NEW entry \in Outcomes(Meet(solver.facts), cube, exclude, needsModel),
             answer' = Told(Query(l, cube, exclude), entry),
             stores' = [stores EXCEPT ![StoreOf(l)] = Remember(@, l, cube, exclude, entry)]
      PROVE  StoresFit(stores') /\ answer' \in Replies(l, cube, exclude)
  BY <1>1, <1>2, Remembered
<1>3. ASSUME answer' = Reply(Query(l, cube, exclude), "unknown"), UNCHANGED stores
      PROVE  StoresFit(stores') /\ answer' \in Replies(l, cube, exclude)
  BY <1>3, UnknownRight
<1> QED BY <1>1, <1>2, <1>3 DEF Conclude

\* The solvers a run builds for itself.
LEMMA OwnSolvers ==
  ASSUME FramesRight, NEW l \in 1..Top, NEW symbols, Covers(symbols, frames[l])
  PROVE  /\ UpToDate(NewSolver(l, symbols, TRUE), frames[l], Property[run])
         /\ UpToDate(NewSolver(l, symbols, FALSE), frames[l], States)
         /\ \A p : ProbeFits(p, l) =>
              UpToDate(LocalSolver(p, l, symbols, TRUE), frames[l], Property[run])
         /\ \A solver : solver \in Solver /\ solver.symbols = symbols
                        /\ Tracks(solver, frames[l], States) =>
              UpToDate(Synchronize(solver, l, FALSE), frames[l], States)
<1>0. /\ run \in 1..Runs /\ l \in Levels /\ FrameSound(frames[l])
      /\ Meet(FrameFacts(l, TRUE)) = Property[run] /\ Meet(FrameFacts(l, FALSE)) = States
  <2>1. l \in Levels /\ run \in 1..Runs
    BY CacheConstants DEF FramesRight
  <2> QED BY <2>1, RegionIs, FrameBase
<1>1. \A safe \in BOOLEAN : UpToDate(NewSolver(l, symbols, safe), frames[l], Meet(FrameFacts(l, safe)))
  BY <1>0, NewSolverTracks
<1>2. /\ UpToDate(NewSolver(l, symbols, TRUE), frames[l], Meet(FrameFacts(l, TRUE)))
      /\ UpToDate(NewSolver(l, symbols, FALSE), frames[l], Meet(FrameFacts(l, FALSE)))
  BY <1>1, Zenon
<1>3. ASSUME NEW p, ProbeFits(p, l)
      PROVE  UpToDate(LocalSolver(p, l, symbols, TRUE), frames[l], Property[run])
  <2>1. \A safe \in BOOLEAN : Property[run] = Meet(FrameFacts(l, safe)) =>
          UpToDate(LocalSolver(p, l, symbols, safe), frames[l], Property[run])
    BY <1>0, <1>3, LocalTracks DEF ProbeFits
  <2>2. Property[run] = Meet(FrameFacts(l, TRUE)) =>
          UpToDate(LocalSolver(p, l, symbols, TRUE), frames[l], Property[run])
    BY <2>1, Zenon
  <2> QED BY <1>0, <2>2
<1>4. ASSUME NEW solver, solver \in Solver, solver.symbols = symbols,
             Tracks(solver, frames[l], States)
      PROVE  UpToDate(Synchronize(solver, l, FALSE), frames[l], States)
  <2>1. Ready(solver, frames[l], States) /\ Follows(solver, frames[l])
    BY <1>4 DEF Ready, Tracks, Covers
  <2>2. \A complete \in BOOLEAN : UpToDate(Synchronize(solver, l, complete), frames[l], States)
    BY <1>0, <2>1, Synchronized
  <2> QED BY <2>2, Zenon
<1> QED BY <1>0, <1>2, <1>3, <1>4

-----------------------------------------------------------------------------
(* The queries *)

\* A query changes no frame and leaves caches that fit.
KeptByQuery ==
  /\ UNCHANGED <<run, frames>> /\ budget' \in 0..QueryBudget
  /\ ZeroFits(zero') /\ PoolsFit(pools') /\ ProbesFit(probes')
  /\ BadFits(badSolver') /\ StoresFit(stores')

LEMMA StoreSolving ==
  ASSUME CachesRight, NEW l \in Levels, NEW cube \in Targets, NEW exclude \in BOOLEAN,
         NEW needsModel, AnswerFromStore(l, cube, exclude, needsModel)
  PROVE  KeptByQuery /\ answer' \in Replies(l, cube, exclude)
<1> DEFINE k == StoreOf(l)
           i == CHOOSE j \in ExactHit(l, cube, exclude) : TRUE
           st == stores[k]
           new == [st EXCEPT !.exact = Touch(@, i)]
<1>1. k \in StoreNames /\ GoodStore(st, k) /\ FramesRight
  BY DEF StoreOf, StoreNames, CachesRight, StoresFit
<1>2. ExactHit(l, cube, exclude) # {}
  BY DEF AnswerFromStore
<1>3. /\ i \in DOMAIN st.exact
      /\ Right(ExactEntry(l, cube, exclude), Within(Region(l), cube, exclude))
  BY <1>1, <1>2, HitRight
<1>4. answer' \in Replies(l, cube, exclude)
  BY <1>3, ToldRight DEF AnswerFromStore
<1>5. stores' = [stores EXCEPT ![k] = new]
  BY DEF AnswerFromStore
<1>6. GoodStore(new, k)
  <2>1. /\ st \in [exact : Seq(Cells(k)), unsat : SUBSET Impossible(k), cores : SUBSET DeadCores(k)]
        /\ Len(st.exact) <= ExactLimit
        /\ IsFiniteSet(st.unsat) /\ Cardinality(st.unsat) <= UnsatLimit
    BY <1>1 DEF GoodStore
  <2> DEFINE exact == Touch(st.exact, i)
  <2> HIDE DEF k, i, st
  <2>2. exact \in Seq(Cells(k)) /\ Len(exact) = Len(st.exact)
    BY <1>3, <2>1, TouchKeeps
  <2>3. new = [st EXCEPT !.exact = exact]
    OBVIOUS
  <2> HIDE DEF exact, new
  <2>4. new \in [exact : Seq(Cells(k)), unsat : SUBSET Impossible(k), cores : SUBSET DeadCores(k)]
        /\ new.exact = exact /\ new.unsat = st.unsat
    BY <2>1, <2>2, <2>3
  <2> QED BY <2>1, <2>2, <2>4 DEF GoodStore
<1> HIDE DEF k, i, st, new
<1>7. StoresFit(stores')
  BY <1>1, <1>5, <1>6 DEF CachesRight, StoresFit
<1> QED BY <1>4, <1>7 DEF AnswerFromStore, CachesRight, KeptByQuery, FramesRight

LEMMA StableSolving ==
  ASSUME CachesRight, NEW l \in Levels, NEW cube \in Targets, NEW exclude \in BOOLEAN,
         AnswerFromStable(l, cube, exclude)
  PROVE  KeptByQuery /\ answer' \in Replies(l, cube, exclude)
<1>1. GoodStore(stores[StoreOf(l)], StoreOf(l)) /\ FramesRight
  BY DEF StoreOf, StoreNames, CachesRight, StoresFit
<1>2. answer' \in Replies(l, cube, exclude)
  BY <1>1, StableRight, UnsatRight DEF AnswerFromStable
<1> QED BY <1>2 DEF AnswerFromStable, CachesRight, KeptByQuery, FramesRight

LEMMA CoreSolving ==
  ASSUME CachesRight, NEW l \in Levels, NEW cube \in Targets, NEW exclude \in BOOLEAN,
         NEW needsModel, AnswerFromCore(l, cube, exclude, needsModel)
  PROVE  KeptByQuery /\ answer' \in Replies(l, cube, exclude)
<1>1. GoodStore(stores[StoreOf(l)], StoreOf(l)) /\ FramesRight /\ StoresFit(stores)
  BY DEF StoreOf, StoreNames, CachesRight, StoresFit
<1>2. PICK c \in CoresFor(stores[StoreOf(l)], l, cube, exclude) :
        stores' = [stores EXCEPT ![StoreOf(l)] =
                     Remember(@, l, cube, exclude, [result |-> "unsat", core |-> c.cube])]
  BY DEF AnswerFromCore
<1> DEFINE entry == [result |-> "unsat", core |-> c.cube]
<1>3. Answered(entry, Region(l), cube, exclude) /\ entry.result = "unsat"
  BY <1>1, CoreHitRight
<1>4. stores' = [stores EXCEPT ![StoreOf(l)] = Remember(@, l, cube, exclude, entry)]
  BY <1>2
<1> HIDE DEF entry
<1>5. StoresFit(stores') /\ Told(Query(l, cube, exclude), entry) \in Replies(l, cube, exclude)
  BY <1>1, <1>3, <1>4, Remembered
<1>6. answer' = Told(Query(l, cube, exclude), entry)
  BY <1>3 DEF AnswerFromCore, Told
<1> QED BY <1>5, <1>6 DEF AnswerFromCore, CachesRight, KeptByQuery, FramesRight

LEMMA GivingUp ==
  ASSUME CachesRight, NEW l \in Levels, NEW cube \in Targets, NEW exclude \in BOOLEAN,
         NEW needsModel, GiveUp(l, cube, exclude, needsModel)
  PROVE  KeptByQuery /\ answer' \in Replies(l, cube, exclude)
<1>1. budget' \in 0..QueryBudget
  BY CacheConstants DEF GiveUp, CachesRight, FramesRight
<1> QED BY <1>1, UnknownRight DEF GiveUp, CachesRight, KeptByQuery, FramesRight

LEMMA Charging ==
  ASSUME CachesRight, NEW l, NEW cube, NEW exclude, NEW needsModel,
         Charged(l, cube, exclude, needsModel)
  PROVE  budget' \in 0..QueryBudget
BY CacheConstants DEF Charged, CachesRight, FramesRight

\* The shared solver of F[0] answers.
LEMMA ZeroSolving ==
  ASSUME CachesRight, NEW cube \in Targets, NEW exclude \in BOOLEAN,
         NEW needsModel, SolveFrameZero(cube, exclude, needsModel)
  PROVE  KeptByQuery /\ answer' \in Replies(0, cube, exclude)
<1>0. 0 \in Levels /\ FramesRight /\ StoresFit(stores)
  BY CacheConstants DEF CachesRight
<1>1. ZeroSolver(zero')
  BY <1>0, ZeroTracks DEF SolveFrameZero, CachesRight, ZeroFits
<1>2. Meet(zero'.facts) = Region(0)
  BY <1>0, <1>1, RegionIs DEF ZeroSolver
<1>3. Conclude(zero', 0, cube, exclude, needsModel)
  BY DEF SolveFrameZero
<1>4. StoresFit(stores') /\ answer' \in Replies(0, cube, exclude)
  BY <1>0, <1>2, <1>3, Concluded
<1>5. budget' \in 0..QueryBudget
  BY Charging DEF SolveFrameZero
<1> QED BY <1>1, <1>4, <1>5 DEF SolveFrameZero, CachesRight, KeptByQuery, ZeroFits

\* A pool after a query.
LEMMA PoolsAsked ==
  ASSUME CachesRight, NEW l \in 1..Top, NEW cube \in Targets, NEW exclude,
         NEW ps, ps = [pools EXCEPT ![l] = PoolAfter(l, QuerySymbols(l, cube, exclude))]
  PROVE  PoolsFit(ps) /\ Meet(ps[l].entries[ps[l].selected].solver.facts) = Region(l)
<1> DEFINE p == PoolAfter(l, QuerySymbols(l, cube, exclude))
<1>0. /\ FramesRight /\ PoolsFit(pools) /\ PoolRight(pools[l], l) /\ l \in Levels
      /\ cube \in Clauses /\ Base(l) = Property[run]
  BY CacheConstants DEF CachesRight, PoolsFit, Base
<1>1. Covers(QuerySymbols(l, cube, exclude), frames[l])
  BY <1>0, SurfaceCovers
<1>2. PoolRight(p, l) /\ UpToDate(p.entries[p.selected].solver, frames[l], Property[run])
  BY <1>0, <1>1, PoolAfterRight
<1> HIDE DEF p
<1>3. ps = [pools EXCEPT ![l] = p] /\ pools = [j \in 1..Top |-> pools[j]]
  BY <1>0 DEF p, PoolsFit
<1>4. ps[l] = p /\ \A j \in 1..Top : j # l => ps[j] = pools[j]
  BY <1>3
<1>5. PoolsFit(ps)
  <2>1. ps = [j \in 1..Top |-> ps[j]]
    BY <1>3
  <2> QED BY <1>0, <1>2, <1>4, <2>1 DEF PoolsFit
<1>6. Meet(p.entries[p.selected].solver.facts) = Region(l)
  BY <1>0, <1>2, UpToDateMeans
<1> QED BY <1>4, <1>5, <1>6

LEMMA SharedSolving ==
  ASSUME CachesRight, NEW l \in 1..Top, NEW cube \in Targets, NEW exclude \in BOOLEAN,
         NEW needsModel, SolveShared(l, cube, exclude, needsModel)
  PROVE  KeptByQuery /\ answer' \in Replies(l, cube, exclude)
<1>0. l \in Levels /\ FramesRight /\ StoresFit(stores)
  BY CacheConstants DEF CachesRight
<1> DEFINE solver == pools'[l].entries[pools'[l].selected].solver
<1>1. PoolsFit(pools') /\ Meet(solver.facts) = Region(l)
  BY PoolsAsked DEF SolveShared
<1>2. Conclude(solver, l, cube, exclude, needsModel)
  BY DEF SolveShared
<1> HIDE DEF solver
<1>3. StoresFit(stores') /\ answer' \in Replies(l, cube, exclude)
  BY <1>0, <1>1, <1>2, Concluded
<1>4. budget' \in 0..QueryBudget
  BY Charging DEF SolveShared
<1> QED BY <1>1, <1>3, <1>4 DEF SolveShared, CachesRight, KeptByQuery

\* The probe answers, or it gives up and the shared solver does.
LEMMA ProbeSolving ==
  ASSUME CachesRight, NEW l \in 1..Top, NEW cube \in Targets, NEW exclude \in BOOLEAN,
         SolveProbe(l, cube, exclude)
  PROVE  KeptByQuery /\ answer' \in Replies(l, cube, exclude)
<1>0. /\ l \in Levels /\ FramesRight /\ StoresFit(stores) /\ ProbesFit(probes)
      /\ cube \in Clauses /\ Base(l) = Property[run]
  BY CacheConstants DEF CachesRight, Base
<1> DEFINE probe == LocalSolver(probes[l], l, QuerySymbols(l, cube, exclude), TRUE)
<1>1. UpToDate(probe, frames[l], Property[run])
  <2>1. Covers(QuerySymbols(l, cube, exclude), frames[l]) /\ ProbeFits(probes[l], l)
    BY <1>0, SurfaceCovers DEF ProbesFit
  <2> QED BY <1>0, <2>1, OwnSolvers
<1>2. probes' = [probes EXCEPT ![l] = probe]
  BY DEF SolveProbe
<1> HIDE DEF probe
<1>3. probes'[l] = probe /\ ProbesFit(probes')
  <2>1. probes = [j \in 1..Top |-> probes[j]] /\ \A j \in 1..Top : ProbeFits(probes[j], j)
    BY <1>0 DEF ProbesFit
  <2>2. ProbeFits(probe, l)
    BY <1>1 DEF ProbeFits, UpToDate
  <2>3. /\ probes'[l] = probe /\ probes' = [j \in 1..Top |-> probes'[j]]
        /\ \A j \in 1..Top : j # l => probes'[j] = probes[j]
    BY <1>2, <2>1
  <2> QED BY <2>1, <2>2, <2>3 DEF ProbesFit
<1>4. budget' \in 0..QueryBudget
  BY Charging DEF SolveProbe
<1>5. Meet(probe.facts) = Region(l)
  BY <1>0, <1>1, UpToDateMeans
<1> DEFINE solver == pools'[l].entries[pools'[l].selected].solver
<1>6. CASE /\ \E entry \in Outcomes(Meet(probes'[l].facts), cube, exclude, FALSE) :
                /\ answer' = Told(Query(l, cube, exclude), entry)
                /\ stores' = [stores EXCEPT ![StoreOf(l)] = Remember(@, l, cube, exclude, entry)]
           /\ UNCHANGED pools
  <2>1. PICK entry \in Outcomes(Meet(probe.facts), cube, exclude, FALSE) :
          /\ answer' = Told(Query(l, cube, exclude), entry)
          /\ stores' = [stores EXCEPT ![StoreOf(l)] = Remember(@, l, cube, exclude, entry)]
    BY <1>3, <1>6
  <2>2. Answered(entry, Region(l), cube, exclude)
    BY <1>0, <1>5, <2>1, OutcomesRight, RegionIs
  <2>3. StoresFit(stores') /\ answer' \in Replies(l, cube, exclude)
    BY <1>0, <2>1, <2>2, Remembered
  <2> QED BY <1>3, <1>4, <1>6, <2>3 DEF SolveProbe, CachesRight, KeptByQuery
<1>7. CASE /\ pools' = [pools EXCEPT ![l] = PoolAfter(l, QuerySymbols(l, cube, exclude))]
           /\ Conclude(solver, l, cube, exclude, FALSE)
  <2>1. PoolsFit(pools') /\ Meet(solver.facts) = Region(l)
    BY <1>7, PoolsAsked
  <2> HIDE DEF solver
  <2>2. StoresFit(stores') /\ answer' \in Replies(l, cube, exclude)
    BY <1>0, <1>7, <2>1, Concluded
  <2> QED BY <1>3, <1>4, <2>1, <2>2 DEF SolveProbe, CachesRight, KeptByQuery
<1> QED BY <1>6, <1>7 DEF SolveProbe

LEMMA UncachedSolving ==
  ASSUME CachesRight, NEW l \in 1..Top, NEW cube \in Targets, NEW exclude \in BOOLEAN,
         NEW needsModel, SolveUncached(l, cube, exclude, needsModel)
  PROVE  KeptByQuery /\ answer' \in Replies(l, cube, exclude)
<1>0. /\ l \in Levels /\ FramesRight /\ StoresFit(stores)
      /\ cube \in Clauses /\ Base(l) = Property[run]
  BY CacheConstants DEF CachesRight, Base
<1> DEFINE solver == NewSolver(l, QuerySymbols(l, cube, exclude), TRUE)
<1>1. UpToDate(solver, frames[l], Property[run])
  BY <1>0, SurfaceCovers, OwnSolvers
<1>2. Meet(solver.facts) = Region(l)
  BY <1>0, <1>1, UpToDateMeans
<1>3. PICK entry \in Outcomes(Meet(solver.facts), cube, exclude, needsModel) :
        /\ answer' = Told(Query(l, cube, exclude), entry)
        /\ stores' = [stores EXCEPT ![StoreOf(l)] = Remember(@, l, cube, exclude, entry)]
  BY DEF SolveUncached
<1>4. Answered(entry, Region(l), cube, exclude)
  BY <1>0, <1>2, <1>3, OutcomesRight, RegionIs
<1>5. StoresFit(stores') /\ answer' \in Replies(l, cube, exclude)
  BY <1>0, <1>3, <1>4, Remembered
<1>6. budget' \in 0..QueryBudget
  BY Charging DEF SolveUncached
<1> QED BY <1>5, <1>6 DEF SolveUncached, CachesRight, KeptByQuery

\* findPredecessorCube: whichever way a query is answered, the answer is right.
LEMMA Asking ==
  ASSUME CachesRight, NEW q \in Asked, NEW cube \in Targets, q[2] # "bad",
         AskPredecessor(q[1], cube, q[2])
  PROVE  /\ KeptByQuery
         /\ \E l \in Levels, exclude \in BOOLEAN : answer' \in Replies(l, cube, exclude)
<1> DEFINE l == q[1]
<1>0. l \in Levels /\ (l > 0 => l \in 1..Top)
  BY AskedAssumption, CacheConstants
<1>1. PICK exclude \in BOOLEAN, needsModel \in BOOLEAN :
        \/ AnswerFromStore(l, cube, exclude, needsModel)
        \/ AnswerFromStable(l, cube, exclude)
        \/ AnswerFromCore(l, cube, exclude, needsModel)
        \/ GiveUp(l, cube, exclude, needsModel)
        \/ l = 0 /\ SolveFrameZero(cube, exclude, needsModel)
        \/ l > 0 /\ SolveShared(l, cube, exclude, needsModel)
        \/ l > 0 /\ SolveProbe(l, cube, exclude)
        \/ l > 0 /\ SolveUncached(l, cube, exclude, needsModel)
  <2> DEFINE X == q[2] # "propagate"
             M == q[2] = "block"
  <2>1. X \in BOOLEAN /\ M \in BOOLEAN
    OBVIOUS
  <2>2. \/ AnswerFromStore(l, cube, X, M)
        \/ AnswerFromStable(l, cube, X)
        \/ AnswerFromCore(l, cube, X, M)
        \/ GiveUp(l, cube, X, M)
        \/ l = 0 /\ SolveFrameZero(cube, X, M)
        \/ l > 0 /\ SolveShared(l, cube, X, M)
        \/ l > 0 /\ SolveProbe(l, cube, X)
        \/ l > 0 /\ SolveUncached(l, cube, X, M)
    BY Zenon DEF AskPredecessor
  <2> HIDE DEF X, M, l
  <2> QED BY <2>1, <2>2, Zenon
<1> HIDE DEF l
<1>2. KeptByQuery /\ answer' \in Replies(l, cube, exclude)
  <2>1. CASE AnswerFromStore(l, cube, exclude, needsModel)
    BY <1>0, <2>1, StoreSolving
  <2>2. CASE AnswerFromStable(l, cube, exclude)
    BY <1>0, <2>2, StableSolving
  <2>3. CASE AnswerFromCore(l, cube, exclude, needsModel)
    BY <1>0, <2>3, CoreSolving
  <2>4. CASE GiveUp(l, cube, exclude, needsModel)
    BY <1>0, <2>4, GivingUp
  <2>5. CASE l = 0 /\ SolveFrameZero(cube, exclude, needsModel)
    BY <2>5, ZeroSolving
  <2>6. CASE l > 0 /\ SolveShared(l, cube, exclude, needsModel)
    BY <1>0, <2>6, SharedSolving
  <2>7. CASE l > 0 /\ SolveProbe(l, cube, exclude)
    BY <1>0, <2>7, ProbeSolving
  <2>8. CASE l > 0 /\ SolveUncached(l, cube, exclude, needsModel)
    BY <1>0, <2>8, UncachedSolving
  <2> QED BY <1>1, <2>1, <2>2, <2>3, <2>4, <2>5, <2>6, <2>7, <2>8
<1> QED BY <1>0, <1>2

\* findBadCubeForFormula in F[0] and above.
LEMMA BadInFrameZero ==
  ASSUME CachesRight, FindBadInFrameZero
  PROVE  KeptByQuery /\ answer' \in BadReplies(0)
<1>0. 0 \in Levels /\ FramesRight /\ StartStates \subseteq Allowed(frames[0].clauses)
  BY CacheConstants DEF CachesRight, FramesRight
<1>1. ZeroSolver(zero')
  BY <1>0, ZeroTracks DEF FindBadInFrameZero, CachesRight, ZeroFits
<1>2. BadRegion(0) = Meet(zero'.facts) \ Property[run]
  BY <1>0, <1>1, RegionIs DEF ZeroSolver
<1>3. answer' \in BadReplies(0)
  BY <1>2 DEF FindBadInFrameZero, BadReply, BadReplies
<1> QED BY <1>1, <1>3 DEF FindBadInFrameZero, CachesRight, KeptByQuery, ZeroFits, FramesRight

LEMMA BadAbove ==
  ASSUME CachesRight, NEW l \in 1..Top, FindBad(l)
  PROVE  KeptByQuery /\ answer' \in BadReplies(l)
<1>0. l \in Levels /\ l # 0 /\ FramesRight
  BY CacheConstants DEF CachesRight
<1> DEFINE symbols == BadSymbols(l)
<1>1. Covers(symbols, frames[l])
  BY <1>0, SurfaceCovers
<1> HIDE DEF symbols
<1>2. /\ badSolver' \in [level : 1..Top, solver : Solver] /\ badSolver'.level = l
      /\ UpToDate(badSolver'.solver, frames[l], States)
  <2>1. CASE badSolver # Absent /\ badSolver.level = l /\ badSolver.solver.symbols = symbols
    <3> DEFINE old == badSolver.solver
               new == Synchronize(old, l, FALSE)
    <3>1. badSolver' = [badSolver EXCEPT !.solver = new]
      BY <2>1 DEF FindBad, symbols
    <3>2. /\ badSolver \in [level : 1..Top, solver : Solver] /\ old \in Solver
          /\ old.symbols = symbols /\ Tracks(old, frames[l], States)
      BY <2>1 DEF CachesRight, BadFits
    <3> HIDE DEF old
    <3>3. UpToDate(new, frames[l], States)
      BY <1>0, <1>1, <3>2, OwnSolvers
    <3>4. new \in Solver
      BY <3>3 DEF UpToDate
    <3> HIDE DEF new
    <3> QED BY <2>1, <3>1, <3>2, <3>3, <3>4
  <2>2. CASE ~(badSolver # Absent /\ badSolver.level = l /\ badSolver.solver.symbols = symbols)
    <3> DEFINE new == NewSolver(l, symbols, FALSE)
    <3>1. badSolver' = [level |-> l, solver |-> new]
      BY <2>2 DEF FindBad, symbols
    <3>2. UpToDate(new, frames[l], States)
      BY <1>0, <1>1, OwnSolvers
    <3>3. new \in Solver
      BY <3>2 DEF UpToDate
    <3> HIDE DEF new
    <3> QED BY <3>1, <3>2, <3>3
  <2> QED BY <2>1, <2>2
<1>3. BadRegion(l) = Meet(badSolver'.solver.facts) \ Property[run]
  BY <1>0, <1>2, RegionIs DEF UpToDate
<1>4. answer' \in BadReplies(l)
  BY <1>3 DEF FindBad, BadReply, BadReplies
<1>5. BadFits(badSolver')
  BY <1>2 DEF BadFits, UpToDate
<1> QED BY <1>4, <1>5 DEF FindBad, CachesRight, KeptByQuery, FramesRight

\* What fits the frames still does when they have not changed.
LEMMA KeptMeans ==
  ASSUME CachesRight, KeptByQuery
  PROVE  CachesRight'
<1>0. run' = run /\ frames' = frames /\ budget' \in 0..QueryBudget
  BY DEF KeptByQuery
<1>1. FramesRight'
  BY <1>0 DEF FramesRight, CachesRight
<1>2. ZeroFits(zero)'
  BY DEF KeptByQuery, ZeroFits
<1>3. PoolsFit(pools)'
  BY <1>0 DEF KeptByQuery, PoolsFit, PoolRight, PoolTyped
<1>4. ProbesFit(probes)'
  BY <1>0 DEF KeptByQuery, ProbesFit, ProbeFits
<1>5. BadFits(badSolver)'
  BY <1>0 DEF KeptByQuery, BadFits
<1>6. StoresFit(stores)'
  <2>1. \A l : Region(l)' = Region(l)
    BY <1>0 DEF Region, FrameFacts
  <2>2. ASSUME NEW k
        PROVE  /\ Cells(k)' = Cells(k) /\ Impossible(k)' = Impossible(k)
               /\ DeadCores(k)' = DeadCores(k)
    BY <1>0, <2>1 DEF Cells, RegionWith, Base, Impossible, DeadCores
  <2>3. ASSUME NEW k \in StoreNames PROVE GoodStore(stores[k], k)'
    <3>1. GoodStore(stores'[k], k)
      BY DEF KeptByQuery, StoresFit
    <3> QED BY <2>2, <3>1 DEF GoodStore
  <2> QED BY <2>3 DEF KeptByQuery, StoresFit
<1> QED BY <1>1, <1>2, <1>3, <1>4, <1>5, <1>6 DEF CachesRight

-----------------------------------------------------------------------------
(* The engine between two queries *)

\* Region and BadRegion of the next state, for frames of one run.
LEMMA RegionNext ==
  ASSUME run' = run, NEW l
  PROVE  /\ Region(l)' = Meet(FrameFacts(l, TRUE)) \cap Allowed(frames'[l].clauses)
         /\ Region(l) = Meet(FrameFacts(l, TRUE)) \cap Allowed(frames[l].clauses)
         /\ BadRegion(l)' = (Meet(FrameFacts(l, FALSE)) \cap Allowed(frames'[l].clauses)) \ Property[run]
         /\ BadRegion(l) = (Meet(FrameFacts(l, FALSE)) \cap Allowed(frames[l].clauses)) \ Property[run]
<1>1. FrameFacts(l, TRUE)' = FrameFacts(l, TRUE) /\ FrameFacts(l, FALSE)' = FrameFacts(l, FALSE)
  BY DEF FrameFacts
<1>2. /\ Region(l)' = Meet(FrameFacts(l, TRUE) \cup {Admits(c) : c \in frames'[l].clauses})
      /\ BadRegion(l)' = Meet(FrameFacts(l, FALSE) \cup {Admits(c) : c \in frames'[l].clauses}) \ Property[run]
  BY <1>1 DEF Region, BadRegion
<1> QED BY <1>2, MeetAdmits DEF Region, BadRegion

\* FrameSequence::addClauseUpTo: the frames of a run only get stronger, and what
\* was true of them stays true.
LEMMA Learning ==
  ASSUME CachesRight, NEW l \in Levels, NEW c \in Learnable, Learn(l, c)
  PROVE  /\ CachesRight' /\ run' = run /\ answer' = Silent
         /\ \A k \in Levels : Region(k)' \subseteq Region(k) /\ BadRegion(k)' \subseteq BadRegion(k)
<1>0. /\ FramesRight /\ frames \in [Levels -> Frame] /\ run' = run /\ answer' = Silent
      /\ UNCHANGED <<zero, pools, probes, badSolver, stores, budget>>
      /\ StartStates \subseteq Admits(c) /\ 0 \in Levels
  BY CacheConstants DEF CachesRight, FramesRight, Learn, MayLearn
<1>1. /\ frames' = [k \in Levels |-> frames'[k]]
      /\ \A k \in Levels : frames'[k] \in {frames[k], AddClauseToFrame(frames[k], c)}
  <2>1. CASE l = 0
    BY <1>0, <2>1 DEF Learn
  <2>2. CASE l # 0
    <3>1. frames' = [k \in Levels |-> IF k \in 1..l THEN AddClauseToFrame(frames[k], c) ELSE frames[k]]
      BY <2>2 DEF Learn
    <3> QED BY <3>1
  <2> QED BY <2>1, <2>2
<1>2. ASSUME NEW k \in Levels
      PROVE  /\ frames'[k] \in Frame /\ LogImplied(frames'[k])
             /\ Allowed(frames'[k].clauses) \subseteq Allowed(frames[k].clauses)
             /\ Allowed(frames[k].clauses) \cap Admits(c) \subseteq Allowed(frames'[k].clauses)
             /\ \A solver \in Solver : \A base :
                  Tracks(solver, frames[k], base) => Tracks(solver, frames'[k], base)
  <2>1. frames[k] \in Frame /\ LogImplied(frames[k])
    BY <1>0 DEF FramesRight
  <2>2. CASE frames'[k] = frames[k]
    BY <2>1, <2>2
  <2>3. CASE frames'[k] = AddClauseToFrame(frames[k], c)
    BY <2>1, <2>3, AddClauseTracked
  <2> QED BY <1>1, <2>2, <2>3
<1>3. FramesRight'
  <2>1. frames' \in [Levels -> Frame]
    BY <1>1, <1>2
  <2>2. StartStates \subseteq Allowed(frames'[0].clauses)
    BY <1>0, <1>2 DEF FramesRight
  <2> QED BY <1>0, <1>2, <2>1, <2>2 DEF FramesRight
<1>4. ASSUME NEW k \in Levels
      PROVE  Region(k)' \subseteq Region(k) /\ BadRegion(k)' \subseteq BadRegion(k)
  BY <1>0, <1>2, RegionNext
<1>5. ZeroFits(zero)'
  BY <1>0 DEF CachesRight, ZeroFits
<1>6. \A k \in 1..Top : k \in Levels
  BY CacheConstants
<1>7. PoolsFit(pools)'
  <2>1. ASSUME NEW k \in 1..Top PROVE PoolRight(pools[k], k)'
    <3>1. PoolRight(pools[k], k)
      BY DEF CachesRight, PoolsFit
    <3>2. PoolTyped(pools[k])'
      BY <1>0, <3>1 DEF PoolRight, PoolTyped
    <3>3. \A solver \in Solver : Tracks(solver, frames[k], Property[run]) =>
                                 Tracks(solver, frames'[k], Property[run])
      BY <1>2, <1>6
    <3> QED BY <1>0, <3>1, <3>2, <3>3 DEF PoolRight
  <2> QED BY <1>0, <2>1 DEF CachesRight, PoolsFit
<1>8. ProbesFit(probes)'
  <2>1. ASSUME NEW k \in 1..Top PROVE ProbeFits(probes[k], k)'
    <3>1. ProbeFits(probes[k], k)
      BY DEF CachesRight, ProbesFit
    <3> QED BY <1>0, <1>2, <1>6, <3>1 DEF ProbeFits
  <2> QED BY <1>0, <2>1 DEF CachesRight, ProbesFit
<1>9. BadFits(badSolver)'
  <2>1. CASE badSolver = Absent
    BY <1>0, <2>1 DEF BadFits
  <2>2. CASE badSolver # Absent
    <3>1. /\ badSolver \in [level : 1..Top, solver : Solver]
          /\ Tracks(badSolver.solver, frames[badSolver.level], States)
      BY <2>2 DEF CachesRight, BadFits
    <3>2. badSolver.level \in Levels /\ badSolver.solver \in Solver
      BY <1>6, <3>1
    <3>3. Tracks(badSolver.solver, frames'[badSolver.level], States)
      BY <1>2, <3>1, <3>2
    <3> QED BY <1>0, <3>1, <3>3 DEF BadFits
  <2> QED BY <2>1, <2>2
<1>10. StoresFit(stores)'
  <2>1. ASSUME NEW k
        PROVE  /\ Cells(k)' = Cells(k) /\ Impossible(k) \subseteq Impossible(k)'
               /\ DeadCores(k) \subseteq DeadCores(k)'
    <3>1. Cells(k)' = Cells(k)
      BY <1>0 DEF Cells, RegionWith, Base
    <3>2. \A j \in Levels : \A cube, exclude :
            Within(Region(j), cube, exclude) = {} => Within(Region(j)', cube, exclude) = {}
      BY <1>4, WithinMonotone
    <3>3. Impossible(k) \subseteq Impossible(k)'
      BY <3>2 DEF Impossible
    <3>4. DeadCores(k) \subseteq DeadCores(k)'
      BY <3>2 DEF DeadCores
    <3> QED BY <3>1, <3>3, <3>4
  <2>2. ASSUME NEW k \in StoreNames PROVE GoodStore(stores[k], k)'
    <3>1. GoodStore(stores[k], k)
      BY DEF CachesRight, StoresFit
    <3> DEFINE st == stores[k]
    <3>2. /\ st \in [exact : Seq(Cells(k)), unsat : SUBSET Impossible(k), cores : SUBSET DeadCores(k)]
          /\ Len(st.exact) <= ExactLimit
          /\ IsFiniteSet(st.unsat) /\ Cardinality(st.unsat) <= UnsatLimit
      BY <3>1 DEF GoodStore
    <3>3. st' = st
      BY <1>0
    <3> HIDE DEF st
    <3>4. st \in [exact : Seq(Cells(k)'), unsat : SUBSET Impossible(k)', cores : SUBSET DeadCores(k)']
      BY <2>1, <3>2
    <3> QED BY <3>2, <3>3, <3>4 DEF GoodStore, st
  <2> QED BY <1>0, <2>2 DEF CachesRight, StoresFit
<1> QED BY <1>0, <1>3, <1>4, <1>5, <1>7, <1>8, <1>9, <1>10 DEF CachesRight

\* Frames that have learned nothing yet.
LEMMA NewFramesRight ==
  /\ NewFrames \in [Levels -> Frame]
  /\ \A l \in Levels : LogImplied(NewFrames[l])
  /\ 0 \in Levels /\ NewFrames[0].clauses = {} /\ Allowed({}) = States
<1>1. <<>> \in Seq(Learnable) /\ ToSet(<<>>) = {}
  <2>1. <<>> \in Seq(Learnable) /\ Len(<<>>) = 0
    BY EmptySeq
  <2>2. DOMAIN <<>> = {}
    BY <2>1, LenProperties
  <2> QED BY <2>1, <2>2 DEF ToSet
<1>2. \A l \in Levels : /\ NewFrames[l].log = <<>>
                        /\ NewFrames[l].clauses = IF l = 0 THEN {} ELSE Seeds
                        /\ NewFrames[l] \in Frame
  BY <1>1 DEF NewFrames, Frame
<1>3. NewFrames \in [Levels -> Frame]
  BY <1>2 DEF NewFrames
<1>4. \A l \in Levels : LogImplied(NewFrames[l])
  BY <1>1, <1>2 DEF LogImplied
<1> QED BY <1>2, <1>3, <1>4, AllowedFacts, CacheConstants

LEMMA EmptyStoreGood ==
  ASSUME NEW k
  PROVE  GoodStore(EmptyStore, k)
<1>1. <<>> \in Seq(Cells(k)) /\ Len(<<>>) = 0
  BY EmptySeq
<1>2. IsFiniteSet({}) /\ Cardinality({}) = 0
  BY FS_EmptySet
<1>3. 0 <= ExactLimit /\ 0 <= UnsatLimit
  BY CacheConstants
<1>4. EmptyStore.exact = <<>> /\ EmptyStore.unsat = {} /\ EmptyStore.cores = {}
  BY DEF EmptyStore
<1>5. EmptyStore \in [exact : Seq(Cells(k)), unsat : SUBSET Impossible(k), cores : SUBSET DeadCores(k)]
  BY <1>1 DEF EmptyStore
<1> QED BY <1>1, <1>2, <1>3, <1>4, <1>5 DEF GoodStore

LEMMA Starting ==
  ASSUME Init
  PROVE  CachesRight /\ answer = Silent
<1>1. FramesRight
  BY NewFramesRight, CacheConstants DEF Init, FramesRight
<1>2. ZeroFits(zero) /\ BadFits(badSolver)
  BY DEF Init, ZeroFits, BadFits
<1>3. ProbesFit(probes)
  BY DEF Init, ProbesFit, ProbeFits
<1>4. PoolsFit(pools)
  <2> DEFINE pool == [run |-> 0, selected |-> 0, sequence |-> 0, entries |-> <<>>]
  <2>1. pools = [l \in 1..Top |-> pool] /\ run = 1
    BY DEF Init
  <2>2. /\ <<>> \in Seq(PoolEntry) /\ <<>> \in Seq(GoodEntries(0, 0))
        /\ Len(<<>>) = 0 /\ 0 <= PoolLimit /\ 0 \in 0..Runs
    BY EmptySeq, CacheConstants
  <2>3. PoolTyped(pool) /\ pool.run # run
    <3>1. pool \in [run : 0..Runs, selected : Nat, sequence : Nat, entries : Seq(PoolEntry)]
      BY <2>2
    <3>2. pool.run = 0 /\ pool.selected = 0 /\ pool.sequence = 0 /\ pool.entries = <<>>
      OBVIOUS
    <3> HIDE DEF pool
    <3> QED BY <2>1, <2>2, <3>1, <3>2 DEF PoolTyped
  <2> HIDE DEF pool
  <2>4. \A l \in 1..Top : PoolRight(pool, l)
    BY <2>3 DEF PoolRight
  <2> QED BY <2>1, <2>4 DEF PoolsFit
<1>5. StoresFit(stores)
  <2>1. stores = [k \in StoreNames |-> EmptyStore]
    BY DEF Init, StoreNames
  <2>2. \A k \in StoreNames : stores[k] = EmptyStore
    BY <2>1
  <2>3. stores = [k \in StoreNames |-> stores[k]]
    BY <2>1
  <2> QED BY <2>2, <2>3, EmptyStoreGood DEF StoresFit
<1> QED BY <1>1, <1>2, <1>3, <1>4, <1>5 DEF CachesRight, Init

\* The next batch keeps what is shared: the solvers of the pools are not of its
\* run, and F[0] is the same set of states.
LEMMA Advancing ==
  ASSUME CachesRight, NextRun
  PROVE  CachesRight' /\ answer' = Silent /\ Region(0)' = Region(0)
<1>0. /\ FramesRight /\ run \in 1..Runs /\ run' = run + 1 /\ run' \in 1..Runs /\ run \in Nat
      /\ frames' = NewFrames /\ budget' = QueryBudget /\ answer' = Silent
      /\ zero' = zero /\ pools' = pools /\ badSolver' = Absent
      /\ probes' = [l \in 1..Top |-> Absent]
      /\ stores' = [stores EXCEPT !["run"] = EmptyStore]
  <2>1. FramesRight /\ run \in 1..Runs /\ run < Runs /\ run' = run + 1 /\ Runs \in Nat
    BY CacheConstants DEF CachesRight, FramesRight, NextRun
  <2> QED BY <2>1 DEF NextRun
<1>1. FramesRight'
  BY <1>0, NewFramesRight, CacheConstants DEF FramesRight
<1>2. ZeroFits(zero)' /\ BadFits(badSolver)'
  BY <1>0 DEF CachesRight, ZeroFits, BadFits
<1>3. ProbesFit(probes)'
  BY <1>0 DEF ProbesFit, ProbeFits
<1>4. PoolsFit(pools)'
  <2>1. ASSUME NEW l \in 1..Top PROVE PoolRight(pools[l], l)'
    <3>1. PoolTyped(pools[l])
      BY DEF CachesRight, PoolsFit, PoolRight
    <3> DEFINE pool == pools[l]
    <3>2. /\ pool.run <= run /\ pool.run \in Nat
          /\ pool \in [run : 0..Runs, selected : Nat, sequence : Nat, entries : Seq(PoolEntry)]
          /\ pool.entries \in Seq(GoodEntries(pool.run, pool.sequence))
          /\ Len(pool.entries) <= PoolLimit
          /\ pool.selected <= Len(pool.entries)
      BY <3>1, CacheConstants DEF PoolTyped
    <3>3. pool' = pool
      BY <1>0
    <3> HIDE DEF pool
    <3>4. pool.run <= run' /\ pool.run # run'
      BY <1>0, <3>2
    <3>5. PoolTyped(pool)'
      BY <3>2, <3>3, <3>4 DEF PoolTyped
    <3>6. PoolRight(pool, l)'
      BY <3>3, <3>4, <3>5 DEF PoolRight
    <3> QED BY <3>6 DEF pool
  <2> QED BY <1>0, <2>1 DEF CachesRight, PoolsFit
<1>5. Region(0) = StartStates /\ Region(0)' = StartStates
  <2>1. Region(0) = StartStates
    BY <1>0, NewFramesRight, RegionIs
  <2>2. Region(0)' = Meet({StartStates} \cup {Admits(c) : c \in frames'[0].clauses})
    BY DEF Region, FrameFacts
  <2>3. Region(0)' = Meet({StartStates}) \cap Allowed({})
    BY <1>0, <2>2, MeetAdmits, NewFramesRight
  <2>4. Meet({StartStates}) = StartStates /\ StartStates \subseteq States
    BY CacheConstants DEF Meet
  <2> QED BY <2>1, <2>3, <2>4, NewFramesRight
<1>6. StoresFit(stores)'
  <2>1. /\ Cells("zero")' = Cells("zero") /\ Impossible("zero")' = Impossible("zero")
        /\ DeadCores("zero")' = DeadCores("zero")
    <3>1. \A l : StoreOf(l) = "zero" => l = 0
      BY DEF StoreOf
    <3>2. \A F : RegionWith(0, F)' = RegionWith(0, F)
      BY DEF RegionWith, Base
    <3>3. Cells("zero")' = Cells("zero")
      BY <3>1, <3>2 DEF Cells
    <3>4. Impossible("zero")' = Impossible("zero")
      BY <1>5, <3>1 DEF Impossible
    <3>5. DeadCores("zero")' = DeadCores("zero")
      BY <1>5, <3>1 DEF DeadCores
    <3> QED BY <3>3, <3>4, <3>5
  <2>2. GoodStore(stores["zero"], "zero")'
    <3>1. GoodStore(stores["zero"], "zero") /\ stores'["zero"] = stores["zero"]
      BY <1>0 DEF CachesRight, StoresFit, StoreNames
    <3> QED BY <2>1, <3>1 DEF GoodStore
  <2>3. GoodStore(stores["run"], "run")'
    <3>1. stores'["run"] = EmptyStore
      BY <1>0 DEF CachesRight, StoresFit, StoreNames
    <3>2. <<>> \in Seq(Cells("run")') /\ Len(<<>>) = 0
      BY EmptySeq
    <3>3. IsFiniteSet({}) /\ Cardinality({}) = 0 /\ 0 <= ExactLimit /\ 0 <= UnsatLimit
      BY FS_EmptySet, CacheConstants
    <3>4. EmptyStore.exact = <<>> /\ EmptyStore.unsat = {} /\ EmptyStore.cores = {}
      BY DEF EmptyStore
    <3>5. EmptyStore \in [exact : Seq(Cells("run")'), unsat : SUBSET Impossible("run")',
                          cores : SUBSET DeadCores("run")']
      BY <3>2 DEF EmptyStore
    <3> QED BY <3>1, <3>2, <3>3, <3>4, <3>5 DEF GoodStore
  <2> QED BY <1>0, <2>2, <2>3 DEF CachesRight, StoresFit, StoreNames
<1> QED BY <1>0, <1>1, <1>2, <1>3, <1>4, <1>5, <1>6 DEF CachesRight

\* Every step keeps the caches right, and gives an answer the caller may get, or
\* strengthens the frames, or begins the next batch.
LEMMA Stepping ==
  ASSUME CachesRight, Next
  PROVE  /\ CachesRight'
         /\ \/ /\ run' = run /\ frames' = frames
               /\ \/ \E l \in Levels, cube \in Targets, exclude \in BOOLEAN :
                       answer' \in Replies(l, cube, exclude)
                  \/ \E l \in Levels : answer' \in BadReplies(l)
            \/ /\ answer' = Silent
               /\ \A k \in Levels : Region(k)' \subseteq Region(k) /\ BadRegion(k)' \subseteq BadRegion(k)
            \/ answer' = Silent /\ Region(0)' = Region(0)
<1>1. CASE \E q \in Asked, cube \in Targets : q[2] # "bad" /\ AskPredecessor(q[1], cube, q[2])
  BY <1>1, Asking, KeptMeans DEF KeptByQuery
<1>2. CASE FindBadInFrameZero
  <2>1. 0 \in Levels
    BY CacheConstants
  <2> QED BY <1>2, <2>1, BadInFrameZero, KeptMeans DEF KeptByQuery
<1>3. CASE \E l \in 1..Top : FindBad(l)
  <2>1. \A l \in 1..Top : l \in Levels
    BY CacheConstants
  <2> QED BY <1>3, <2>1, BadAbove, KeptMeans DEF KeptByQuery
<1>4. CASE \E l \in Levels, c \in Learnable : Learn(l, c)
  BY <1>4, Learning
<1>5. CASE NextRun
  BY <1>5, Advancing
<1> QED BY <1>1, <1>2, <1>3, <1>4, <1>5 DEF Next

\* A step that changes nothing.
LEMMA Resting ==
  ASSUME CachesRight, UNCHANGED vars
  PROVE  CachesRight' /\ frames' = frames /\ run' = run /\ answer' = answer
<1>1. KeptByQuery
  BY DEF vars, KeptByQuery, CachesRight, FramesRight
<1>2. UNCHANGED <<run, frames, answer>>
  BY DEF vars
<1> QED BY <1>1, <1>2, KeptMeans

-----------------------------------------------------------------------------
(* The caches of a run *)

\* The solvers, stores and frames of every reachable state fit one another:
\* prepareGuardedPredecessorFrameContext, addNewPredecessorFrameClauses and
\* rememberPredecessorQueryResult keep this up.
THEOREM CachesStayRight == Spec => []CachesRight
<1>1. Init => CachesRight
  BY Starting
<1>2. CachesRight /\ [Next]_vars => CachesRight'
  BY Stepping, Resting
<1> QED BY <1>1, <1>2, PTL DEF Spec

\* The limits of trimPredecessorQueryResultCache and of the solver pools.
LEMMA Bounded ==
  ASSUME CachesRight
  PROVE  TypeOK
<1>1. FramesRight /\ DOMAIN stores = StoreNames /\ \A k \in StoreNames : GoodStore(stores[k], k)
  BY DEF CachesRight, StoresFit
<1>2. \A l \in Levels : /\ frames[l].clauses \subseteq Learnable \cup Seeds
                        /\ ToSet(frames[l].log) \subseteq Learnable
  <2>1. \A q \in Seq(Learnable) : ToSet(q) \subseteq Learnable
    BY DEF ToSet
  <2>2. \A l \in Levels : frames[l] \in Frame
    BY <1>1 DEF FramesRight
  <2> QED BY <2>1, <2>2 DEF Frame
<1>3. \A k \in DOMAIN stores : /\ Len(stores[k].exact) <= ExactLimit
                               /\ Cardinality(stores[k].unsat) <= UnsatLimit
  BY <1>1 DEF GoodStore
<1>4. ASSUME NEW l \in 1..Top
      PROVE  /\ Len(pools[l].entries) <= PoolLimit
             /\ pools[l].selected \in 0..Len(pools[l].entries)
             /\ NoNested => \A i \in DOMAIN pools[l].entries :
                  pools[l].entries[i].solver = Absent
                    \/ pools[l].entries[i].solver.contexts <= ContextLimit
  <2> DEFINE pool == pools[l]
             q == pool.entries
  <2>1. PoolTyped(pool)
    BY DEF CachesRight, PoolsFit, PoolRight
  <2> HIDE DEF pool
  <2>2. /\ q \in Seq(GoodEntries(pool.run, pool.sequence)) /\ Len(q) <= PoolLimit
        /\ pool.selected \in Nat /\ pool.selected <= Len(q) /\ Len(q) \in Nat
    BY <2>1, LenProperties DEF PoolTyped
  <2>3. \A i \in DOMAIN q : q[i] \in GoodEntries(pool.run, pool.sequence)
    BY <2>2
  <2> HIDE DEF q
  <2>4. NoNested => \A i \in DOMAIN q : q[i].solver = Absent \/ q[i].solver.contexts <= ContextLimit
    BY <2>3 DEF GoodEntries
  <2>5. pool.selected \in 0..Len(q)
    BY <2>2
  <2> QED BY <2>2, <2>4, <2>5 DEF pool, q
<1>5. run \in 1..Runs /\ budget \in 0..QueryBudget
  BY <1>1 DEF FramesRight
<1> QED BY <1>2, <1>3, <1>4, <1>5 DEF TypeOK, NoNested

\* A solver whose fingerprint is the frame's admits the states of the frame.
LEMMA SolversRight ==
  ASSUME CachesRight
  PROVE  SolversMatchFrames
<1>1. FramesRight /\ Top \in Nat
  BY CacheConstants DEF CachesRight
<1>2. zero # Absent => Meet(zero.facts) = StartStates
  BY DEF CachesRight, ZeroFits, ZeroSolver
<1>3. ASSUME NEW l \in 1..Top, NEW solver, Tracks(solver, frames[l], Property[run]),
             solver.fingerprint = Fingerprint(l)
      PROVE  Meet(solver.facts) = Region(l)
  <2>1. l \in Levels /\ l # 0
    BY <1>1
  <2>2. Region(l) = Property[run] \cap Allowed(frames[l].clauses)
    BY <1>1, <2>1, RegionIs DEF RegionWith, Base
  <2> QED BY <1>3, <2>2 DEF Tracks, Means, Fingerprint
<1>4. ASSUME NEW l \in 1..Top, pools[l].run = run,
             pools[l].entries[pools[l].selected].solver.fingerprint = Fingerprint(l)
      PROVE  Meet(pools[l].entries[pools[l].selected].solver.facts) = Region(l)
  <2> DEFINE solver == pools[l].entries[pools[l].selected].solver
  <2>1. Tracks(solver, frames[l], Property[run])
    BY <1>4 DEF CachesRight, PoolsFit, PoolRight
  <2>2. solver.fingerprint = Fingerprint(l)
    BY <1>4
  <2> HIDE DEF solver
  <2>3. Meet(solver.facts) = Region(l)
    BY <1>3, <2>1, <2>2
  <2> QED BY <2>3 DEF solver
<1>5. ASSUME NEW l \in 1..Top, probes[l] # Absent, probes[l].fingerprint = Fingerprint(l)
      PROVE  Meet(probes[l].facts) = Region(l)
  BY <1>3, <1>5 DEF CachesRight, ProbesFit, ProbeFits
<1>6. ASSUME badSolver # Absent, badSolver.solver.fingerprint = Fingerprint(badSolver.level)
      PROVE  Meet(badSolver.solver.facts) \ Property[run] = BadRegion(badSolver.level)
  <2> DEFINE l == badSolver.level
  <2>1. l \in 1..Top /\ Tracks(badSolver.solver, frames[l], States)
    BY <1>6 DEF CachesRight, BadFits
  <2>2. l \in Levels /\ l # 0
    BY <1>1, <2>1
  <2>3. BadRegion(l) = (States \cap Allowed(frames[l].clauses)) \ Property[run]
    BY <1>1, <2>2, RegionIs
  <2> QED BY <1>6, <2>1, <2>3 DEF Tracks, Means, Fingerprint
<1> QED BY <1>2, <1>4, <1>5, <1>6 DEF SolversMatchFrames

\* What a store holds is true of the frames as they are.
LEMMA AnswersRight ==
  ASSUME CachesRight
  PROVE  RememberedAnswersHold
<1>1. FramesRight /\ DOMAIN stores = StoreNames /\ \A k \in StoreNames : GoodStore(stores[k], k)
  BY DEF CachesRight, StoresFit
<1>2. ASSUME NEW k \in StoreNames, NEW u \in stores[k].unsat
      PROVE  Within(Region(u.level), u.cube, u.exclude) = {}
  BY <1>1, <1>2 DEF GoodStore, Impossible
<1>3. ASSUME NEW k \in StoreNames, NEW c \in stores[k].cores, NEW cube \in Targets,
             SubCube(c.cube, cube)
      PROVE  Within(Region(c.level), cube, FALSE) = {}
  <2>1. Within(Region(c.level), c.cube, FALSE) = {}
    BY <1>1, <1>3 DEF GoodStore, DeadCores
  <2> QED BY <1>3, <2>1, CoreAnswers
<1>4. ASSUME NEW k \in StoreNames, NEW i \in DOMAIN stores[k].exact,
             stores[k].exact[i].key.fingerprint = Fingerprint(stores[k].exact[i].key.level)
      PROVE  LET key == stores[k].exact[i].key
             IN  Right(stores[k].exact[i].entry, Within(Region(key.level), key.cube, key.exclude))
  <2> DEFINE cell == stores[k].exact[i]
  <2>1. cell \in Cells(k)
    BY <1>1, <1>4 DEF GoodStore
  <2>2. cell.key.fingerprint = frames[cell.key.level].clauses
    BY <1>4 DEF Fingerprint
  <2> HIDE DEF cell
  <2>3. cell.key \in ExactKeys
    BY <2>1 DEF Cells
  <2>4. cell.key.level \in Levels
    BY <2>3 DEF ExactKeys
  <2>5. RegionWith(cell.key.level, cell.key.fingerprint) = Region(cell.key.level)
    BY <1>1, <2>2, <2>4, RegionIs
  <2>6. Right(cell.entry, Within(Region(cell.key.level), cell.key.cube, cell.key.exclude))
    BY <2>1, <2>5 DEF Cells
  <2> QED BY <2>6 DEF cell
<1> QED BY <1>1, <1>2, <1>3, <1>4, Zenon DEF RememberedAnswersHold, Right

\* Every solver that thinks it is up to date means its frame, every store holds
\* only what is true of the frames as they are, and no cache outgrows its limit:
\* for every transition model, every order of queries and every series of batches.
THEOREM CacheStaysRight == Spec => []CacheIsRight
<1>1. CachesRight => CacheIsRight
  BY Bounded, SolversRight, AnswersRight DEF CacheIsRight
<1> QED BY <1>1, CachesStayRight, PTL

-----------------------------------------------------------------------------
(* The query layer implements PredecessorQueries *)

\* The refinement mapping: the states and the bad states of the frames.
Regions == [l \in Levels |-> Region(l)]
BadRegions == [l \in Levels |-> BadRegion(l)]

LEMMA RegionsTyped ==
  /\ Regions \in [Levels -> SUBSET States] /\ Regions' \in [Levels -> SUBSET States]
  /\ BadRegions \in [Levels -> SUBSET States] /\ BadRegions' \in [Levels -> SUBSET States]
<1>1. \A l \in Levels : Region(l) \in SUBSET States /\ BadRegion(l) \in SUBSET States
  BY DEF Region, BadRegion, Meet
<1>2. \A l \in Levels : Region(l)' \in SUBSET States /\ BadRegion(l)' \in SUBSET States
  BY DEF Region, BadRegion, Meet
<1> QED BY <1>1, <1>2 DEF Regions, BadRegions

\* A query leaves both alone.
LEMMA RegionsKept ==
  ASSUME run' = run, frames' = frames
  PROVE  Regions' = Regions /\ BadRegions' = BadRegions
<1>1. \A l : Region(l)' = Region(l) /\ BadRegion(l)' = BadRegion(l)
  BY DEF Region, BadRegion, FrameFacts
<1> QED BY <1>1 DEF Regions, BadRegions

\* findPredecessorCube: an answer the caller may get is one the abstract query gives.
LEMMA PredecessorAsked ==
  ASSUME run' = run, frames' = frames, NEW l \in Levels, NEW cube \in Targets,
         NEW exclude \in BOOLEAN, answer' \in Replies(l, cube, exclude)
  PROVE  Queries!AskPredecessor
<1>1. Regions' = Regions /\ BadRegions' = BadRegions
  BY RegionsKept
<1> DEFINE preds == Within(Region(l), cube, exclude)
           query == Query(l, cube, exclude)
<1>2. Queries!Predecessors(l, cube, exclude) = preds
  <2>1. Region(l) \subseteq States
    BY DEF Region, Meet
  <2>2. \A s \in Region(l) : [t \in States |-> Successor(t)][s] = Successor(s)
    BY <2>1
  <2>3. [c \in Targets |-> Holds(c)][cube] = Holds(cube)
    OBVIOUS
  <2>4. [k \in Levels |-> Region(k)][l] = Region(l)
    OBVIOUS
  <2> QED BY <2>2, <2>3, <2>4 DEF Queries!Predecessors, Within
<1>3. query = [kind |-> "pred", level |-> l, cube |-> cube, exclude |-> exclude]
  BY DEF Query
<1>4. answer' \in {[query |-> query, result |-> "unknown"]}
               \cup (IF preds = {} THEN {[query |-> query, result |-> "unsat"]} ELSE {})
               \cup {[query |-> query, result |-> "sat"] : s \in preds}
               \cup {[query |-> query, result |-> "sat", model |-> s] : s \in preds}
  BY DEF Replies, Reply, ReplyWith
<1> HIDE DEF preds, query
<1> QED BY <1>1, <1>2, <1>3, <1>4 DEF Queries!AskPredecessor, Regions, BadRegions

\* findBadCubeForFormula: the same for a bad state of a frame.
LEMMA BadAsked ==
  ASSUME run' = run, frames' = frames, NEW l \in Levels, answer' \in BadReplies(l)
  PROVE  Queries!AskBad
<1>1. Regions' = Regions /\ BadRegions' = BadRegions
  BY RegionsKept
<1>2. [k \in Levels |-> BadRegion(k)][l] = BadRegion(l)
  OBVIOUS
<1> DEFINE query == [kind |-> "bad", level |-> l]
           wrong == BadRegion(l)
<1>3. answer' \in {[query |-> query, result |-> "unknown"]}
               \cup (IF wrong = {} THEN {[query |-> query, result |-> "unsat"]} ELSE {})
               \cup {[query |-> query, result |-> "sat", model |-> s] : s \in wrong}
  BY DEF BadReplies, Reply, ReplyWith
<1> QED BY <1>1, <1>2, <1>3 DEF Queries!AskBad, Regions, BadRegions

\* FrameSequence::addClauseUpTo and the frames of the next batch.
LEMMA EngineStepped ==
  ASSUME answer' = Silent,
         \/ \A k \in Levels : Region(k)' \subseteq Region(k) /\ BadRegion(k)' \subseteq BadRegion(k)
         \/ Region(0)' = Region(0)
  PROVE  Queries!Strengthen \/ Queries!NextBatch
<1>1. answer' = Queries!Silent
  BY DEF Silent, Queries!Silent
<1>2. CASE \A k \in Levels : Region(k)' \subseteq Region(k) /\ BadRegion(k)' \subseteq BadRegion(k)
  <2>1. \A k \in Levels : Regions'[k] \subseteq Regions[k] /\ BadRegions'[k] \subseteq BadRegions[k]
    BY <1>2 DEF Regions, BadRegions
  <2> QED BY <1>1, <2>1, RegionsTyped DEF Queries!Strengthen, Regions, BadRegions
<1>3. CASE Region(0)' = Region(0)
  <2>1. 0 \in Levels
    BY CacheConstants
  <2>2. Regions'[0] = Regions[0]
    BY <1>3, <2>1 DEF Regions
  <2> QED BY <1>1, <2>2, RegionsTyped DEF Queries!NextBatch, Regions, BadRegions
<1> QED BY <1>2, <1>3

\* Every step is a step of the abstract specification or a stutter.
LEMMA Refining ==
  ASSUME CachesRight, [Next]_vars
  PROVE  [Queries!Next]_<<Regions, BadRegions, answer>>
<1>1. CASE Next
  BY <1>1, Stepping, PredecessorAsked, BadAsked, EngineStepped DEF Queries!Next
<1>2. CASE UNCHANGED vars
  BY <1>2, Resting, RegionsKept
<1> QED BY <1>1, <1>2

\* Every answer to a predecessor or bad-state query is the one the frames give at
\* that moment, though it may come from a store, a core, a solver that has seen
\* other clauses or a solver of an earlier batch (findPredecessorCube, findBadCubeForFormula).
THEOREM QueriesAreExact == Spec => AnswersAreExact
<1>1. Init => Queries!Init
  BY Starting, RegionsTyped DEF Queries!Init, Queries!Silent, Silent, Regions, BadRegions
<1>2. CachesRight /\ [Next]_vars
        => [Queries!Next]_<<[l \in Levels |-> Region(l)], [l \in Levels |-> BadRegion(l)], answer>>
  BY Refining DEF Regions, BadRegions
<1> QED BY <1>1, <1>2, CachesStayRight, PTL DEF Spec, AnswersAreExact, Queries!Spec
=============================================================================
