----------------------- MODULE VerificationRunsProofs -----------------------
(***************************************************************************)
(* For any number of host threads, pool threads, calls and edits: one call *)
(* at a time changes the process, what it changed is put back however it   *)
(* ends, and a worker is only handed answers about the design of its call. *)
(* Then the tool call that runs one checker, and the cache of checkers.    *)
(***************************************************************************)
EXTENDS HostSide, FiniteSetTheorems, SequenceTheorems, TLAPS

USE DEF None, NoCall, Entries

-----------------------------------------------------------------------------
(* The calls and their guards *)

NajaGuard == [kind |-> "naja", saved |-> "host"]
GenerationGuard == [kind |-> "generation", saved |-> 0]
SettingsGuard == [kind |-> "settings", saved |-> "host"]
UniverseGuard == [kind |-> "universe"]

\* The expression guard holds the table and the map of the host.
ExpressionsGuard(heap) == [kind |-> "expressions", saved |-> heap]
HostHeaps == {heap \in (SUBSET {"host"}) \X (SUBSET {"host"}) : heap[2] \subseteq heap[1]}

\* The guards alive at each stage of a call.
FilesStacked(c) ==
  \/ c.guards = <<>> /\ c.stage \in {"generation", "leaving"}
  \/ c.guards = <<GenerationGuard>> /\ c.stage \in {"universe", "settings", "leaving"}
  \/ c.guards = <<SettingsGuard, GenerationGuard>> /\ c.stage \in {"starting", "leaving"}
  \/ c.guards = <<UniverseGuard, SettingsGuard, GenerationGuard>> /\ c.stage \in {"running", "leaving"}

DesignsStacked(c) ==
  \/ c.guards = <<>> /\ c.stage \in {"naja", "leaving"}
  \/ c.guards = <<NajaGuard>> /\ c.stage \in {"generation", "leaving"}
  \/ c.guards = <<GenerationGuard, NajaGuard>> /\ c.stage \in {"expressions", "leaving"}
  \/ \E heap \in HostHeaps :
       \/ /\ c.guards = <<ExpressionsGuard(heap), GenerationGuard, NajaGuard>>
          /\ c.stage \in {"settings", "leaving"}
       \/ /\ c.guards = <<SettingsGuard, ExpressionsGuard(heap), GenerationGuard, NajaGuard>>
          /\ c.stage \in {"starting", "running", "leaving"}

Stacked(c) ==
  /\ c = [stage |-> c.stage, entry |-> c.entry, guards |-> c.guards]
  /\ \/ c.entry = "files" /\ FilesStacked(c)
     \/ c.entry = "designs" /\ DesignsStacked(c)

Waiting(c) == \E e \in Entries : c = [stage |-> "locking", entry |-> e, guards |-> <<>>]

CallsRight ==
  /\ call = [h \in Hosts |-> call[h]]
  /\ \A h \in Hosts : call[h] = NoCall \/ Waiting(call[h]) \/ Stacked(call[h])
  /\ \A h, o \in Hosts : call[h] # NoCall /\ call[o] # NoCall => call[h].entry = call[o].entry
  /\ mutex \in [Entries -> Hosts \cup {None}]
  /\ \A h \in InCall : mutex[call[h].entry] = h

LEMMA StageOf ==
  ASSUME NEW c
  PROVE  /\ c = NoCall => c.stage = "none" /\ c.guards = <<>>
         /\ Waiting(c) => c.stage = "locking" /\ c.entry \in Entries /\ c.guards = <<>>
         /\ Stacked(c) => /\ c.stage \in {"naja", "generation", "expressions", "universe", "settings",
                                          "starting", "running", "leaving"}
                          /\ c.entry \in Entries
<1>1. c = NoCall => c.stage = "none" /\ c.guards = <<>>
  OBVIOUS
<1>2. Waiting(c) => c.stage = "locking" /\ c.entry \in Entries /\ c.guards = <<>>
  BY DEF Waiting
<1>3. FilesStacked(c) => c.stage \in {"generation", "universe", "settings", "starting", "running", "leaving"}
  BY DEF FilesStacked
<1>4. DesignsStacked(c) => c.stage \in {"naja", "generation", "expressions", "settings", "starting",
                                        "running", "leaving"}
  BY DEF DesignsStacked
<1> QED BY <1>1, <1>2, <1>3, <1>4 DEF Stacked

\* A thread in a call is in one of the stages of the entry point, and alone.
LEMMA Alone ==
  ASSUME CallsRight, NEW h \in InCall
  PROVE  /\ h \in Hosts /\ Stacked(call[h]) /\ InCall = {h}
         /\ call[h].entry \in Entries /\ mutex[call[h].entry] = h
         /\ \A o \in Hosts \ {h} : call[o].stage \in {"none", "locking"}
<1>1. \A o \in InCall : o \in Hosts /\ Stacked(call[o]) /\ call[o] # NoCall /\ mutex[call[o].entry] = o
  BY StageOf DEF CallsRight, InCall
<1>2. \A o \in InCall : call[o].entry = call[h].entry
  BY <1>1 DEF CallsRight
<1>3. InCall = {h}
  BY <1>1, <1>2
<1>4. \A o \in Hosts \ {h} : call[o].stage \in {"none", "locking"}
  BY <1>3 DEF InCall
<1>5. call[h].entry \in Entries
  BY <1>1, StageOf
<1> QED BY <1>1, <1>3, <1>4, <1>5

\* A step of a call that stays a call.
LEMMA Proceeds ==
  ASSUME CallsRight, NEW h \in InCall, NEW stage, NEW guards,
         Entering(h, call[h].entry, stage, guards), mutex' = mutex,
         Stacked([stage |-> stage, entry |-> call[h].entry, guards |-> guards])
  PROVE  /\ CallsRight' /\ InCall' = {h}
         /\ call'[h] = [stage |-> stage, entry |-> call[h].entry, guards |-> guards]
         /\ \A o \in Hosts \ {h} : call'[o] = call[o]
<1> DEFINE c == [stage |-> stage, entry |-> call[h].entry, guards |-> guards]
<1>1. /\ h \in Hosts /\ Stacked(call[h]) /\ mutex[call[h].entry] = h
      /\ \A o \in Hosts \ {h} : call[o].stage \in {"none", "locking"}
  BY Alone
<1>2. /\ call' = [o \in Hosts |-> IF o = h THEN c ELSE call[o]]
      /\ call'[h] = c /\ \A o \in Hosts \ {h} : call'[o] = call[o]
  BY <1>1 DEF CallsRight, Entering
<1>3. c.entry = call[h].entry /\ c.stage \notin {"none", "locking"} /\ c # NoCall /\ Stacked(c)
  BY StageOf
<1> HIDE DEF c
<1>4. InCall' = {h}
  BY <1>1, <1>2, <1>3 DEF InCall
<1>5. call[h] # NoCall
  BY <1>1, StageOf
<1>6. CallsRight'
  BY <1>1, <1>2, <1>3, <1>4, <1>5 DEF CallsRight
<1> QED BY <1>2, <1>4, <1>6 DEF c

LEMMA Waits ==
  ASSUME CallsRight, NEW h \in Hosts, NEW entry \in Entries, Begin(h, entry)
  PROVE  CallsRight' /\ InCall' = InCall /\ \A o \in InCall : call'[o] = call[o]
<1> DEFINE c == [stage |-> "locking", entry |-> entry, guards |-> <<>>]
<1>1. /\ call[h].stage = "none" /\ mutex' = mutex
      /\ \A o \in Hosts : call[o].stage = "none" \/ call[o].entry = entry
      /\ call' = [call EXCEPT ![h] = c]
  BY DEF Begin, Entering
<1>2. call'[h] = c /\ (\A o \in Hosts \ {h} : call'[o] = call[o]) /\ call' = [o \in Hosts |-> call'[o]]
  BY <1>1 DEF CallsRight
<1>3. c.stage = "locking" /\ c.entry = entry /\ Waiting(c) /\ c # NoCall
  BY DEF Waiting
<1>4. \A o \in Hosts : call[o] # NoCall => call[o].stage # "none"
  BY StageOf DEF CallsRight
<1> HIDE DEF c
<1>5. InCall' = InCall /\ h \notin InCall
  BY <1>1, <1>2, <1>3 DEF InCall
<1>6. \A o \in InCall : call'[o] = call[o]
  BY <1>2, <1>5 DEF InCall
<1>7. CallsRight'
  BY <1>1, <1>2, <1>3, <1>4, <1>5, <1>6 DEF CallsRight
<1> QED BY <1>5, <1>6, <1>7

\* The entry point's mutex, and that the host does not call both at once, admit
\* a thread only when no other is in a call.
LEMMA Enters ==
  ASSUME CallsRight, NEW h \in Hosts, Lock(h)
  PROVE  /\ CallsRight' /\ InCall = {} /\ InCall' = {h}
         /\ call'[h].guards = <<>> /\ call'[h].stage \in {"generation", "naja", "leaving"}
         /\ call'[h].entry \in Entries
<1> DEFINE e == call[h].entry
           stage == IF e = "files" THEN "generation" ELSE IF universe = None THEN "leaving" ELSE "naja"
           c == [stage |-> stage, entry |-> e, guards |-> <<>>]
<1>1. /\ call[h].stage = "locking" /\ mutex[e] = None /\ mutex' = [mutex EXCEPT ![e] = h]
      /\ call' = [call EXCEPT ![h] = c]
  BY DEF Lock, Entering
<1>2. e \in Entries /\ call[h] # NoCall
  BY <1>1, StageOf DEF CallsRight
<1>3. c.stage \in {"generation", "naja", "leaving"} /\ c.entry = e /\ c.guards = <<>>
      /\ Stacked(c) /\ c # NoCall
  <2>1. e = "files" \/ e = "designs"
    BY <1>2
  <2>2. CASE e = "files"
    BY <2>2 DEF Stacked, FilesStacked
  <2>3. CASE e = "designs"
    BY <2>3 DEF Stacked, DesignsStacked
  <2> QED BY <2>1, <2>2, <2>3
<1>4. /\ call'[h] = c /\ (\A o \in Hosts \ {h} : call'[o] = call[o]) /\ call' = [o \in Hosts |-> call'[o]]
  BY <1>1 DEF CallsRight
<1>5. \A o \in InCall : call[o].entry = e /\ o \in Hosts
  BY <1>2, StageOf DEF CallsRight, InCall
<1>6. InCall = {}
  BY <1>1, <1>5, HostsAssumption DEF CallsRight
<1> HIDE DEF c, e
<1>7. InCall' = {h}
  BY <1>3, <1>4, <1>6 DEF InCall
<1>8. mutex' \in [Entries -> Hosts \cup {None}] /\ mutex'[e] = h
  BY <1>1, <1>2 DEF CallsRight
<1>9. CallsRight'
  BY <1>2, <1>3, <1>4, <1>7, <1>8 DEF CallsRight, e
<1> QED BY <1>2, <1>3, <1>4, <1>6, <1>7, <1>9

LEMMA Leaves ==
  ASSUME CallsRight, NEW h \in Hosts, Leave(h)
  PROVE  CallsRight' /\ InCall = {h} /\ InCall' = {} /\ call[h].guards = <<>>
<1>1. /\ call[h].stage = "leaving" /\ call[h].guards = <<>>
      /\ mutex' = [mutex EXCEPT ![call[h].entry] = None] /\ call' = [call EXCEPT ![h] = NoCall]
  BY DEF Leave
<1>2. h \in InCall
  BY <1>1 DEF InCall
<1>3. InCall = {h} /\ call[h].entry \in Entries
  BY <1>2, Alone
<1>4. call'[h] = NoCall /\ (\A o \in Hosts \ {h} : call'[o] = call[o]) /\ call' = [o \in Hosts |-> call'[o]]
  BY <1>1 DEF CallsRight
<1>5. InCall' = {}
  BY <1>3, <1>4, StageOf DEF InCall
<1>6. mutex' \in [Entries -> Hosts \cup {None}]
  BY <1>1, <1>3 DEF CallsRight
<1>7. CallsRight'
  BY <1>4, <1>5, <1>6 DEF CallsRight
<1> QED BY <1>1, <1>3, <1>5, <1>7

-----------------------------------------------------------------------------
(* The process and what a call has put aside *)

Kinds(guards) == {guards[i].kind : i \in DOMAIN guards}

\* The state of the process under a call with these guards, or without a call.
World(held, entry) ==
  /\ "generation" \in held => generation = nextGeneration - 1 /\ generation # 0
  /\ "generation" \notin held => generation = 0
  /\ "settings" \notin held => settings = "host" /\ miter = None
  /\ "naja" \notin held /\ "universe" \notin held => naja = "host"
  /\ "expressions" \notin held /\ (entry = "files" => "settings" \notin held) => exprs \subseteq {"host"}

WorldRight ==
  /\ nextGeneration \in Nat \ {0} /\ generation \in Nat /\ generation < nextGeneration
  /\ iso \subseteq exprs
  /\ universe \in Designs \cup {None}
  /\ \A h \in InCall : World(Kinds(call[h].guards), call[h].entry)
  /\ InCall = {} => World({}, None)

\* The guards by kind.
LEMMA KindsOf ==
  /\ Kinds(<<>>) = {}
  /\ Kinds(<<NajaGuard>>) = {"naja"}
  /\ Kinds(<<GenerationGuard>>) = {"generation"}
  /\ Kinds(<<SettingsGuard, GenerationGuard>>) = {"settings", "generation"}
  /\ Kinds(<<UniverseGuard, SettingsGuard, GenerationGuard>>) = {"universe", "settings", "generation"}
  /\ Kinds(<<GenerationGuard, NajaGuard>>) = {"generation", "naja"}
  /\ \A heap : Kinds(<<ExpressionsGuard(heap), GenerationGuard, NajaGuard>>)
               = {"expressions", "generation", "naja"}
  /\ \A heap : Kinds(<<SettingsGuard, ExpressionsGuard(heap), GenerationGuard, NajaGuard>>)
                      = {"settings", "expressions", "generation", "naja"}
<1>1. /\ NajaGuard.kind = "naja" /\ GenerationGuard.kind = "generation"
      /\ SettingsGuard.kind = "settings" /\ UniverseGuard.kind = "universe"
      /\ \A heap : ExpressionsGuard(heap).kind = "expressions"
  BY DEF NajaGuard, GenerationGuard, SettingsGuard, UniverseGuard, ExpressionsGuard
<1>2. Kinds(<<>>) = {}
  BY DEF Kinds
<1>3. Kinds(<<NajaGuard>>) = {"naja"}
  BY <1>1 DEF Kinds
<1>4. Kinds(<<GenerationGuard>>) = {"generation"}
  BY <1>1 DEF Kinds
<1>5. Kinds(<<SettingsGuard, GenerationGuard>>) = {"settings", "generation"}
  BY <1>1 DEF Kinds
<1>6. Kinds(<<UniverseGuard, SettingsGuard, GenerationGuard>>) = {"universe", "settings", "generation"}
  BY <1>1 DEF Kinds
<1>7. Kinds(<<GenerationGuard, NajaGuard>>) = {"generation", "naja"}
  BY <1>1 DEF Kinds
<1>8. ASSUME NEW heap
      PROVE  Kinds(<<ExpressionsGuard(heap), GenerationGuard, NajaGuard>>) = {"expressions", "generation", "naja"}
  BY <1>1 DEF Kinds
<1>9. ASSUME NEW heap
      PROVE  Kinds(<<SettingsGuard, ExpressionsGuard(heap), GenerationGuard, NajaGuard>>)
               = {"settings", "expressions", "generation", "naja"}
  BY <1>1 DEF Kinds
<1> QED BY <1>2, <1>3, <1>4, <1>5, <1>6, <1>7, <1>8, <1>9

\* A constructor puts its guard on top, the destructors take the guards down again.
LEMMA PushedOnNone ==
  \A a :
    <<a>> \o <<>> = <<a>> /\ Head(<<a>>) = a /\ Tail(<<a>>) = <<>>
OBVIOUS

LEMMA PushedOnOne ==
  \A a, b :
    <<a>> \o <<b>> = <<a, b>> /\ Head(<<a, b>>) = a /\ Tail(<<a, b>>) = <<b>>
<1> TAKE a, b
<1> DEFINE S == {a, b}
           s == <<a>>
           r == <<b>>
           q == <<a, b>>
<1>1. s \in Seq(S) /\ r \in Seq(S) /\ q \in Seq(S)
  OBVIOUS
<1>2. Len(s) = 1 /\ Len(r) = 1 /\ Len(q) = 2
  OBVIOUS
<1>3. \A i \in 1..2 : q[i] = IF i <= 1 THEN s[i] ELSE r[i - 1]
  OBVIOUS
<1>4. Head(q) = a
  OBVIOUS
<1>5. Tail(q) = r
  OBVIOUS
<1>6. s \o r = q
  <2> HIDE DEF S, s, r, q
  <2>1. /\ s \o r \in Seq(S) /\ Len(s \o r) = Len(s) + Len(r)
        /\ \A i \in 1..Len(s) + Len(r) : (s \o r)[i] = IF i <= Len(s) THEN s[i] ELSE r[i - Len(s)]
    BY <1>1, ConcatProperties
  <2>2. Len(s \o r) = Len(q) /\ \A i \in 1..Len(s \o r) : (s \o r)[i] = q[i]
    BY <1>2, <1>3, <2>1
  <2> QED BY <1>1, <2>1, <2>2, SeqEqual
<1> QED BY <1>4, <1>5, <1>6

LEMMA PushedOnTwo ==
  \A a, b, c :
    <<a>> \o <<b, c>> = <<a, b, c>> /\ Head(<<a, b, c>>) = a /\ Tail(<<a, b, c>>) = <<b, c>>
<1> TAKE a, b, c
<1> DEFINE S == {a, b, c}
           s == <<a>>
           r == <<b, c>>
           q == <<a, b, c>>
<1>1. s \in Seq(S) /\ r \in Seq(S) /\ q \in Seq(S)
  OBVIOUS
<1>2. Len(s) = 1 /\ Len(r) = 2 /\ Len(q) = 3
  OBVIOUS
<1>3. \A i \in 1..3 : q[i] = IF i <= 1 THEN s[i] ELSE r[i - 1]
  OBVIOUS
<1>4. Head(q) = a
  OBVIOUS
<1>5. Tail(q) = r
  OBVIOUS
<1>6. s \o r = q
  <2> HIDE DEF S, s, r, q
  <2>1. /\ s \o r \in Seq(S) /\ Len(s \o r) = Len(s) + Len(r)
        /\ \A i \in 1..Len(s) + Len(r) : (s \o r)[i] = IF i <= Len(s) THEN s[i] ELSE r[i - Len(s)]
    BY <1>1, ConcatProperties
  <2>2. Len(s \o r) = Len(q) /\ \A i \in 1..Len(s \o r) : (s \o r)[i] = q[i]
    BY <1>2, <1>3, <2>1
  <2> QED BY <1>1, <2>1, <2>2, SeqEqual
<1> QED BY <1>4, <1>5, <1>6

LEMMA PushedOnThree ==
  \A a, b, c, d :
    <<a>> \o <<b, c, d>> = <<a, b, c, d>> /\ Head(<<a, b, c, d>>) = a /\ Tail(<<a, b, c, d>>) = <<b, c, d>>
<1> TAKE a, b, c, d
<1> DEFINE S == {a, b, c, d}
           s == <<a>>
           r == <<b, c, d>>
           q == <<a, b, c, d>>
<1>1. s \in Seq(S) /\ r \in Seq(S) /\ q \in Seq(S)
  OBVIOUS
<1>2. Len(s) = 1 /\ Len(r) = 3 /\ Len(q) = 4
  OBVIOUS
<1>3. \A i \in 1..4 : q[i] = IF i <= 1 THEN s[i] ELSE r[i - 1]
  OBVIOUS
<1>4. Head(q) = a
  OBVIOUS
<1>5. Tail(q) = r
  OBVIOUS
<1>6. s \o r = q
  <2> HIDE DEF S, s, r, q
  <2>1. /\ s \o r \in Seq(S) /\ Len(s \o r) = Len(s) + Len(r)
        /\ \A i \in 1..Len(s) + Len(r) : (s \o r)[i] = IF i <= Len(s) THEN s[i] ELSE r[i - Len(s)]
    BY <1>1, ConcatProperties
  <2>2. Len(s \o r) = Len(q) /\ \A i \in 1..Len(s \o r) : (s \o r)[i] = q[i]
    BY <1>2, <1>3, <2>1
  <2> QED BY <1>1, <2>1, <2>2, SeqEqual
<1> QED BY <1>4, <1>5, <1>6

\* The guards a stage has put up.
LEMMA StackAt ==
  ASSUME NEW c, Stacked(c)
  PROVE  /\ c.entry \in Entries
         /\ c.stage = "naja" => c.entry = "designs" /\ c.guards = <<>>
         /\ c.stage = "universe" => c.entry = "files" /\ c.guards = <<GenerationGuard>>
         /\ c.stage = "expressions" => c.entry = "designs" /\ c.guards = <<GenerationGuard, NajaGuard>>
         /\ c.stage = "generation" => c.guards = IF c.entry = "files" THEN <<>> ELSE <<NajaGuard>>
         /\ c.stage = "settings" /\ c.entry = "files" => c.guards = <<GenerationGuard>>
         /\ c.stage = "settings" /\ c.entry = "designs" =>
              \E heap \in HostHeaps : c.guards = <<ExpressionsGuard(heap), GenerationGuard, NajaGuard>>
         /\ c.stage = "starting" /\ c.entry = "files" => c.guards = <<SettingsGuard, GenerationGuard>>
         /\ c.stage = "running" /\ c.entry = "files" =>
              c.guards = <<UniverseGuard, SettingsGuard, GenerationGuard>>
         /\ c.stage \in {"starting", "running"} /\ c.entry = "designs" =>
              \E heap \in HostHeaps :
                c.guards = <<SettingsGuard, ExpressionsGuard(heap), GenerationGuard, NajaGuard>>
<1>1. CASE c.entry = "files" /\ FilesStacked(c)
  BY <1>1 DEF FilesStacked
<1>2. CASE c.entry = "designs" /\ DesignsStacked(c)
  BY <1>2 DEF DesignsStacked
<1> QED BY <1>1, <1>2 DEF Stacked

LEMMA WorldOf ==
  ASSUME CallsRight, WorldRight, NEW h \in InCall
  PROVE  World(Kinds(call[h].guards), call[h].entry)
BY DEF WorldRight

\* What a step of the only call does: its new stage, and the process still as
\* its guards say.
CallMoved(h, stages) ==
  /\ CallsRight' /\ WorldRight' /\ InCall = {h} /\ InCall' = {h}
  /\ call'[h].stage \in stages /\ call'[h].entry = call[h].entry

ProcessSane ==
  /\ nextGeneration \in Nat \ {0} /\ generation \in Nat /\ generation < nextGeneration
  /\ iso \subseteq exprs /\ universe \in Designs \cup {None}

LEMMA Moves ==
  ASSUME CallsRight, NEW h \in InCall, NEW e, call[h].entry = e, NEW stage, NEW guards, NEW held,
         Entering(h, call[h].entry, stage, guards), mutex' = mutex,
         Stacked([stage |-> stage, entry |-> e, guards |-> guards]),
         Kinds(guards) = held, World(held, e)', ProcessSane'
  PROVE  CallMoved(h, {stage})
<1> DEFINE c == [stage |-> stage, entry |-> call[h].entry, guards |-> guards]
<1>1. Stacked(c)
  OBVIOUS
<1>2. CallsRight' /\ InCall' = {h} /\ call'[h] = c
  BY <1>1, Proceeds
<1>3. call'[h].guards = guards /\ call'[h].entry = e /\ call'[h].stage = stage
  BY <1>2
<1>4. World(Kinds(call[h].guards), call[h].entry)'
  BY <1>3 DEF World
<1>5. WorldRight'
  BY <1>2, <1>4 DEF WorldRight, ProcessSane
<1> QED BY <1>2, <1>3, <1>5, Alone DEF CallMoved

\* The caller, its guards and the process before a step.
LEMMA CallerAt ==
  ASSUME CallsRight, WorldRight, NEW h \in Hosts, call[h].stage \notin {"none", "locking"}
  PROVE  /\ h \in InCall /\ Stacked(call[h]) /\ World(Kinds(call[h].guards), call[h].entry)
         /\ ProcessSane /\ call[h].entry \in Entries
<1>1. h \in InCall
  BY DEF InCall
<1> QED BY <1>1, Alone DEF WorldRight, ProcessSane

LEMMA NajaSetAside ==
  ASSUME CallsRight, WorldRight, NEW h \in Hosts, GuardNaja(h)
  PROVE  CallMoved(h, {"generation"})
<1>1. /\ call[h].stage = "naja" /\ naja' = "call" /\ mutex' = mutex
      /\ UNCHANGED <<generation, nextGeneration, settings, exprs, iso, universe, miter>>
      /\ Entering(h, call[h].entry, "generation", <<[kind |-> "naja", saved |-> naja]>> \o call[h].guards)
  BY DEF GuardNaja, Push, config, heaps
<1>2. h \in InCall /\ Stacked(call[h]) /\ World(Kinds(call[h].guards), call[h].entry) /\ ProcessSane
  BY <1>1, CallerAt
<1>3. call[h].entry = "designs" /\ call[h].guards = <<>>
  BY <1>1, <1>2, StackAt
<1>4. World({}, "designs")
  BY <1>2, <1>3, KindsOf
<1>5. <<[kind |-> "naja", saved |-> naja]>> \o call[h].guards = <<NajaGuard>>
  BY <1>3, <1>4, PushedOnNone DEF NajaGuard, World
<1>6. Stacked([stage |-> "generation", entry |-> "designs", guards |-> <<NajaGuard>>])
  BY DEF Stacked, DesignsStacked
<1>7. World({"naja"}, "designs")' /\ ProcessSane'
  BY <1>1, <1>2, <1>4 DEF World, ProcessSane
<1> QED BY <1>1, <1>2, <1>3, <1>5, <1>6, <1>7, KindsOf, Moves

LEMMA GenerationTaken ==
  ASSUME CallsRight, WorldRight, NEW h \in Hosts, GuardGeneration(h)
  PROVE  CallMoved(h, {"universe", "expressions"})
<1>1. /\ call[h].stage = "generation" /\ mutex' = mutex
      /\ generation' = nextGeneration /\ nextGeneration' = nextGeneration + 1
      /\ UNCHANGED <<naja, settings, exprs, iso, universe, miter>>
      /\ Entering(h, call[h].entry, IF call[h].entry = "files" THEN "universe" ELSE "expressions",
                  <<[kind |-> "generation", saved |-> generation]>> \o call[h].guards)
  BY DEF GuardGeneration, Push, heaps, designState
<1>2. /\ h \in InCall /\ Stacked(call[h]) /\ World(Kinds(call[h].guards), call[h].entry)
      /\ ProcessSane /\ call[h].entry \in Entries
  BY <1>1, CallerAt
<1>3. ProcessSane' /\ generation' = nextGeneration' - 1 /\ generation' # 0
  BY <1>1, <1>2 DEF ProcessSane
<1>4. ASSUME NEW guards, NEW held, call[h].guards = guards, Kinds(guards) = held,
             "generation" \notin held
      PROVE  generation = 0 /\ [kind |-> "generation", saved |-> generation] = GenerationGuard
  BY <1>2, <1>4 DEF World, GenerationGuard
<1>5. CASE call[h].entry = "files"
  <2>1. call[h].guards = <<>>
    BY <1>1, <1>2, <1>5, StackAt
  <2>2. World({}, "files") /\ [kind |-> "generation", saved |-> generation] = GenerationGuard
    BY <1>2, <1>4, <1>5, <2>1, KindsOf
  <2>3. Entering(h, call[h].entry, "universe", <<GenerationGuard>>)
    BY <1>1, <1>5, <2>1, <2>2, PushedOnNone
  <2>4. Stacked([stage |-> "universe", entry |-> "files", guards |-> <<GenerationGuard>>])
    BY DEF Stacked, FilesStacked
  <2>5. World({"generation"}, "files")'
    BY <1>1, <1>3, <2>2 DEF World
  <2>6. CallMoved(h, {"universe"})
    BY <1>1, <1>2, <1>3, <1>5, <2>3, <2>4, <2>5, KindsOf, Moves
  <2> QED BY <2>6 DEF CallMoved
<1>6. CASE call[h].entry = "designs"
  <2>1. call[h].guards = <<NajaGuard>>
    BY <1>1, <1>2, <1>6, StackAt
  <2>2. World({"naja"}, "designs") /\ [kind |-> "generation", saved |-> generation] = GenerationGuard
    BY <1>2, <1>4, <1>6, <2>1, KindsOf
  <2>3. Entering(h, call[h].entry, "expressions", <<GenerationGuard, NajaGuard>>)
    BY <1>1, <1>6, <2>1, <2>2, PushedOnOne
  <2>4. Stacked([stage |-> "expressions", entry |-> "designs", guards |-> <<GenerationGuard, NajaGuard>>])
    BY DEF Stacked, DesignsStacked
  <2>5. World({"generation", "naja"}, "designs")'
    BY <1>1, <1>3, <2>2 DEF World
  <2>6. CallMoved(h, {"expressions"})
    BY <1>1, <1>2, <1>3, <1>6, <2>3, <2>4, <2>5, KindsOf, Moves
  <2> QED BY <2>6 DEF CallMoved
<1> QED BY <1>2, <1>5, <1>6

LEMMA ExpressionsSwapped ==
  ASSUME CallsRight, WorldRight, NEW h \in Hosts, GuardExpressions(h)
  PROVE  CallMoved(h, {"settings"})
<1>1. /\ call[h].stage = "expressions" /\ mutex' = mutex /\ exprs' = {} /\ iso' = {}
      /\ UNCHANGED <<generation, nextGeneration, settings, universe, naja, miter>>
      /\ Entering(h, call[h].entry, "settings",
                  <<[kind |-> "expressions", saved |-> <<exprs, iso>>]>> \o call[h].guards)
  BY DEF GuardExpressions, Push, config, designState
<1>2. /\ h \in InCall /\ Stacked(call[h]) /\ World(Kinds(call[h].guards), call[h].entry)
      /\ ProcessSane
  BY <1>1, CallerAt
<1>3. call[h].entry = "designs" /\ call[h].guards = <<GenerationGuard, NajaGuard>>
  BY <1>1, <1>2, StackAt
<1>4. World({"generation", "naja"}, "designs")
  BY <1>2, <1>3, KindsOf
<1>5. exprs \subseteq {"host"} /\ iso \subseteq exprs
  BY <1>2, <1>4 DEF World, ProcessSane
<1>6. PICK heap \in HostHeaps : heap = <<exprs, iso>>
  BY <1>5 DEF HostHeaps
<1>7. Entering(h, call[h].entry, "settings", <<ExpressionsGuard(heap), GenerationGuard, NajaGuard>>)
  <2>1. [kind |-> "expressions", saved |-> <<exprs, iso>>] = ExpressionsGuard(heap)
    BY <1>6 DEF ExpressionsGuard
  <2>2. <<ExpressionsGuard(heap)>> \o <<GenerationGuard, NajaGuard>>
          = <<ExpressionsGuard(heap), GenerationGuard, NajaGuard>>
    BY PushedOnTwo, Zenon
  <2> QED BY <1>1, <1>3, <2>1, <2>2
<1>8. Stacked([stage |-> "settings", entry |-> "designs",
               guards |-> <<ExpressionsGuard(heap), GenerationGuard, NajaGuard>>])
  BY DEF Stacked, DesignsStacked
<1>9. World({"expressions", "generation", "naja"}, "designs")' /\ ProcessSane'
  BY <1>1, <1>2, <1>4 DEF World, ProcessSane
<1> QED BY <1>1, <1>2, <1>3, <1>7, <1>8, <1>9, KindsOf, Moves

LEMMA UniverseChecked ==
  ASSUME CallsRight, WorldRight, NEW h \in Hosts, CheckUniverse(h)
  PROVE  CallMoved(h, {"leaving", "settings"})
<1>1. /\ call[h].stage = "universe" /\ mutex' = mutex
      /\ UNCHANGED <<generation, nextGeneration, settings, exprs, iso, universe, naja, miter>>
      /\ \E stage \in {"leaving", "settings"} : Entering(h, call[h].entry, stage, call[h].guards)
  BY DEF CheckUniverse, config, designState, heaps
<1>2. /\ h \in InCall /\ Stacked(call[h]) /\ World(Kinds(call[h].guards), call[h].entry)
      /\ ProcessSane
  BY <1>1, CallerAt
<1>3. call[h].entry = "files" /\ call[h].guards = <<GenerationGuard>>
  BY <1>1, <1>2, StackAt
<1>4. PICK stage \in {"leaving", "settings"} : Entering(h, call[h].entry, stage, <<GenerationGuard>>)
  BY <1>1, <1>3
<1>5. World({"generation"}, "files")
  BY <1>2, <1>3, KindsOf
<1>6. Stacked([stage |-> stage, entry |-> "files", guards |-> <<GenerationGuard>>])
  BY DEF Stacked, FilesStacked
<1>7. World({"generation"}, "files")' /\ ProcessSane'
  BY <1>1, <1>2, <1>5 DEF World, ProcessSane
<1>8. CallMoved(h, {stage})
  BY <1>1, <1>2, <1>3, <1>4, <1>6, <1>7, KindsOf, Moves
<1> QED BY <1>8 DEF CallMoved

LEMMA SettingsTaken ==
  ASSUME CallsRight, WorldRight, NEW h \in Hosts, GuardSettings(h)
  PROVE  CallMoved(h, {"starting"})
<1>1. /\ call[h].stage = "settings" /\ mutex' = mutex
      /\ UNCHANGED <<generation, nextGeneration, exprs, iso, universe, naja, miter>>
      /\ Entering(h, call[h].entry, "starting",
                  <<[kind |-> "settings", saved |-> settings]>> \o call[h].guards)
  BY DEF GuardSettings, Push, heaps, designState
<1>2. /\ h \in InCall /\ Stacked(call[h]) /\ World(Kinds(call[h].guards), call[h].entry)
      /\ ProcessSane /\ call[h].entry \in Entries
  BY <1>1, CallerAt
<1>3. ProcessSane'
  BY <1>1, <1>2 DEF ProcessSane
<1>4. CASE call[h].entry = "files"
  <2>1. call[h].guards = <<GenerationGuard>>
    BY <1>1, <1>2, <1>4, StackAt
  <2>2. World({"generation"}, "files")
    BY <1>2, <1>4, <2>1, KindsOf
  <2>3. Entering(h, call[h].entry, "starting", <<SettingsGuard, GenerationGuard>>)
    BY <1>1, <2>1, <2>2, PushedOnOne DEF World, SettingsGuard
  <2>4. Stacked([stage |-> "starting", entry |-> "files", guards |-> <<SettingsGuard, GenerationGuard>>])
    BY DEF Stacked, FilesStacked
  <2>5. World({"settings", "generation"}, "files")'
    BY <1>1, <2>2 DEF World
  <2> QED BY <1>1, <1>2, <1>3, <1>4, <2>3, <2>4, <2>5, KindsOf, Moves
<1>5. CASE call[h].entry = "designs"
  <2>1. PICK heap \in HostHeaps : call[h].guards = <<ExpressionsGuard(heap), GenerationGuard, NajaGuard>>
    BY <1>1, <1>2, <1>5, StackAt
  <2>2. World({"expressions", "generation", "naja"}, "designs")
    BY <1>2, <1>5, <2>1, KindsOf
  <2>3. Entering(h, call[h].entry, "starting",
                 <<SettingsGuard, ExpressionsGuard(heap), GenerationGuard, NajaGuard>>)
    <3>1. [kind |-> "settings", saved |-> settings] = SettingsGuard
      BY <2>2 DEF World, SettingsGuard
    <3>2. <<SettingsGuard>> \o <<ExpressionsGuard(heap), GenerationGuard, NajaGuard>>
            = <<SettingsGuard, ExpressionsGuard(heap), GenerationGuard, NajaGuard>>
      BY PushedOnThree, Zenon
    <3> QED BY <1>1, <2>1, <3>1, <3>2
  <2>4. Stacked([stage |-> "starting", entry |-> "designs",
                 guards |-> <<SettingsGuard, ExpressionsGuard(heap), GenerationGuard, NajaGuard>>])
    BY DEF Stacked, DesignsStacked
  <2>5. World({"settings", "expressions", "generation", "naja"}, "designs")'
    BY <1>1, <2>2 DEF World
  <2> QED BY <1>1, <1>2, <1>3, <1>5, <2>3, <2>4, <2>5, KindsOf, Moves
<1> QED BY <1>2, <1>4, <1>5

\* A step that only goes to another stage: the log file that does not open, and
\* the end of the proof.
LEMMA GoesToLeave ==
  ASSUME CallsRight, WorldRight, NEW h \in Hosts, LoggerFails(h) \/ Finish(h)
  PROVE  CallMoved(h, {"leaving"})
<1>1. /\ call[h].stage \in {"starting", "running"} /\ mutex' = mutex
      /\ UNCHANGED <<generation, nextGeneration, settings, exprs, iso, universe, naja, miter>>
      /\ Entering(h, call[h].entry, "leaving", call[h].guards)
  BY DEF LoggerFails, Finish, config, designState, heaps
<1>2. /\ h \in InCall /\ Stacked(call[h]) /\ World(Kinds(call[h].guards), call[h].entry)
      /\ ProcessSane /\ call[h].entry \in Entries
  BY <1>1, CallerAt
<1>3. PICK e, guards : call[h].entry = e /\ call[h].guards = guards
  OBVIOUS
<1>4. Stacked([stage |-> "leaving", entry |-> e, guards |-> guards])
  <2>1. CASE e = "files" /\ FilesStacked(call[h])
    BY <1>1, <1>3, <2>1 DEF Stacked, FilesStacked
  <2>2. CASE e = "designs" /\ DesignsStacked(call[h])
    BY <1>1, <1>3, <2>2 DEF Stacked, DesignsStacked
  <2> QED BY <1>2, <1>3, <2>1, <2>2 DEF Stacked
<1>5. PICK held : Kinds(guards) = held
  OBVIOUS
<1>6. World(held, e)
  BY <1>2, <1>3, <1>5
<1>7. World(held, e)' /\ ProcessSane'
  BY <1>1, <1>2, <1>6 DEF World, ProcessSane
<1> QED BY <1>1, <1>2, <1>3, <1>4, <1>5, <1>7, Moves

LEMMA Starts ==
  ASSUME CallsRight, WorldRight, NEW h \in Hosts, Start(h)
  PROVE  CallMoved(h, {"running"})
<1>1. /\ call[h].stage = "starting" /\ mutex' = mutex /\ exprs' = exprs \cup {"call"}
      /\ iso' = iso \cup {"call"} /\ UNCHANGED <<generation, nextGeneration>>
  BY DEF Start, config
<1>2. /\ h \in InCall /\ Stacked(call[h]) /\ World(Kinds(call[h].guards), call[h].entry)
      /\ ProcessSane /\ call[h].entry \in Entries
  BY <1>1, CallerAt
<1>3. CASE call[h].entry = "files"
  <2>1. call[h].guards = <<SettingsGuard, GenerationGuard>>
    BY <1>1, <1>2, <1>3, StackAt
  <2>2. World({"settings", "generation"}, "files")
    BY <1>2, <1>3, <2>1, KindsOf
  <2>3. universe' \in Designs
        /\ Entering(h, call[h].entry, "running", <<[kind |-> "universe"]>> \o call[h].guards)
    BY <1>3 DEF Start, Push
  <2>4. Entering(h, call[h].entry, "running", <<UniverseGuard, SettingsGuard, GenerationGuard>>)
    BY <2>1, <2>3, PushedOnTwo DEF UniverseGuard
  <2>5. Stacked([stage |-> "running", entry |-> "files",
                 guards |-> <<UniverseGuard, SettingsGuard, GenerationGuard>>])
    BY DEF Stacked, FilesStacked
  <2>6. World({"universe", "settings", "generation"}, "files")' /\ ProcessSane'
    BY <1>1, <1>2, <2>2, <2>3 DEF World, ProcessSane
  <2> QED BY <1>1, <1>2, <1>3, <2>4, <2>5, <2>6, KindsOf, Moves
<1>4. CASE call[h].entry = "designs"
  <2>1. PICK heap \in HostHeaps :
               call[h].guards = <<SettingsGuard, ExpressionsGuard(heap), GenerationGuard, NajaGuard>>
    BY <1>1, <1>2, <1>4, StackAt
  <2>2. World({"settings", "expressions", "generation", "naja"}, "designs")
    BY <1>2, <1>4, <2>1, KindsOf
  <2>3. universe' = universe /\ Entering(h, call[h].entry, "running", call[h].guards)
    BY <1>4 DEF Start
  <2>4. Entering(h, call[h].entry, "running",
                 <<SettingsGuard, ExpressionsGuard(heap), GenerationGuard, NajaGuard>>)
    BY <2>1, <2>3
  <2>5. Stacked([stage |-> "running", entry |-> "designs",
                 guards |-> <<SettingsGuard, ExpressionsGuard(heap), GenerationGuard, NajaGuard>>])
    BY DEF Stacked, DesignsStacked
  <2>6. World({"settings", "expressions", "generation", "naja"}, "designs")' /\ ProcessSane'
    BY <1>1, <1>2, <2>2, <2>3 DEF World, ProcessSane
  <2> QED BY <1>1, <1>2, <1>4, <2>4, <2>5, <2>6, KindsOf, Moves
<1> QED BY <1>2, <1>3, <1>4

\* Each destructor puts back what its constructor saw, in reverse order.
LEMMA Unwinds ==
  ASSUME CallsRight, WorldRight, NEW h \in Hosts, Unwind(h)
  PROVE  CallMoved(h, {"leaving"})
<1> DEFINE g == Head(call[h].guards)
<1>1. /\ call[h].stage = "leaving" /\ call[h].guards # <<>>
      /\ Entering(h, call[h].entry, "leaving", Tail(call[h].guards))
      /\ naja' = (IF g.kind = "naja" THEN g.saved ELSE IF g.kind = "universe" THEN "host" ELSE naja)
      /\ universe' = (IF g.kind = "universe" THEN None ELSE universe)
      /\ generation' = (IF g.kind = "generation" THEN g.saved ELSE generation)
      /\ settings' = (IF g.kind = "settings" THEN g.saved ELSE settings)
      /\ miter' = MiterAfter(g, call[h].entry)
      /\ exprs' = ExprsAfter(g, call[h].entry)
      /\ iso' = IsoAfter(g, call[h].entry)
      /\ UNCHANGED <<mutex, nextGeneration>>
  BY DEF Unwind
<1>2. /\ h \in InCall /\ Stacked(call[h]) /\ World(Kinds(call[h].guards), call[h].entry)
      /\ ProcessSane
  BY <1>1, CallerAt
<1>3. CASE call[h].entry = "files" /\ call[h].guards = <<GenerationGuard>>
  <2>1. Head(call[h].guards) = GenerationGuard /\ Tail(call[h].guards) = <<>>
    BY <1>3, PushedOnNone, Zenon
  <2>2. World({"generation"}, "files")
    BY <1>2, <1>3, KindsOf
  <2>3. Entering(h, call[h].entry, "leaving", <<>>)
    BY <1>1, <2>1
  <2>4. Stacked([stage |-> "leaving", entry |-> "files", guards |-> <<>>])
    BY DEF Stacked, FilesStacked
  <2>5. World({}, "files")' /\ ProcessSane'
    BY <1>1, <1>2, <1>3, <2>1, <2>2 DEF World, ProcessSane, GenerationGuard, IsoAfter, ExprsAfter, MiterAfter
  <2> QED BY <1>1, <1>2, <1>3, <2>3, <2>4, <2>5, KindsOf, Moves
<1>4. CASE call[h].entry = "files" /\ call[h].guards = <<SettingsGuard, GenerationGuard>>
  <2>1. Head(call[h].guards) = SettingsGuard /\ Tail(call[h].guards) = <<GenerationGuard>>
    BY <1>4, PushedOnOne, Zenon
  <2>2. World({"settings", "generation"}, "files")
    BY <1>2, <1>4, KindsOf
  <2>3. Entering(h, call[h].entry, "leaving", <<GenerationGuard>>)
    BY <1>1, <2>1
  <2>4. Stacked([stage |-> "leaving", entry |-> "files", guards |-> <<GenerationGuard>>])
    BY DEF Stacked, FilesStacked
  <2>5. World({"generation"}, "files")' /\ ProcessSane'
    BY <1>1, <1>2, <1>4, <2>1, <2>2 DEF World, ProcessSane, SettingsGuard, IsoAfter, ExprsAfter, MiterAfter
  <2> QED BY <1>1, <1>2, <1>4, <2>3, <2>4, <2>5, KindsOf, Moves
<1>5. CASE call[h].entry = "files" /\ call[h].guards = <<UniverseGuard, SettingsGuard, GenerationGuard>>
  <2>1. Head(call[h].guards) = UniverseGuard /\ Tail(call[h].guards) = <<SettingsGuard, GenerationGuard>>
    <3>1. Head(<<UniverseGuard, SettingsGuard, GenerationGuard>>) = UniverseGuard
      BY PushedOnTwo, Zenon
    <3>2. Tail(<<UniverseGuard, SettingsGuard, GenerationGuard>>) = <<SettingsGuard, GenerationGuard>>
      BY PushedOnTwo, Zenon
    <3> QED BY <1>5, <3>1, <3>2
  <2>2. World({"universe", "settings", "generation"}, "files")
    BY <1>2, <1>5, KindsOf
  <2>3. Entering(h, call[h].entry, "leaving", <<SettingsGuard, GenerationGuard>>)
    BY <1>1, <2>1
  <2>4. Stacked([stage |-> "leaving", entry |-> "files", guards |-> <<SettingsGuard, GenerationGuard>>])
    BY DEF Stacked, FilesStacked
  <2>5. World({"settings", "generation"}, "files")' /\ ProcessSane'
    BY <1>1, <1>2, <1>5, <2>1, <2>2 DEF World, ProcessSane, UniverseGuard, IsoAfter, ExprsAfter, MiterAfter
  <2> QED BY <1>1, <1>2, <1>5, <2>3, <2>4, <2>5, KindsOf, Moves
<1>6. CASE call[h].entry = "designs" /\ call[h].guards = <<NajaGuard>>
  <2>1. Head(call[h].guards) = NajaGuard /\ Tail(call[h].guards) = <<>>
    BY <1>6, PushedOnNone, Zenon
  <2>2. World({"naja"}, "designs")
    BY <1>2, <1>6, KindsOf
  <2>3. Entering(h, call[h].entry, "leaving", <<>>)
    BY <1>1, <2>1
  <2>4. Stacked([stage |-> "leaving", entry |-> "designs", guards |-> <<>>])
    BY DEF Stacked, DesignsStacked
  <2>5. World({}, "designs")' /\ ProcessSane'
    BY <1>1, <1>2, <1>6, <2>1, <2>2 DEF World, ProcessSane, NajaGuard, IsoAfter, ExprsAfter, MiterAfter
  <2> QED BY <1>1, <1>2, <1>6, <2>3, <2>4, <2>5, KindsOf, Moves
<1>7. CASE call[h].entry = "designs" /\ call[h].guards = <<GenerationGuard, NajaGuard>>
  <2>1. Head(call[h].guards) = GenerationGuard /\ Tail(call[h].guards) = <<NajaGuard>>
    BY <1>7, PushedOnOne, Zenon
  <2>2. World({"generation", "naja"}, "designs")
    BY <1>2, <1>7, KindsOf
  <2>3. Entering(h, call[h].entry, "leaving", <<NajaGuard>>)
    BY <1>1, <2>1
  <2>4. Stacked([stage |-> "leaving", entry |-> "designs", guards |-> <<NajaGuard>>])
    BY DEF Stacked, DesignsStacked
  <2>5. World({"naja"}, "designs")' /\ ProcessSane'
    BY <1>1, <1>2, <1>7, <2>1, <2>2 DEF World, ProcessSane, GenerationGuard, IsoAfter, ExprsAfter, MiterAfter
  <2> QED BY <1>1, <1>2, <1>7, <2>3, <2>4, <2>5, KindsOf, Moves
<1>8. ASSUME NEW heap \in HostHeaps, call[h].entry = "designs", call[h].guards = <<ExpressionsGuard(heap), GenerationGuard, NajaGuard>>
      PROVE  CallMoved(h, {"leaving"})
  <2>1. Head(call[h].guards) = ExpressionsGuard(heap) /\ Tail(call[h].guards) = <<GenerationGuard, NajaGuard>>
    <3>1. Head(<<ExpressionsGuard(heap), GenerationGuard, NajaGuard>>) = ExpressionsGuard(heap)
      BY PushedOnTwo, Zenon
    <3>2. Tail(<<ExpressionsGuard(heap), GenerationGuard, NajaGuard>>) = <<GenerationGuard, NajaGuard>>
      BY PushedOnTwo, Zenon
    <3> QED BY <1>8, <3>1, <3>2
  <2>2. World({"expressions", "generation", "naja"}, "designs")
    BY <1>2, <1>8, KindsOf
  <2>3. Entering(h, call[h].entry, "leaving", <<GenerationGuard, NajaGuard>>)
    BY <1>1, <2>1
  <2>4. Stacked([stage |-> "leaving", entry |-> "designs", guards |-> <<GenerationGuard, NajaGuard>>])
    BY DEF Stacked, DesignsStacked
  <2>5. World({"generation", "naja"}, "designs")' /\ ProcessSane'
    BY <1>1, <1>2, <1>8, <2>1, <2>2 DEF World, ProcessSane, ExpressionsGuard, IsoAfter, ExprsAfter, MiterAfter, HostHeaps
  <2> QED BY <1>1, <1>2, <1>8, <2>3, <2>4, <2>5, KindsOf, Moves
<1>9. ASSUME NEW heap \in HostHeaps, call[h].entry = "designs", call[h].guards = <<SettingsGuard, ExpressionsGuard(heap), GenerationGuard, NajaGuard>>
      PROVE  CallMoved(h, {"leaving"})
  <2>1. Head(call[h].guards) = SettingsGuard /\ Tail(call[h].guards) = <<ExpressionsGuard(heap), GenerationGuard, NajaGuard>>
    <3>1. Head(<<SettingsGuard, ExpressionsGuard(heap), GenerationGuard, NajaGuard>>) = SettingsGuard
      BY PushedOnThree, Zenon
    <3>2. Tail(<<SettingsGuard, ExpressionsGuard(heap), GenerationGuard, NajaGuard>>) = <<ExpressionsGuard(heap), GenerationGuard, NajaGuard>>
      OBVIOUS
    <3> QED BY <1>9, <3>1, <3>2
  <2>2. World({"settings", "expressions", "generation", "naja"}, "designs")
    BY <1>2, <1>9, KindsOf
  <2>3. Entering(h, call[h].entry, "leaving", <<ExpressionsGuard(heap), GenerationGuard, NajaGuard>>)
    BY <1>1, <2>1
  <2>4. Stacked([stage |-> "leaving", entry |-> "designs", guards |-> <<ExpressionsGuard(heap), GenerationGuard, NajaGuard>>])
    BY DEF Stacked, DesignsStacked
  <2>5. World({"expressions", "generation", "naja"}, "designs")' /\ ProcessSane'
    BY <1>1, <1>2, <1>9, <2>1, <2>2 DEF World, ProcessSane, SettingsGuard, IsoAfter, ExprsAfter, MiterAfter, HostHeaps
  <2> QED BY <1>1, <1>2, <1>9, <2>3, <2>4, <2>5, KindsOf, Moves
<1>10. CASE call[h].entry = "files" /\ FilesStacked(call[h])
  BY <1>1, <1>3, <1>4, <1>5, <1>10 DEF FilesStacked
<1>11. CASE call[h].entry = "designs" /\ DesignsStacked(call[h])
  BY <1>1, <1>6, <1>7, <1>8, <1>9, <1>11 DEF DesignsStacked
<1> QED BY <1>2, <1>10, <1>11 DEF Stacked

-----------------------------------------------------------------------------
(* Every step *)

\* Without guards the process is as the host left it, whoever calls.
LEMMA NothingHeld ==
  ASSUME NEW e
  PROVE  World({}, e) <=> World({}, None)
BY DEF World

LEMMA ProcessKept ==
  ASSUME WorldRight, InCall' = InCall, \A h \in InCall : call'[h] = call[h],
         UNCHANGED <<config, heaps, designState>>
  PROVE  WorldRight'
<1>1. UNCHANGED <<generation, nextGeneration, settings, exprs, iso, universe, naja, miter>>
  BY DEF config, heaps, designState
<1>2. ASSUME NEW h \in InCall
      PROVE  World(Kinds(call[h].guards), call[h].entry)'
  <2>1. World(Kinds(call[h].guards), call[h].entry)
    BY DEF WorldRight
  <2>2. call'[h].guards = call[h].guards /\ call'[h].entry = call[h].entry
    OBVIOUS
  <2> QED BY <1>1, <2>1, <2>2 DEF World
<1>3. InCall = {} => World({}, None)'
  BY <1>1 DEF WorldRight, World
<1> QED BY <1>1, <1>2, <1>3 DEF WorldRight

LEMMA ProcessEntered ==
  ASSUME CallsRight, WorldRight, NEW h \in Hosts, Lock(h)
  PROVE  WorldRight'
<1>1. UNCHANGED <<generation, nextGeneration, settings, exprs, iso, universe, naja, miter>>
  BY DEF Lock, config, heaps, designState
<1>2. InCall = {} /\ InCall' = {h} /\ call'[h].guards = <<>>
  BY Enters
<1>3. World({}, None)'
  BY <1>1, <1>2 DEF WorldRight, World
<1>4. Kinds(call'[h].guards) = {}
  BY <1>2, KindsOf
<1>5. World(Kinds(call[h].guards), call[h].entry)'
  BY <1>3, <1>4 DEF World
<1> QED BY <1>1, <1>2, <1>5 DEF WorldRight

LEMMA ProcessLeft ==
  ASSUME CallsRight, WorldRight, NEW h \in Hosts, Leave(h)
  PROVE  WorldRight'
<1>1. UNCHANGED <<generation, nextGeneration, settings, exprs, iso, universe, naja, miter>>
  BY DEF Leave, config, heaps, designState
<1>2. InCall = {h} /\ InCall' = {} /\ call[h].guards = <<>>
  BY Leaves
<1>3. World(Kinds(call[h].guards), call[h].entry) /\ Kinds(call[h].guards) = {}
  BY <1>2, WorldOf, KindsOf
<1>4. World({}, call[h].entry)
  BY <1>3
<1>5. World({}, None)
  BY <1>4, NothingHeld
<1>6. World({}, None)'
  BY <1>1, <1>5 DEF World
<1> QED BY <1>1, <1>2, <1>6 DEF WorldRight

LEMMA CallStepKeeps ==
  ASSUME CallsRight, WorldRight, NEW h \in Hosts, CallStep(h)
  PROVE  CallsRight' /\ WorldRight'
<1>1. ASSUME NEW entry \in Entries, Begin(h, entry)
      PROVE  CallsRight' /\ WorldRight'
  <2>1. CallsRight' /\ InCall' = InCall /\ \A o \in InCall : call'[o] = call[o]
    BY <1>1, Waits
  <2>2. UNCHANGED <<config, heaps, designState>>
    BY <1>1 DEF Begin
  <2> QED BY <2>1, <2>2, ProcessKept
<1>2. CASE Lock(h)
  BY <1>2, Enters, ProcessEntered
<1>3. CASE Leave(h)
  BY <1>3, Leaves, ProcessLeft
<1>4. CASE GuardNaja(h)
  BY <1>4, NajaSetAside DEF CallMoved
<1>5. CASE GuardGeneration(h)
  BY <1>5, GenerationTaken DEF CallMoved
<1>6. CASE GuardExpressions(h)
  BY <1>6, ExpressionsSwapped DEF CallMoved
<1>7. CASE CheckUniverse(h)
  BY <1>7, UniverseChecked DEF CallMoved
<1>8. CASE GuardSettings(h)
  BY <1>8, SettingsTaken DEF CallMoved
<1>9. CASE LoggerFails(h) \/ Finish(h)
  BY <1>9, GoesToLeave DEF CallMoved
<1>10. CASE Start(h)
  BY <1>10, Starts DEF CallMoved
<1>11. CASE Unwind(h)
  BY <1>11, Unwinds DEF CallMoved
<1> QED
  BY <1>1, <1>2, <1>3, <1>4, <1>5, <1>6, <1>7, <1>8, <1>9, <1>10, <1>11 DEF CallStep

\* A step of the pool is none of the calls'.
LEMMA TaskStepApart ==
  ASSUME NEW t \in Pool, TaskStep(t)
  PROVE  UNCHANGED <<call, mutex, config, heaps, designState, calls, edits>>
BY DEF TaskStep, FindLocal, FindShared, Build, Publish, FindTerms, Use, caches

LEMMA CallsKept ==
  ASSUME CallsRight, UNCHANGED <<call, mutex>>
  PROVE  CallsRight' /\ InCall' = InCall /\ \A h \in InCall : call'[h] = call[h]
BY DEF CallsRight, InCall

LEMMA EditKeeps ==
  ASSUME CallsRight, WorldRight, HostEdit
  PROVE  CallsRight' /\ WorldRight'
<1>1. /\ InCall = {} /\ universe' \in Designs \cup {None}
      /\ UNCHANGED <<call, mutex, generation, nextGeneration, settings, exprs, iso, naja, miter>>
  BY DEF HostEdit, config, heaps
<1>2. CallsRight' /\ InCall' = {}
  BY <1>1, CallsKept
<1>3. World({}, None)'
  BY <1>1 DEF WorldRight, World
<1> QED BY <1>1, <1>2, <1>3 DEF WorldRight

LEMMA HostStep ==
  ASSUME CallsRight, WorldRight, [Next]_vars
  PROVE  CallsRight' /\ WorldRight'
<1>1. ASSUME NEW h \in Hosts, CallStep(h)
      PROVE  CallsRight' /\ WorldRight'
  BY <1>1, CallStepKeeps
<1>2. ASSUME NEW t \in Pool, TaskStep(t)
      PROVE  CallsRight' /\ WorldRight'
  BY <1>2, TaskStepApart, CallsKept, ProcessKept
<1>3. CASE HostEdit
  BY <1>3, EditKeeps
<1>4. CASE UNCHANGED vars
  BY <1>4, CallsKept, ProcessKept DEF vars
<1> QED BY <1>1, <1>2, <1>3, <1>4 DEF Next

LEMMA HostInit ==
  ASSUME Init
  PROVE  CallsRight /\ WorldRight
<1>1. \A h \in Hosts : call[h] = NoCall
  BY DEF Init
<1>2. InCall = {}
  BY <1>1, StageOf DEF InCall
<1>3. CallsRight
  BY <1>1, <1>2 DEF CallsRight, Init
<1>4. WorldRight
  BY <1>2 DEF WorldRight, World, Init
<1> QED BY <1>3, <1>4

\* One call at a time is between its first and its last change of the process,
\* its guards hold what it will put back, and without a call the process is as
\* the host left it.
THEOREM ProcessGuarded == Spec => [](CallsRight /\ WorldRight)
<1>1. Init => CallsRight /\ WorldRight
  BY HostInit
<1>2. CallsRight /\ WorldRight /\ [Next]_vars => (CallsRight /\ WorldRight)'
  BY HostStep
<1> QED BY <1>1, <1>2, PTL DEF Spec

\* The invariant of the calls says that the host's state is restored.
LEMMA RestoredByGuards ==
  ASSUME CallsRight, WorldRight
  PROVE  HostStateRestored
<1>1. Cardinality(InCall) <= 1
  <2>1. CASE InCall = {}
    BY <2>1, FS_EmptySet
  <2>2. ASSUME NEW h \in InCall
        PROVE  Cardinality(InCall) <= 1
    <3>1. InCall = {h}
      BY <2>2, Alone
    <3>2. Cardinality({h}) = 1
      BY FS_Singleton
    <3> QED BY <3>1, <3>2
  <2> QED BY <2>1, <2>2
<1>2. iso \subseteq exprs
  BY DEF WorldRight
<1>3. ASSUME InCall = {}
      PROVE  /\ generation = 0 /\ settings = "host" /\ naja = "host" /\ miter = None
             /\ "call" \notin exprs
  BY <1>3 DEF WorldRight, World
<1> QED BY <1>1, <1>2, <1>3 DEF HostStateRestored, OneCallAtATime, MapPointsToLiveNodes

\* HostStateRestored holds for any number of host threads, workers and calls.
THEOREM HostRestored == Spec => []HostStateRestored
<1>1. CallsRight /\ WorldRight => HostStateRestored
  BY RestoredByGuards
<1> QED BY <1>1, ProcessGuarded, PTL

-----------------------------------------------------------------------------
(* The caches and the lookups *)

\* A call has its generation and has not started its proof.
Starting ==
  \E h \in Hosts : call[h].stage \in {"universe", "expressions", "settings", "starting"}

\* Nothing is cached for the generation of a call before its proof starts, and
\* then only what describes its design.
CacheRight(c) ==
  /\ c = [generation |-> c.generation, of |-> c.of]
  /\ c.generation \in Nat /\ c.generation < nextGeneration
  /\ Starting => c.generation # generation
  /\ Running /\ c.generation = generation => c.of \in {None, universe}

\* A worker is in a lookup during a proof only, on caches of the call.
Finding(t) == task[t] = [at |-> "shared", generation |-> generation] /\ local[t].generation = generation
Deriving(t) ==
  /\ task[t] \in {[at |-> "build", generation |-> generation], [at |-> "publish", of |-> universe]}
  /\ local[t].generation = generation /\ shared.tables.generation = generation
Answered(t) == task[t] = [at |-> "done", of |-> universe]
TaskRight(t) == task[t] = NoTask \/ (Running /\ (Finding(t) \/ Deriving(t) \/ Answered(t)))

WorkRight ==
  /\ task = [t \in Pool |-> task[t]] /\ local = [t \in Pool |-> local[t]]
  /\ shared = [tables |-> shared.tables, terms |-> shared.terms]
  /\ CacheRight(shared.tables) /\ CacheRight(shared.terms)
  /\ \A t \in Pool : CacheRight(local[t]) /\ TaskRight(t)

\* No lookup is in progress: a call that takes a generation takes a new one,
\* and a proof starts on the generation the call has taken.
LEMMA QuietKeeps ==
  ASSUME WorkRight, WorldRight, \A t \in Pool : task[t] = NoTask,
         UNCHANGED <<task, caches>>, nextGeneration' \in {nextGeneration, nextGeneration + 1},
         Starting' => (Starting /\ generation' = generation) \/ generation' = nextGeneration,
         Running' => Starting /\ generation' = generation
  PROVE  WorkRight'
<1>1. shared' = shared /\ local' = local /\ task' = task
  BY DEF caches
<1>2. nextGeneration \in Nat /\ nextGeneration' \in Nat /\ nextGeneration' >= nextGeneration
  BY DEF WorldRight
<1>3. ASSUME NEW c, CacheRight(c)
      PROVE  CacheRight(c)'
  BY <1>2, <1>3 DEF CacheRight
<1>4. CacheRight(shared.tables)' /\ CacheRight(shared.terms)'
  BY <1>1, <1>3 DEF WorkRight
<1>5. ASSUME NEW t \in Pool
      PROVE  CacheRight(local[t])' /\ TaskRight(t)'
  BY <1>1, <1>3 DEF WorkRight, TaskRight
<1> QED BY <1>1, <1>4, <1>5 DEF WorkRight

\* Outside a proof no worker is in a lookup.
LEMMA IdleOutside ==
  ASSUME WorkRight, ~ Running
  PROVE  \A t \in Pool : task[t] = NoTask
BY DEF WorkRight, TaskRight

LEMMA StepApartKeeps ==
  ASSUME WorkRight, Starting' = Starting, Running' = Running,
         UNCHANGED <<task, caches, generation, nextGeneration, universe>>
  PROVE  WorkRight'
<1>1. shared' = shared /\ local' = local /\ task' = task
  BY DEF caches
<1>2. ASSUME NEW c, CacheRight(c)
      PROVE  CacheRight(c)'
  BY <1>2 DEF CacheRight
<1>3. CacheRight(shared.tables)' /\ CacheRight(shared.terms)'
  BY <1>1, <1>2 DEF WorkRight
<1>4. ASSUME NEW t \in Pool
      PROVE  CacheRight(local[t])' /\ TaskRight(t)'
  BY <1>1, <1>2 DEF WorkRight, TaskRight, Finding, Deriving, Answered
<1> QED BY <1>1, <1>3, <1>4 DEF WorkRight

\* Where the only call stands.
LEMMA StageOfCaller ==
  ASSUME NEW h \in Hosts, NEW stage, call[h].stage = stage,
         \A o \in Hosts \ {h} : call[o].stage \in {"none", "locking"}
  PROVE  /\ Running <=> stage = "running"
         /\ Starting <=> stage \in {"universe", "expressions", "settings", "starting"}
BY DEF Running, Starting

LEMMA MovedStage ==
  ASSUME NEW h \in Hosts, NEW stages, CallMoved(h, stages)
  PROVE  /\ Running' <=> call'[h].stage = "running"
         /\ Starting' <=> call'[h].stage \in {"universe", "expressions", "settings", "starting"}
         /\ call'[h].stage \in stages
<1>1. InCall' = {h} /\ call'[h].stage \in stages
  BY DEF CallMoved
<1>2. \A o \in Hosts \ {h} : call'[o].stage \in {"none", "locking"}
  BY <1>1 DEF InCall
<1> QED BY <1>1, <1>2 DEF Running, Starting

LEMMA NoCaller ==
  ASSUME InCall = {}
  PROVE  ~ Running /\ ~ Starting
BY DEF InCall, Running, Starting

LEMMA CallStepWork ==
  ASSUME CallsRight, WorldRight, WorkRight, NEW h \in Hosts, CallStep(h)
  PROVE  WorkRight'
<1>1. ASSUME NEW entry \in Entries, Begin(h, entry)
      PROVE  WorkRight'
  <2>1. /\ call[h].stage = "none" /\ call' = [call EXCEPT ![h] = [stage |-> "locking", entry |-> entry, guards |-> <<>>]]
        /\ UNCHANGED <<task, caches, generation, nextGeneration, universe>>
    BY <1>1 DEF Begin, Entering, work, caches, config, designState
  <2>2. call'[h].stage = "locking" /\ \A o \in Hosts \ {h} : call'[o] = call[o]
    BY <2>1 DEF CallsRight
  <2>3. Running' = Running /\ Starting' = Starting
    BY <2>1, <2>2 DEF Running, Starting
  <2> QED BY <2>1, <2>3, StepApartKeeps
<1>2. CASE Lock(h)
  <2>1. /\ UNCHANGED <<task, caches>> /\ nextGeneration' = nextGeneration
    BY <1>2 DEF Lock, work, config
  <2>2. /\ InCall = {} /\ InCall' = {h} /\ call'[h].stage \in {"generation", "naja", "leaving"}
    BY <1>2, Enters
  <2>3. ~ Running' /\ ~ Starting'
    BY <2>2 DEF InCall, Running, Starting
  <2>4. \A t \in Pool : task[t] = NoTask
    BY <2>2, NoCaller, IdleOutside
  <2> QED BY <2>1, <2>3, <2>4, QuietKeeps
<1>3. CASE Leave(h)
  <2>1. UNCHANGED <<task, caches>> /\ nextGeneration' = nextGeneration /\ call[h].stage = "leaving"
    BY <1>3 DEF Leave, work, config
  <2>2. InCall = {h} /\ InCall' = {}
    BY <1>3, Leaves
  <2>3. ~ Running' /\ ~ Starting' /\ ~ Running
    BY <2>1, <2>2 DEF InCall, Running, Starting
  <2>4. \A t \in Pool : task[t] = NoTask
    BY <2>3, IdleOutside
  <2> QED BY <2>1, <2>3, <2>4, QuietKeeps
<1>4. ASSUME NEW stage, NEW stages, call[h].stage = stage,
             stage \notin {"none", "locking", "running"}, CallMoved(h, stages),
             UNCHANGED <<task, caches>>, nextGeneration' \in {nextGeneration, nextGeneration + 1},
             \/ stages = {"leaving"} \/ stages = {"generation"}
             \/ stage = "generation" /\ generation' = nextGeneration /\ "running" \notin stages
             \/ /\ stage \in {"universe", "expressions", "settings", "starting"}
                /\ generation' = generation
      PROVE  WorkRight'
  <2>1. h \in InCall
    BY <1>4 DEF InCall
  <2>2. \A o \in Hosts \ {h} : call[o].stage \in {"none", "locking"}
    BY <2>1, Alone
  <2>3. /\ Running <=> stage = "running"
        /\ Starting <=> stage \in {"universe", "expressions", "settings", "starting"}
    BY <1>4, <2>2, StageOfCaller
  <2>4. \A t \in Pool : task[t] = NoTask
    BY <1>4, <2>3, IdleOutside
  <2>5. /\ Running' <=> call'[h].stage = "running"
        /\ Starting' <=> call'[h].stage \in {"universe", "expressions", "settings", "starting"}
        /\ call'[h].stage \in stages
    BY <1>4, MovedStage
  <2>6. Starting' => (Starting /\ generation' = generation) \/ generation' = nextGeneration
    BY <1>4, <2>3, <2>5
  <2>7. Running' => Starting /\ generation' = generation
    BY <1>4, <2>3, <2>5
  <2> QED BY <1>4, <2>4, <2>6, <2>7, QuietKeeps
<1>5. CASE GuardNaja(h)
  <2>1. /\ call[h].stage = "naja" /\ UNCHANGED <<task, caches>> /\ nextGeneration' = nextGeneration
    BY <1>5 DEF GuardNaja, work, config
  <2> QED BY <1>4, <1>5, <2>1, NajaSetAside
<1>6. CASE GuardGeneration(h)
  <2>1. /\ call[h].stage = "generation" /\ UNCHANGED <<task, caches>>
        /\ nextGeneration' = nextGeneration + 1 /\ generation' = nextGeneration
    BY <1>6 DEF GuardGeneration, work
  <2> QED BY <1>4, <1>6, <2>1, GenerationTaken
<1>7. CASE GuardExpressions(h)
  <2>1. /\ call[h].stage = "expressions" /\ UNCHANGED <<task, caches>>
        /\ nextGeneration' = nextGeneration /\ generation' = generation
    BY <1>7 DEF GuardExpressions, work, config
  <2> QED BY <1>4, <1>7, <2>1, ExpressionsSwapped
<1>8. CASE CheckUniverse(h)
  <2>1. /\ call[h].stage = "universe" /\ UNCHANGED <<task, caches>>
        /\ nextGeneration' = nextGeneration /\ generation' = generation
    BY <1>8 DEF CheckUniverse, work, config
  <2> QED BY <1>4, <1>8, <2>1, UniverseChecked
<1>9. CASE GuardSettings(h)
  <2>1. /\ call[h].stage = "settings" /\ UNCHANGED <<task, caches>>
        /\ nextGeneration' = nextGeneration /\ generation' = generation
    BY <1>9 DEF GuardSettings, work
  <2> QED BY <1>4, <1>9, <2>1, SettingsTaken
<1>10. CASE LoggerFails(h)
  <2>1. /\ call[h].stage = "starting" /\ UNCHANGED <<task, caches>>
        /\ nextGeneration' = nextGeneration /\ generation' = generation
    BY <1>10 DEF LoggerFails, work, config
  <2> QED BY <1>4, <1>10, <2>1, GoesToLeave
<1>11. CASE Finish(h)
  <2>1. /\ UNCHANGED <<task, caches>> /\ nextGeneration' = nextGeneration
        /\ \A t \in Pool : task[t] = NoTask
    BY <1>11 DEF Finish, work, config
  <2>2. ~ Running' /\ ~ Starting'
    BY <1>11, GoesToLeave, MovedStage
  <2> QED BY <2>1, <2>2, QuietKeeps
<1>12. CASE Start(h)
  <2>1. /\ call[h].stage = "starting" /\ UNCHANGED <<task, caches>>
        /\ nextGeneration' = nextGeneration /\ generation' = generation
    BY <1>12 DEF Start, config
  <2> QED BY <1>4, <1>12, <2>1, Starts
<1>13. CASE Unwind(h)
  <2>1. /\ call[h].stage = "leaving" /\ UNCHANGED <<task, caches>> /\ nextGeneration' = nextGeneration
    BY <1>13 DEF Unwind, work
  <2> QED BY <1>4, <1>13, <2>1, Unwinds
<1> QED
  BY <1>1, <1>2, <1>3, <1>5, <1>6, <1>7, <1>8, <1>9, <1>10, <1>11, <1>12, <1>13 DEF CallStep

LEMMA NotBoth ==
  ASSUME CallsRight, Running
  PROVE  ~ Starting
<1>1. PICK h \in Hosts : call[h].stage = "running"
  BY DEF Running
<1>2. h \in InCall
  BY <1>1 DEF InCall
<1>3. \A o \in Hosts \ {h} : call[o].stage \in {"none", "locking"}
  BY <1>2, Alone
<1> QED BY <1>1, <1>3, StageOfCaller

\* A worker's step leaves the others' lookups right: it keeps the generation of
\* the shared tables, or sets it to the one of the call.
LEMMA LookupKeeps ==
  ASSUME CallsRight, WorldRight, WorkRight, NEW t \in Pool, Running,
         UNCHANGED <<call, generation, nextGeneration, universe>>,
         NEW step, NEW cache, task' = [task EXCEPT ![t] = step], local' = [local EXCEPT ![t] = cache],
         shared' = [tables |-> shared.tables, terms |-> shared.terms]',
         CacheRight(shared.tables)', CacheRight(shared.terms)', CacheRight(cache),
         local[t].generation = generation => cache.generation = generation,
         \/ shared'.tables.generation = shared.tables.generation
         \/ shared'.tables.generation = generation,
         \/ step = NoTask
         \/ step = [at |-> "shared", generation |-> generation] /\ cache.generation = generation
         \/ /\ step \in {[at |-> "build", generation |-> generation], [at |-> "publish", of |-> universe]}
            /\ cache.generation = generation /\ shared'.tables.generation = generation
         \/ step = [at |-> "done", of |-> universe]
  PROVE  WorkRight'
<1>1. Running' = Running /\ Starting' = Starting
  BY DEF Running, Starting
<1>2. /\ task'[t] = step /\ local'[t] = cache
      /\ \A o \in Pool \ {t} : task'[o] = task[o] /\ local'[o] = local[o]
      /\ task' = [o \in Pool |-> task'[o]] /\ local' = [o \in Pool |-> local'[o]]
  BY DEF WorkRight
<1>3. ASSUME NEW c, CacheRight(c)
      PROVE  CacheRight(c)'
  BY <1>1, <1>3 DEF CacheRight
<1>4. CacheRight(local[t])' /\ TaskRight(t)'
  <2>1. CacheRight(local[t])'
    BY <1>2, <1>3
  <2>2. TaskRight(t)'
    BY <1>1, <1>2 DEF TaskRight, Finding, Deriving, Answered
  <2> QED BY <2>1, <2>2
<1>5. ASSUME NEW o \in Pool \ {t}
      PROVE  CacheRight(local[o])' /\ TaskRight(o)'
  BY <1>1, <1>2, <1>3 DEF WorkRight, TaskRight, Finding, Deriving, Answered
<1> QED BY <1>2, <1>4, <1>5 DEF WorkRight

\* An empty cache of the call's generation, or one that describes its design.
LEMMA CacheOfCall ==
  ASSUME CallsRight, WorldRight, Running, NEW of \in {None, universe}
  PROVE  CacheRight([generation |-> generation, of |-> of])
BY NotBoth DEF CacheRight, WorldRight

LEMMA TaskStepWork ==
  ASSUME CallsRight, WorldRight, WorkRight, NEW t \in Pool, TaskStep(t)
  PROVE  WorkRight'
<1>1. UNCHANGED <<call, generation, nextGeneration, universe>>
  BY TaskStepApart DEF config, designState
<1>2. Running' = Running /\ Starting' = Starting
  BY <1>1 DEF Running, Starting
<1>3. /\ CacheRight(shared.tables) /\ CacheRight(shared.terms) /\ CacheRight(local[t]) /\ TaskRight(t)
      /\ shared = [tables |-> shared.tables, terms |-> shared.terms]
  BY DEF WorkRight
<1>4. ASSUME NEW c, CacheRight(c)
      PROVE  CacheRight(c)'
  BY <1>1, <1>2, <1>4 DEF CacheRight
<1>5. task[t] = NoTask => ~ (task[t].at \in {"shared", "build", "publish", "done"})
  BY DEF NoTask
<1>6. local = [local EXCEPT ![t] = local[t]]
  BY DEF WorkRight
<1>7. CASE FindLocal(t)
  <2>1. /\ Running /\ shared' = shared /\ local' = [local EXCEPT ![t] = Refreshed(t)]
        /\ task' = [task EXCEPT ![t] = IF Refreshed(t).of # None
                                       THEN [at |-> "done", of |-> Refreshed(t).of]
                                       ELSE [at |-> "shared", generation |-> generation]]
    BY <1>7 DEF FindLocal
  <2>2. CacheRight(Refreshed(t)) /\ Refreshed(t).generation = generation
    BY <1>3, <2>1, CacheOfCall DEF Refreshed
  <2>3. Refreshed(t).of \in {None, universe}
    BY <2>1, <2>2 DEF CacheRight
  <2>4. CacheRight(shared.tables)' /\ CacheRight(shared.terms)'
    BY <1>3, <1>4, <2>1
  <2> DEFINE step == IF Refreshed(t).of # None THEN [at |-> "done", of |-> Refreshed(t).of]
                     ELSE [at |-> "shared", generation |-> generation]
  <2>5. step = [at |-> "done", of |-> universe] \/ step = [at |-> "shared", generation |-> generation]
    BY <2>3
  <2>6. shared' = [tables |-> shared.tables, terms |-> shared.terms]'
    BY <1>3, <2>1
  <2>7. PICK s, cache : s = step /\ cache = Refreshed(t)
    OBVIOUS
  <2> HIDE DEF step
  <2>8. task' = [task EXCEPT ![t] = s] /\ local' = [local EXCEPT ![t] = cache]
    BY <2>1, <2>7 DEF step
  <2>9. CacheRight(cache) /\ cache.generation = generation
    BY <2>2, <2>7
  <2> QED BY <1>1, <2>1, <2>4, <2>5, <2>6, <2>7, <2>8, <2>9, LookupKeeps
<1>8. CASE FindShared(t)
  <2> DEFINE found == IF shared.tables.generation # task[t].generation
                      THEN [generation |-> task[t].generation, of |-> None] ELSE shared.tables
  <2>1. /\ task[t].at = "shared" /\ shared' = [shared EXCEPT !.tables = found]
        /\ IF found.of # None
           THEN /\ task' = [task EXCEPT ![t] = [at |-> "done", of |-> found.of]]
                /\ local' = [local EXCEPT ![t].of = found.of]
           ELSE task' = [task EXCEPT ![t].at = "build"] /\ local' = local
    BY <1>8 DEF FindShared
  <2>2. Running /\ Finding(t)
    BY <1>3, <1>5, <2>1 DEF TaskRight, Deriving, Answered
  <2>3. task[t] = [at |-> "shared", generation |-> generation] /\ local[t].generation = generation
    BY <2>2 DEF Finding
  <2>4. CacheRight(found) /\ found.generation = generation
    BY <1>3, <2>2, <2>3, CacheOfCall
  <2>5. found.of \in {None, universe}
    BY <2>2, <2>4 DEF CacheRight
  <2>6. shared' = [tables |-> found, terms |-> shared.terms]
    BY <1>3, <2>1
  <2>7. /\ shared' = [tables |-> shared.tables, terms |-> shared.terms]'
        /\ CacheRight(shared.tables)' /\ CacheRight(shared.terms)'
        /\ shared'.tables.generation = generation
    BY <1>3, <1>4, <2>4, <2>6
  <2> HIDE DEF found
  <2>8. CASE found.of # None
    <3>1. found.of = universe
      BY <2>5, <2>8
    <3>2. task' = [task EXCEPT ![t] = [at |-> "done", of |-> universe]]
      BY <2>1, <2>8, <3>1
    <3>3. PICK cache : cache = [generation |-> generation, of |-> universe]
      OBVIOUS
    <3>4. local' = [local EXCEPT ![t] = cache]
      BY <1>3, <2>1, <2>3, <2>8, <3>1, <3>3 DEF WorkRight, CacheRight
    <3>5. CacheRight(cache) /\ cache.generation = generation
      BY <2>2, <3>3, CacheOfCall
    <3> QED BY <1>1, <2>2, <2>7, <3>2, <3>4, <3>5, LookupKeeps
  <2>9. CASE found.of = None
    <3>1. task' = [task EXCEPT ![t] = [at |-> "build", generation |-> generation]]
      BY <2>1, <2>3, <2>9 DEF WorkRight
    <3>2. local' = [local EXCEPT ![t] = local[t]]
      BY <1>6, <2>1, <2>9
    <3> QED BY <1>1, <1>3, <2>2, <2>3, <2>7, <3>1, <3>2, LookupKeeps
  <2> QED BY <2>8, <2>9
<1>9. CASE Build(t)
  <2>1. /\ task[t].at = "build" /\ shared' = shared /\ local' = local
        /\ task' = [task EXCEPT ![t] = [at |-> "publish", of |-> universe]]
    BY <1>9 DEF Build, caches
  <2>2. Running /\ Deriving(t)
    BY <1>3, <1>5, <2>1 DEF TaskRight, Finding, Answered
  <2>3. local[t].generation = generation /\ shared'.tables.generation = generation
    BY <2>1, <2>2 DEF Deriving
  <2>4. /\ CacheRight(shared.tables)' /\ CacheRight(shared.terms)'
        /\ shared' = [tables |-> shared.tables, terms |-> shared.terms]'
    BY <1>3, <1>4, <2>1
  <2>5. local' = [local EXCEPT ![t] = local[t]]
    BY <1>6, <2>1
  <2> QED BY <1>1, <1>3, <2>1, <2>2, <2>3, <2>4, <2>5, LookupKeeps
<1>10. CASE Publish(t)
  <2> DEFINE of == IF shared.tables.of # None THEN shared.tables.of ELSE task[t].of
  <2>1. /\ task[t].at = "publish" /\ shared' = [shared EXCEPT !.tables.of = of]
        /\ local' = [local EXCEPT ![t].of = of] /\ task' = [task EXCEPT ![t] = [at |-> "done", of |-> of]]
    BY <1>10 DEF Publish
  <2>2. Running /\ Deriving(t)
    BY <1>3, <1>5, <2>1 DEF TaskRight, Finding, Answered
  <2>3. /\ task[t] = [at |-> "publish", of |-> universe] /\ local[t].generation = generation
        /\ shared.tables.generation = generation
    BY <2>1, <2>2 DEF Deriving
  <2>4. of = universe
    BY <1>3, <2>2, <2>3 DEF CacheRight
  <2> HIDE DEF of
  <2>5. PICK cache : cache = [generation |-> generation, of |-> universe]
    OBVIOUS
  <2>6. local' = [local EXCEPT ![t] = cache]
    <3>1. local' = [local EXCEPT ![t].of = universe]
      BY <2>1, <2>4
    <3>2. local[t] = [generation |-> generation, of |-> local[t].of]
      BY <1>3, <2>3 DEF CacheRight
    <3>3. [local[t] EXCEPT !.of = universe] = cache
      BY <2>5, <3>2
    <3>4. local' = [local EXCEPT ![t] = [local[t] EXCEPT !.of = universe]]
      BY <3>1
    <3> QED BY <3>3, <3>4
  <2>7. shared' = [tables |-> cache, terms |-> shared.terms]
    BY <1>3, <2>1, <2>3, <2>4, <2>5 DEF CacheRight
  <2>8. CacheRight(cache) /\ cache.generation = generation
    BY <2>2, <2>5, CacheOfCall
  <2>9. /\ shared' = [tables |-> shared.tables, terms |-> shared.terms]'
        /\ CacheRight(shared.tables)' /\ CacheRight(shared.terms)'
        /\ shared'.tables.generation = generation
    BY <1>3, <1>4, <2>7, <2>8
  <2>10. task' = [task EXCEPT ![t] = [at |-> "done", of |-> universe]]
    BY <2>1, <2>4
  <2> QED BY <1>1, <2>2, <2>6, <2>8, <2>9, <2>10, LookupKeeps
<1>11. CASE FindTerms(t)
  <2> DEFINE found == IF shared.terms.of # None /\ shared.terms.generation = generation
                      THEN shared.terms ELSE [generation |-> generation, of |-> universe]
  <2>1. /\ Running /\ shared' = [shared EXCEPT !.terms = found] /\ local' = local
        /\ task' = [task EXCEPT ![t] = [at |-> "done", of |-> found.of]]
    BY <1>11 DEF FindTerms
  <2>2. CacheRight(found) /\ found.of = universe
    BY <1>3, <2>1, CacheOfCall DEF CacheRight
  <2>3. shared' = [tables |-> shared.tables, terms |-> found]
    BY <1>3, <2>1
  <2> HIDE DEF found
  <2>4. /\ shared' = [tables |-> shared.tables, terms |-> shared.terms]'
        /\ CacheRight(shared.tables)' /\ CacheRight(shared.terms)'
        /\ shared'.tables.generation = shared.tables.generation
    BY <1>3, <1>4, <2>2, <2>3
  <2>5. local' = [local EXCEPT ![t] = local[t]]
    BY <1>6, <2>1
  <2>6. task' = [task EXCEPT ![t] = [at |-> "done", of |-> universe]]
    BY <2>1, <2>2
  <2> QED BY <1>1, <1>3, <2>1, <2>4, <2>5, <2>6, LookupKeeps
<1>12. CASE Use(t)
  <2>1. /\ task[t].at = "done" /\ shared' = shared /\ local' = local
        /\ task' = [task EXCEPT ![t] = NoTask]
    BY <1>12 DEF Use, caches
  <2>2. Running
    BY <1>3, <1>5, <2>1 DEF TaskRight
  <2>3. /\ CacheRight(shared.tables)' /\ CacheRight(shared.terms)'
        /\ shared' = [tables |-> shared.tables, terms |-> shared.terms]'
        /\ shared'.tables.generation = shared.tables.generation
    BY <1>3, <1>4, <2>1
  <2>4. local' = [local EXCEPT ![t] = local[t]]
    BY <1>6, <2>1
  <2> QED BY <1>1, <1>3, <2>1, <2>2, <2>3, <2>4, LookupKeeps
<1> QED BY <1>7, <1>8, <1>9, <1>10, <1>11, <1>12 DEF TaskStep

\* The host edits its design when no lookup is in progress.
LEMMA EditWork ==
  ASSUME WorldRight, WorkRight, HostEdit
  PROVE  WorkRight'
<1>1. /\ InCall = {} /\ UNCHANGED <<call, task, caches>> /\ nextGeneration' = nextGeneration
  BY DEF HostEdit, work, config
<1>2. ~ Running /\ ~ Running' /\ ~ Starting'
  BY <1>1 DEF InCall, Running, Starting
<1> QED BY <1>1, <1>2, IdleOutside, QuietKeeps

LEMMA WorkStep ==
  ASSUME CallsRight, WorldRight, WorkRight, [Next]_vars
  PROVE  WorkRight'
<1>1. ASSUME NEW h \in Hosts, CallStep(h)
      PROVE  WorkRight'
  BY <1>1, CallStepWork
<1>2. ASSUME NEW t \in Pool, TaskStep(t)
      PROVE  WorkRight'
  BY <1>2, TaskStepWork
<1>3. CASE HostEdit
  BY <1>3, EditWork
<1>4. CASE UNCHANGED vars
  <2>1. UNCHANGED <<call, task, caches, generation, nextGeneration, universe>>
    BY <1>4 DEF vars, config, designState, work
  <2>2. Running' = Running /\ Starting' = Starting
    BY <2>1 DEF Running, Starting
  <2> QED BY <2>1, <2>2, StepApartKeeps
<1> QED BY <1>1, <1>2, <1>3, <1>4 DEF Next

LEMMA WorkInit ==
  ASSUME Init
  PROVE  WorkRight
<1>1. \A h \in Hosts : call[h].stage = "none"
  BY DEF Init
<1>2. ~ Running /\ ~ Starting
  BY <1>1 DEF Running, Starting
<1>3. CacheRight(EmptyCache)
  BY <1>2 DEF CacheRight, EmptyCache, Init
<1> QED BY <1>3 DEF WorkRight, TaskRight, Init

\* The calls of a process never hand a worker what an earlier call cached: the
\* generation a call takes is new to every cache, and only workers of the call
\* write entries of that generation.
THEOREM CachesFollowTheCall == Spec => [](CallsRight /\ WorldRight /\ WorkRight)
<1>1. Init => CallsRight /\ WorldRight /\ WorkRight
  BY HostInit, WorkInit
<1>2. CallsRight /\ WorldRight /\ WorkRight /\ [Next]_vars
        => (CallsRight /\ WorldRight /\ WorkRight)'
  BY HostStep, WorkStep
<1> QED BY <1>1, <1>2, PTL DEF Spec

\* The invariant of the caches says that their answers are current.
LEMMA AnswersOfCaches ==
  ASSUME WorkRight
  PROVE  AnswersAreCurrent
BY DEF WorkRight, TaskRight, Finding, Deriving, Answered, AnswersAreCurrent, NoTask

\* AnswersAreCurrent holds for any number of threads, calls, edits and designs.
THEOREM AnswersCurrent == Spec => []AnswersAreCurrent
<1>1. WorkRight => AnswersAreCurrent
  BY AnswersOfCaches
<1> QED BY <1>1, CachesFollowTheCall, PTL

\* The types of the calls' state.
THEOREM HostTyped == Spec => []TypeOK
<1>1. ASSUME CallsRight, WorldRight, WorkRight
      PROVE  TypeOK
  <2>1. \A h \in Hosts : call[h].stage \in
        {"none", "locking", "naja", "generation", "expressions", "universe", "settings",
         "starting", "running", "leaving"}
    BY <1>1, StageOf DEF CallsRight
  <2>2. /\ mutex \in [Entries -> Hosts \cup {None}] /\ universe \in Designs \cup {None}
        /\ generation \in 0..(nextGeneration - 1)
    BY <1>1 DEF CallsRight, WorldRight
  <2>3. \A t \in Pool : local[t].generation < nextGeneration
    BY <1>1 DEF WorkRight, CacheRight
  <2> QED BY <2>1, <2>2, <2>3 DEF TypeOK
<1> QED BY <1>1, CachesFollowTheCall, PTL
-----------------------------------------------------------------------------
(* The tool call that runs one checker process *)

LEMMA Multiples ==
  ASSUME NEW a \in Nat, NEW b \in Nat, a < b, NEW e \in Nat \ {0}
  PROVE  a * e \in Nat /\ b * e \in Nat /\ a * e < b * e
<1>1. PICK d \in Nat \ {0} : b = a + d
  <2>1. b - a \in Nat \ {0} /\ b = a + (b - a)
    OBVIOUS
  <2> QED BY <2>1
<1>2. /\ a * e \in Nat /\ d * e \in Nat /\ d * e >= 1
      /\ (a + d) * e = a * e + d * e
  OBVIOUS
<1> QED BY <1>1, <1>2

Offset(j) == IF j.mode = "none" THEN 0 ELSE 1

IsVerdictOf(j, line) == \E k \in 1..Len(j.verdicts) : line = j.verdicts[k]

\* The log of a job: the mode first, then its verdicts among other lines.
LogFits(j, log) ==
  /\ \E S : log \in Seq(S)
  /\ Len(log) \in Nat /\ Offset(j) <= Len(log)
  /\ j.mode # "none" => log[1] = j.mode
  /\ \A i \in 1..Len(log) : i > Offset(j) => log[i] = "log" \/ IsVerdictOf(j, log[i])
  /\ \A k \in 1..Len(j.verdicts) : \E i \in 1..Len(log) : i > Offset(j) /\ log[i] = j.verdicts[k]

LEMMA LogIs ==
  ASSUME Check!JobsAreComplete, NEW j \in Jobs
  PROVE  LogFits(j, Check!Lines(j))
<1> DEFINE v == j.verdicts
           N == Len(v)
           every == j.chatter + 1
           Is(i, k) == Check!IsVerdict(j, i, k)
           line(i) == Check!LineAt(j, i)
           n == N * every
           f == [i \in 1..n |-> line(i)]
           head == IF j.mode = "none" THEN << >> ELSE <<j.mode>>
           S == {line(i) : i \in 1..n} \cup {j.mode}
<1>1. N \in Nat /\ DOMAIN v = 1..N /\ every \in Nat \ {0}
  <2>1. (\E A : v \in Seq(A)) /\ j.chatter \in Nat
    <3>1. v \in Check!VerdictsOf(j.mode) /\ j.mode \in {"lec", "sec", "none"} /\ j.chatter \in Nat
      BY DEF Check!JobsAreComplete
    <3>2. CASE j.mode = "lec"
      <4>1. Check!VerdictsOf("lec") = Seq(Check!LecVerdicts)
        BY DEF Check!VerdictsOf
      <4> QED BY <3>1, <3>2, <4>1
    <3>3. CASE j.mode = "sec"
      <4>1. Check!VerdictsOf("sec") = {<<x>> : x \in Check!SecVerdicts}
        BY DEF Check!VerdictsOf
      <4>2. PICK x \in Check!SecVerdicts : v = <<x>>
        BY <3>1, <3>3, <4>1
      <4>3. v \in Seq({x})
        BY <4>2
      <4> QED BY <3>1, <4>3
    <3>4. CASE j.mode = "none"
      <4>1. Check!VerdictsOf("none") = {<<"error">>}
        BY DEF Check!VerdictsOf
      <4>2. PICK x : x = "error"
        OBVIOUS
      <4>3. v = <<x>>
        BY <3>1, <3>4, <4>1, <4>2
      <4>4. v \in Seq({x})
        BY <4>3
      <4> QED BY <3>1, <4>4
    <3> QED BY <3>1, <3>2, <3>3, <3>4
  <2> HIDE DEF v
  <2>2. PICK A : v \in Seq(A)
    BY <2>1
  <2> QED BY <2>1, <2>2, LenProperties
<1> HIDE DEF v, N, every
<1>2. n \in Nat
  BY <1>1
<1>3. \A i : line(i) = "log" \/ \E k \in 1..N : line(i) = v[k]
  <2> TAKE i
  <2> DEFINE c == CHOOSE k \in DOMAIN v : Is(i, k)
  <2>1. line(i) = IF \E k \in DOMAIN v : Is(i, k) THEN v[c] ELSE "log"
    BY DEF Check!LineAt, v
  <2>2. (\E k \in DOMAIN v : Is(i, k)) => c \in DOMAIN v
    OBVIOUS
  <2> HIDE DEF c, line, Is
  <2> QED BY <1>1, <2>1, <2>2
<1>4. ASSUME NEW k \in 1..N PROVE k * every \in 1..n /\ line(k * every) = v[k]
  <2>1. k * every \in 1..n
    <3>1. 0 < k * every
      BY <1>1, Multiples
    <3>2. k < N => k * every < n
      BY <1>1, Multiples
    <3>3. k * every \in Nat
      BY <1>1
    <3> QED BY <1>1, <1>2, <3>1, <3>2, <3>3
  <2>2. \A m \in 1..N : Is(k * every, m) => m = k
    <3> SUFFICES ASSUME NEW m \in 1..N, k * every = m * every, m # k PROVE FALSE
      BY DEF Check!IsVerdict, every
    <3>1. m < k \/ k < m
      BY <1>1
    <3>2. m < k => m * every < k * every
      BY <1>1, Multiples
    <3>3. k < m => k * every < m * every
      BY <1>1, Multiples
    <3>4. m * every \in Int /\ k * every \in Int
      BY <1>1
    <3> QED BY <3>1, <3>2, <3>3, <3>4
  <2>3. Is(k * every, k)
    BY DEF Check!IsVerdict, every
  <2> DEFINE c == CHOOSE m \in DOMAIN v : Is(k * every, m)
  <2>4. c \in DOMAIN v /\ Is(k * every, c)
    BY <1>1, <2>3
  <2>5. line(k * every) = IF \E m \in DOMAIN v : Is(k * every, m) THEN v[c] ELSE "log"
    BY DEF Check!LineAt, v
  <2> HIDE DEF c, line, Is
  <2> QED BY <1>1, <2>1, <2>2, <2>3, <2>4, <2>5
<1> HIDE DEF line, n
<1>5. f \in Seq(S) /\ Len(f) = n /\ \A i \in 1..n : f[i] = line(i)
  <2>1. \A i \in 1..n : line(i) \in S
    OBVIOUS
  <2> HIDE DEF S
  <2>2. f \in [1..n -> S]
    BY <2>1
  <2>3. f \in Seq(S)
    BY <1>2, <2>1, IsASeq
  <2> QED BY <1>2, <2>2, <2>3, LenProperties
<1>6. /\ head \in Seq(S) /\ Len(head) = Offset(j)
      /\ j.mode # "none" => head[1] = j.mode
  <2>1. j.mode \in S
    OBVIOUS
  <2> HIDE DEF S
  <2>2. CASE j.mode = "none"
    <3>1. head = << >> /\ Offset(j) = 0
      BY <2>2 DEF Offset
    <3> QED BY <2>2, <3>1
  <2>3. CASE j.mode # "none"
    <3>1. head = <<j.mode>> /\ Offset(j) = 1
      BY <2>3 DEF Offset
    <3> QED BY <2>1, <3>1
  <2> QED BY <2>2, <2>3
<1>7. Check!Lines(j) = head \o f
  BY DEF Check!Lines, n, N, v, every, line
<1> HIDE DEF f, head, S
<1> DEFINE log == head \o f
<1>8. /\ log \in Seq(S) /\ Len(log) = Offset(j) + n
      /\ \A i \in 1..Len(log) : log[i] = IF i <= Offset(j) THEN head[i] ELSE f[i - Offset(j)]
  <2>1. /\ head \o f \in Seq(S) /\ Len(head \o f) = Len(head) + Len(f)
        /\ \A i \in 1..(Len(head) + Len(f)) :
             (head \o f)[i] = IF i <= Len(head) THEN head[i] ELSE f[i - Len(head)]
    BY <1>5, <1>6, ConcatProperties
  <2> QED BY <1>5, <1>6, <2>1
<1> HIDE DEF log
<1>9. Offset(j) \in 0..1 /\ (j.mode # "none" => Offset(j) = 1)
  BY DEF Offset
<1>10. j.mode # "none" => log[1] = j.mode
  BY <1>2, <1>6, <1>8, <1>9
<1>11. ASSUME NEW i \in 1..Len(log), i > Offset(j)
       PROVE  log[i] = "log" \/ IsVerdictOf(j, log[i])
  <2>1. i - Offset(j) \in 1..n
    BY <1>2, <1>8, <1>9, <1>11
  <2>2. log[i] = line(i - Offset(j))
    BY <1>5, <1>8, <1>9, <1>11, <2>1
  <2> QED BY <1>3, <2>2 DEF IsVerdictOf, N, v
<1>12. ASSUME NEW k \in 1..N
       PROVE  \E i \in 1..Len(log) : i > Offset(j) /\ log[i] = v[k]
  <2> DEFINE place == k * every + Offset(j)
  <2>1. place \in 1..Len(log) /\ place > Offset(j) /\ place - Offset(j) = k * every
    BY <1>2, <1>4, <1>8, <1>9
  <2>2. log[place] = f[k * every]
    BY <1>8, <1>9, <2>1
  <2>3. log[place] = v[k]
    BY <1>4, <1>5, <2>2
  <2> HIDE DEF place
  <2> QED BY <2>1, <2>3
<1>13. /\ \E A : log \in Seq(A)
       /\ Len(log) \in Nat /\ Offset(j) <= Len(log)
  BY <1>2, <1>8, <1>9
<1>14. \A k \in 1..Len(j.verdicts) : \E i \in 1..Len(log) : i > Offset(j) /\ log[i] = j.verdicts[k]
  BY <1>12 DEF N, v
<1>15. \A i \in 1..Len(log) : i > Offset(j) => log[i] = "log" \/ IsVerdictOf(j, log[i])
  BY <1>11
<1>16. LogFits(j, log)
  BY <1>10, <1>13, <1>14, <1>15 DEF LogFits
<1> QED BY <1>7, <1>16 DEF log

LEMMA LinesAreASequence ==
  ASSUME Check!JobsAreComplete, NEW j \in Jobs
  PROVE  \E S : Check!Lines(j) \in Seq(S)
BY LogIs DEF LogFits

\* What the end of a log is made of.
LEMMA LastLinesOf ==
  ASSUME Check!LimitsArePositive, NEW S, NEW s \in Seq(S)
  PROVE  /\ Check!LastLines(s) \in Seq(S)
         /\ Len(Check!LastLines(s)) = IF Len(s) <= TailLimit THEN Len(s) ELSE TailLimit
         /\ \A i \in 1..Len(Check!LastLines(s)) :
              Check!LastLines(s)[i] = s[Len(s) - Len(Check!LastLines(s)) + i]
<1>1. Len(s) \in Nat /\ TailLimit \in Nat \ {0} /\ \A i \in 1..Len(s) : s[i] \in S
  BY LenProperties DEF Check!LimitsArePositive
<1>2. CASE Len(s) <= TailLimit
  BY <1>1, <1>2 DEF Check!LastLines
<1>3. CASE Len(s) > TailLimit
  <2>1. /\ Check!LastLines(s) = SubSeq(s, Len(s) - TailLimit + 1, Len(s))
        /\ Len(s) - TailLimit + 1 \in Int /\ Len(s) - TailLimit + 1 <= Len(s)
    BY <1>1, <1>3 DEF Check!LastLines
  <2>2. \A i \in (Len(s) - TailLimit + 1)..Len(s) : s[i] \in S
    BY <1>1, <1>3
  <2>3. /\ Check!LastLines(s) \in Seq(S)
        /\ Len(Check!LastLines(s)) = Len(s) - (Len(s) - TailLimit + 1) + 1
        /\ \A i \in 1..(Len(s) - (Len(s) - TailLimit + 1) + 1) :
             Check!LastLines(s)[i] = s[Len(s) - TailLimit + 1 + i - 1]
    BY <1>1, <2>1, <2>2, SubSeqProperties
  <2> QED BY <1>1, <1>3, <2>3
<1> QED BY <1>1, <1>2, <1>3

\* What a job's verdicts are, by the mode it runs in.
LEMMA VerdictsIn ==
  ASSUME Check!JobsAreComplete, NEW j \in Jobs
  PROVE  /\ Len(j.verdicts) \in Nat /\ DOMAIN j.verdicts = 1..Len(j.verdicts)
         /\ j.mode = "lec" => \A k \in 1..Len(j.verdicts) : j.verdicts[k] \in Check!LecVerdicts
         /\ j.mode = "sec" => \E x \in Check!SecVerdicts : j.verdicts = <<x>>
         /\ j.mode = "none" => j.verdicts = <<"error">>
<1>1. j.verdicts \in Check!VerdictsOf(j.mode) /\ j.mode \in {"lec", "sec", "none"}
  BY DEF Check!JobsAreComplete
<1>2. CASE j.mode = "lec"
  <2>1. Check!VerdictsOf("lec") = Seq(Check!LecVerdicts)
    BY DEF Check!VerdictsOf
  <2>2. j.verdicts \in Seq(Check!LecVerdicts)
    BY <1>1, <1>2, <2>1
  <2> QED BY <1>2, <2>2, LenProperties
<1>3. CASE j.mode = "sec"
  <2>1. Check!VerdictsOf("sec") = {<<x>> : x \in Check!SecVerdicts}
    BY DEF Check!VerdictsOf
  <2>2. PICK x \in Check!SecVerdicts : j.verdicts = <<x>>
    BY <1>1, <1>3, <2>1
  <2> QED BY <1>3, <2>2
<1>4. CASE j.mode = "none"
  <2>1. Check!VerdictsOf("none") = {<<"error">>}
    BY DEF Check!VerdictsOf
  <2>2. j.verdicts = <<"error">>
    BY <1>1, <1>4, <2>1
  <2> QED BY <1>4, <2>2
<1> QED BY <1>1, <1>2, <1>3, <1>4

\* The printed lines P of a job with the log L, and the lines K kept of them.
KeptFits(j, L, P, K) ==
  /\ Len(P) \in Nat /\ DOMAIN P = 1..Len(P) /\ Len(P) <= Len(L)
  /\ \A i \in 1..Len(P) : P[i] = L[i]
  /\ j.fate = "exit" => Len(P) = Len(L)
  /\ Len(K) \in Nat /\ DOMAIN K = 1..Len(K)
  /\ Len(K) = IF Len(P) <= TailLimit THEN Len(P) ELSE TailLimit
  /\ \A i \in 1..Len(K) : K[i] = P[Len(P) - Len(K) + i]

LEMMA KeptIs ==
  ASSUME CheckAssumptions, NEW j \in Jobs
  PROVE  KeptFits(j, Check!Lines(j), Check!Printed(j), Check!LastLines(Check!Printed(j)))
<1> DEFINE L == Check!Lines(j)
           P == Check!Printed(j)
           K == Check!LastLines(P)
           n == Check!Stop(j)
<1>1. PICK S : L \in Seq(S)
  BY LinesAreASequence DEF CheckAssumptions
<1>2. n \in 0..Len(L) /\ Len(L) \in Nat /\ (j.fate = "exit" => n = Len(L))
  <2>1. Len(L) \in Nat
    BY <1>1, LenProperties
  <2>2. j.after \in 0..Len(L)
    BY DEF CheckAssumptions, Check!JobsAreComplete
  <2> QED BY <2>1, <2>2 DEF Check!Stop
<1>3. P = SubSeq(L, 1, n)
  BY DEF Check!Printed
<1> HIDE DEF L, n, P
<1>4. \A i \in 1..n : L[i] \in S
  BY <1>1, <1>2, LenProperties
<1>5. P \in Seq(S) /\ Len(P) = n /\ \A i \in 1..n : P[i] = L[i]
  BY <1>1, <1>2, <1>3, <1>4, SubSeqProperties
<1>6. /\ K \in Seq(S)
      /\ Len(K) = IF Len(P) <= TailLimit THEN Len(P) ELSE TailLimit
      /\ \A i \in 1..Len(K) : K[i] = P[Len(P) - Len(K) + i]
  BY <1>5, LastLinesOf DEF CheckAssumptions
<1> HIDE DEF K
<1>7. /\ Len(P) \in Nat /\ DOMAIN P = 1..Len(P) /\ Len(K) \in Nat /\ DOMAIN K = 1..Len(K)
  BY <1>5, <1>6, LenProperties
<1>8. KeptFits(j, L, P, K)
  BY <1>2, <1>5, <1>6, <1>7 DEF KeptFits
<1> QED BY <1>8 DEF K, P, L

\* A line that is kept was printed.
LEMMA KeptWasPrinted ==
  ASSUME CheckAssumptions, NEW j, NEW L, NEW P, NEW K, KeptFits(j, L, P, K), NEW i \in DOMAIN K
  PROVE  /\ Len(P) - Len(K) + i \in 1..Len(P)
         /\ K[i] = L[Len(P) - Len(K) + i]
<1>1. TailLimit \in Nat \ {0}
  BY DEF CheckAssumptions, Check!LimitsArePositive
<1>2. Len(P) - Len(K) + i \in 1..Len(P)
  BY <1>1 DEF KeptFits
<1>3. K[i] = P[Len(P) - Len(K) + i]
  BY DEF KeptFits
<1> QED BY <1>2, <1>3 DEF KeptFits

\* A printed line that the classification depends on is kept.
LEMMA HeardIsKept ==
  ASSUME CheckAssumptions, NEW j, Check!Heard(j),
         NEW L, NEW P, NEW K, KeptFits(j, L, P, K), P = Check!Printed(j),
         NEW i \in 1..Len(P), L[i] \in Check!DecidingLines(j)
  PROVE  /\ i - (Len(P) - Len(K)) \in DOMAIN K
         /\ K[i - (Len(P) - Len(K))] = L[i]
<1>1. TailLimit \in Nat \ {0}
  BY DEF CheckAssumptions, Check!LimitsArePositive
<1>2. i \in DOMAIN P /\ P[i] \in Check!DecidingLines(j) /\ P[i] = L[i]
  BY DEF KeptFits
<1>3. i > Len(P) - TailLimit
  BY <1>2 DEF Check!Heard
<1>4. i - (Len(P) - Len(K)) \in 1..Len(K)
  BY <1>1, <1>3 DEF KeptFits
<1>5. Len(P) - Len(K) + (i - (Len(P) - Len(K))) = i
  BY DEF KeptFits
<1> DEFINE m == i - (Len(P) - Len(K))
<1> HIDE DEF m
<1>6. m \in 1..Len(K) /\ Len(P) - Len(K) + m = i
  BY <1>4, <1>5 DEF m
<1>7. K[m] = P[Len(P) - Len(K) + m] /\ m \in DOMAIN K
  BY <1>6 DEF KeptFits
<1>8. K[m] = L[i]
  BY <1>2, <1>6, <1>7
<1> QED BY <1>7, <1>8 DEF m

\* Only the first line of a log names a mode.
LEMMA ModeIsFirst ==
  ASSUME CheckAssumptions, NEW j \in Jobs, NEW L, L = Check!Lines(j),
         NEW i \in 1..Len(L), L[i] \in Check!ModeLines
  PROVE  i = 1 /\ j.mode # "none" /\ L[i] = j.mode
<1>1. LogFits(j, L)
  BY LogIs DEF CheckAssumptions
<1>2. j.mode \in {"lec", "sec", "none"}
  BY DEF CheckAssumptions, Check!JobsAreComplete
<1>3. ~(L[i] = "log" \/ IsVerdictOf(j, L[i]))
  <2>1. SUFFICES ASSUME L[i] # "log", NEW k \in 1..Len(j.verdicts), L[i] = j.verdicts[k]
                 PROVE  FALSE
    BY DEF IsVerdictOf, Check!ModeLines
  <2>2. CASE j.mode = "lec"
    BY <2>1, <2>2, VerdictsIn DEF Check!ModeLines, Check!LecVerdicts, CheckAssumptions
  <2>3. CASE j.mode = "sec"
    <3>1. PICK x \in Check!SecVerdicts : j.verdicts = <<x>>
      BY <2>3, VerdictsIn DEF CheckAssumptions
    <3>2. L[i] = x
      BY <2>1, <3>1
    <3> QED BY <3>2 DEF Check!ModeLines, Check!SecVerdicts
  <2>4. CASE j.mode = "none"
    <3>1. PICK x : x = "error"
      OBVIOUS
    <3>2. j.verdicts = <<x>>
      BY <2>4, <3>1, VerdictsIn DEF CheckAssumptions
    <3>3. L[i] = x
      BY <2>1, <3>2
    <3> QED BY <3>1, <3>3 DEF Check!ModeLines
  <2> QED BY <1>2, <2>2, <2>3, <2>4
<1>4. ~(i > Offset(j))
  BY <1>1, <1>3 DEF LogFits
<1>5. i = 1 /\ j.mode # "none"
  BY <1>2, <1>4 DEF Offset
<1> QED BY <1>1, <1>5 DEF LogFits

\* What is kept of a run that uses its own tool's mode, and of one that does
\* not.
LEMMA OtherModeIsSeen ==
  ASSUME CheckAssumptions, NEW j \in Jobs, Check!Heard(j), j.mode # j.kind,
         j.mode # "none", NEW L, NEW P, NEW K, KeptFits(j, L, P, K), L = Check!Lines(j),
         P = Check!Printed(j), Len(P) # 0
  PROVE  Check!RanInOtherMode(j.kind, K)
<1>1. LogFits(j, L) /\ j.mode \in Check!ModeLines
  BY LogIs DEF CheckAssumptions, Check!JobsAreComplete, Check!ModeLines
<1>2. 1 \in 1..Len(P) /\ 1 \in 1..Len(L) /\ L[1] = j.mode
  BY <1>1 DEF LogFits, KeptFits
<1>3. L[1] \in Check!DecidingLines(j)
  BY <1>1, <1>2 DEF Check!DecidingLines
<1>4. PICK m \in DOMAIN K : m = 1 - (Len(P) - Len(K)) /\ K[m] = j.mode
  BY <1>2, <1>3, HeardIsKept
<1>5. \A i \in DOMAIN K : i > m => K[i] \notin Check!ModeLines
  <2> SUFFICES ASSUME NEW i \in DOMAIN K, i > m, K[i] \in Check!ModeLines PROVE FALSE
    OBVIOUS
  <2> DEFINE at == Len(P) - Len(K) + i
  <2>1. at \in 1..Len(P) /\ K[i] = L[at]
    BY KeptWasPrinted
  <2>2. at > 1
    BY <1>4 DEF KeptFits
  <2> HIDE DEF at
  <2>3. at \in 1..Len(L)
    BY <2>1, <1>1 DEF KeptFits, LogFits
  <2> QED BY <2>1, <2>2, <2>3, ModeIsFirst
<1>6. K[m] \in Check!ModeLines \ {j.kind}
  BY <1>1, <1>4
<1> QED BY <1>5, <1>6 DEF Check!RanInOtherMode

LEMMA NoOtherModeIsSeen ==
  ASSUME CheckAssumptions, NEW j \in Jobs, j.mode = j.kind \/ j.mode = "none",
         NEW L, NEW P, NEW K, KeptFits(j, L, P, K), L = Check!Lines(j)
  PROVE  ~Check!RanInOtherMode(j.kind, K)
<1> SUFFICES ASSUME NEW i \in DOMAIN K, K[i] \in Check!ModeLines \ {j.kind} PROVE FALSE
  BY DEF Check!RanInOtherMode
<1> DEFINE at == Len(P) - Len(K) + i
<1>1. at \in 1..Len(P) /\ K[i] = L[at]
  BY KeptWasPrinted
<1> HIDE DEF at
<1>2. LogFits(j, L)
  BY LogIs DEF CheckAssumptions
<1>3. at \in 1..Len(L)
  BY <1>1, <1>2 DEF KeptFits, LogFits
<1>4. L[at] = j.mode /\ j.mode # "none"
  BY <1>1, <1>3, ModeIsFirst
<1> QED BY <1>1, <1>4

\* What the kept lines show was printed, and what decides is shown.
LEMMA ShownWasPrinted ==
  ASSUME CheckAssumptions, NEW j, NEW L, NEW P, NEW K, KeptFits(j, L, P, K),
         NEW patterns, Check!Shows(K, patterns)
  PROVE  \E i \in 1..Len(P) : L[i] \in patterns
<1>1. PICK i \in DOMAIN K : K[i] \in patterns
  BY DEF Check!Shows
<1> DEFINE at == Len(P) - Len(K) + i
<1>2. at \in 1..Len(P) /\ K[i] = L[at]
  BY KeptWasPrinted
<1> HIDE DEF at
<1> QED BY <1>1, <1>2

LEMMA HeardIsShown ==
  ASSUME CheckAssumptions, NEW j, Check!Heard(j),
         NEW L, NEW P, NEW K, KeptFits(j, L, P, K), P = Check!Printed(j), NEW patterns,
         NEW i \in 1..Len(P), L[i] \in Check!DecidingLines(j), L[i] \in patterns
  PROVE  Check!Shows(K, patterns)
<1>1. PICK m \in DOMAIN K : K[m] = L[i]
  BY HeardIsKept
<1> QED BY <1>1 DEF Check!Shows

\* A line of a log, for the patterns of classify_verdict, is one of its
\* verdicts.
LEMMA ShownIsAVerdict ==
  ASSUME CheckAssumptions, NEW j \in Jobs, NEW L, L = Check!Lines(j), NEW i \in 1..Len(L),
         L[i] \notin Check!ModeLines, L[i] # "log"
  PROVE  IsVerdictOf(j, L[i])
<1>1. LogFits(j, L) /\ j.mode \in {"lec", "sec", "none"}
  BY LogIs DEF CheckAssumptions, Check!JobsAreComplete
<1>2. i > Offset(j)
  <2>1. CASE j.mode = "none"
    BY <2>1 DEF Offset
  <2>2. CASE j.mode # "none"
    <3>1. L[1] \in Check!ModeLines
      BY <1>1, <2>2 DEF LogFits, Check!ModeLines
    <3> QED BY <2>2, <3>1 DEF Offset
  <2> QED BY <2>1, <2>2
<1> QED BY <1>1, <1>2 DEF LogFits

\* The exit code of a job, or of its crash.
EndCode(j) == IF j.fate = "exit" THEN Check!ExitCode(j) ELSE Check!CrashCode

\* A run in another mode than its tool's, or in none, is a crash.
LEMMA OtherModeIsACrash ==
  ASSUME CheckAssumptions, NEW j \in Jobs, Check!Heard(j), j.mode # j.kind,
         NEW K, K = Check!LastLines(Check!Printed(j))
  PROVE  Check!classify_verdict(j.kind, EndCode(j), K) = "crash"
<1> DEFINE L == Check!Lines(j)
           P == Check!Printed(j)
<1>1. KeptFits(j, L, P, K)
  BY KeptIs
<1>2. LogFits(j, L) /\ j.mode \in {"lec", "sec", "none"} /\ j.kind \in {"lec", "sec"}
  BY LogIs DEF CheckAssumptions, Check!JobsAreComplete
<1>3. L = Check!Lines(j) /\ P = Check!Printed(j)
  OBVIOUS
<1> HIDE DEF L, P
<1>4. CASE j.mode # "none" /\ Len(P) # 0
  <2>1. Check!RanInOtherMode(j.kind, K)
    BY <1>1, <1>3, <1>4, OtherModeIsSeen
  <2> QED BY <2>1 DEF Check!classify_verdict
<1>5. CASE j.mode # "none" /\ Len(P) = 0
  <2>1. j.fate # "exit"
    BY <1>1, <1>2, <1>5 DEF KeptFits, LogFits, Offset
  <2>2. EndCode(j) = 134
    BY <2>1 DEF EndCode, Check!CrashCode
  <2>3. \A patterns : ~Check!Shows(K, patterns)
    BY <1>1, <1>5, ShownWasPrinted
  <2> QED BY <2>2, <2>3 DEF Check!classify_verdict, Check!LecStatus, Check!SecStatus
<1>6. CASE j.mode = "none"
  <2>1. PICK x : x = "error"
    OBVIOUS
  <2>2. j.verdicts = <<x>>
    BY <1>6, <2>1, VerdictsIn DEF CheckAssumptions
  <2>3. EndCode(j) \in {1, 134}
    <3>1. Check!Shows(j.verdicts, {"error"})
      BY <2>1, <2>2 DEF Check!Shows
    <3> QED BY <3>1 DEF EndCode, Check!ExitCode, Check!CrashCode
  <2>4. ASSUME NEW patterns, "error" \notin patterns, "log" \notin patterns,
               \A m \in Check!ModeLines : m \notin patterns
        PROVE  ~Check!Shows(K, patterns)
    <3> SUFFICES ASSUME NEW i \in 1..Len(P), L[i] \in patterns PROVE FALSE
      BY <1>1, ShownWasPrinted
    <3>1. i \in 1..Len(L) /\ L[i] \notin Check!ModeLines /\ L[i] # "log"
      BY <1>1, <1>2, <2>4 DEF KeptFits, LogFits
    <3>2. IsVerdictOf(j, L[i])
      BY <1>3, <3>1, ShownIsAVerdict
    <3>3. L[i] = x
      BY <2>2, <3>2 DEF IsVerdictOf
    <3> QED BY <2>1, <2>4, <3>3
  <2>5. ~Check!Shows(K, Check!DifferenceLines) /\ ~Check!Shows(K, {"partial"})
    BY <2>4 DEF Check!DifferenceLines, Check!ModeLines
  <2>6. ~Check!RanInOtherMode(j.kind, K)
    BY <1>1, <1>3, <1>6, NoOtherModeIsSeen
  <2> QED BY <1>2, <2>3, <2>5, <2>6 DEF Check!classify_verdict, Check!LecStatus, Check!SecStatus
<1> QED BY <1>4, <1>5, <1>6

\* A LEC run: a difference that is printed fails the check, however the run
\* ends, and only a run that ends by itself without one, without an error and
\* with a scope passes it.
LEMMA LecMeaning ==
  ASSUME CheckAssumptions, NEW j \in Jobs, Check!Heard(j), j.mode = "lec", j.kind = "lec",
         NEW K, K = Check!LastLines(Check!Printed(j))
  PROVE  Check!classify_verdict(j.kind, EndCode(j), K) =
           IF Check!Shows(Check!Printed(j), {"differs"}) THEN "check_failed"
           ELSE IF j.fate # "exit" \/ Check!Shows(j.verdicts, {"error"}) \/ j.verdicts = << >>
           THEN "crash" ELSE "passed"
<1> DEFINE L == Check!Lines(j)
           P == Check!Printed(j)
           v == j.verdicts
<1>1. KeptFits(j, L, P, K)
  BY KeptIs
<1>2. LogFits(j, L)
  BY LogIs DEF CheckAssumptions
<1>3. /\ Len(v) \in Nat /\ DOMAIN v = 1..Len(v)
      /\ \A k \in 1..Len(v) : v[k] \in {"equal", "differs", "error"}
  BY VerdictsIn DEF CheckAssumptions, Check!LecVerdicts
<1>4. L = Check!Lines(j) /\ P = Check!Printed(j) /\ v = j.verdicts
  OBVIOUS
<1>5. v = << >> <=> Len(v) = 0
  <2>1. v \in Seq(Check!LecVerdicts)
    BY DEF CheckAssumptions, Check!JobsAreComplete, Check!VerdictsOf
  <2> HIDE DEF v
  <2> QED BY <2>1, EmptySeq
<1> HIDE DEF L, P, v
<1>6. Check!classify_verdict(j.kind, EndCode(j), K) = Check!LecStatus(EndCode(j), K)
  <2>1. ~Check!RanInOtherMode(j.kind, K)
    BY <1>1, <1>4, NoOtherModeIsSeen
  <2> QED BY <2>1 DEF Check!classify_verdict
<1>7. EndCode(j) = IF j.fate # "exit" THEN 134 ELSE IF Check!Shows(v, {"error"}) THEN 1 ELSE 0
  BY <1>4 DEF EndCode, Check!ExitCode, Check!CrashCode
<1>8. ASSUME NEW i \in 1..Len(P), NEW patterns, L[i] \in patterns,
             \A m \in Check!ModeLines \cup {"log"} : m \notin patterns
      PROVE  IsVerdictOf(j, L[i])
  <2>1. i \in 1..Len(L) /\ L[i] \notin Check!ModeLines /\ L[i] # "log"
    BY <1>1, <1>2, <1>8 DEF KeptFits, LogFits
  <2> QED BY <1>4, <2>1, ShownIsAVerdict
<1>9. CASE Check!Shows(P, {"differs"})
  <2>1. PICK i \in 1..Len(P) : L[i] = "differs"
    BY <1>1, <1>9 DEF KeptFits, Check!Shows
  <2>2. L[i] \in Check!DecidingLines(j) /\ L[i] \in Check!DifferenceLines
    BY <2>1 DEF Check!DecidingLines, Check!DifferenceLines
  <2>3. Check!Shows(K, Check!DifferenceLines)
    BY <1>1, <1>4, <2>2, HeardIsShown
  <2> QED BY <1>4, <1>6, <1>9, <2>3 DEF Check!LecStatus
<1>10. CASE ~Check!Shows(P, {"differs"})
  <2>1. \A i \in 1..Len(P) : L[i] # "differs"
    BY <1>1, <1>10 DEF KeptFits, Check!Shows
  <2>2. ~Check!Shows(K, Check!DifferenceLines)
    <3> SUFFICES ASSUME NEW i \in 1..Len(P), L[i] \in Check!DifferenceLines PROVE FALSE
      BY <1>1, ShownWasPrinted
    <3>1. IsVerdictOf(j, L[i])
      BY <1>8 DEF Check!DifferenceLines, Check!ModeLines
    <3> QED BY <1>3, <1>4, <2>1, <3>1 DEF IsVerdictOf, Check!DifferenceLines
  <2>3. CASE j.fate # "exit" \/ Check!Shows(v, {"error"})
    BY <1>4, <1>6, <1>7, <1>10, <2>2, <2>3 DEF Check!LecStatus
  <2>4. CASE j.fate = "exit" /\ ~Check!Shows(v, {"error"}) /\ Len(v) = 0
    <3>1. ~Check!Shows(K, Check!NoDifferenceLines)
      <4> SUFFICES ASSUME NEW i \in 1..Len(P), L[i] \in Check!NoDifferenceLines PROVE FALSE
        BY <1>1, ShownWasPrinted
      <4>1. IsVerdictOf(j, L[i])
        BY <1>8 DEF Check!NoDifferenceLines, Check!ModeLines
      <4> QED BY <1>4, <2>4, <4>1 DEF IsVerdictOf
    <3> QED BY <1>4, <1>5, <1>6, <1>10, <2>2, <2>4, <3>1 DEF Check!LecStatus
  <2>5. CASE j.fate = "exit" /\ ~Check!Shows(v, {"error"}) /\ Len(v) # 0
    <3>1. 1 \in 1..Len(v) /\ Len(P) = Len(L)
      BY <1>1, <1>3, <2>5 DEF KeptFits
    <3>2. PICK i \in 1..Len(L) : L[i] = v[1]
      BY <1>2, <1>4, <3>1 DEF LogFits
    <3>3. v[1] # "error"
      BY <1>3, <2>5, <3>1 DEF Check!Shows
    <3>4. i \in 1..Len(P) /\ L[i] = "equal"
      BY <1>3, <2>1, <3>1, <3>2, <3>3
    <3>5. L[i] \in Check!DecidingLines(j) /\ L[i] \in Check!NoDifferenceLines
      BY <3>4 DEF Check!DecidingLines, Check!NoDifferenceLines
    <3>6. Check!Shows(K, Check!NoDifferenceLines)
      BY <1>1, <1>4, <3>4, <3>5, HeardIsShown
    <3>7. EndCode(j) = 0
      BY <1>7, <2>5
    <3> QED BY <1>4, <1>5, <1>6, <1>10, <2>2, <2>5, <3>6, <3>7 DEF Check!LecStatus
  <2> QED BY <2>3, <2>4, <2>5
<1> QED BY <1>9, <1>10

\* A SEC run: its exit code says what it found, but for a partial proof, whose
\* exit code is that of an error.
LEMMA SecMeaning ==
  ASSUME CheckAssumptions, NEW j \in Jobs, Check!Heard(j), j.mode = "sec", j.kind = "sec",
         NEW x \in Check!SecVerdicts, j.verdicts = <<x>>, x # "exported",
         NEW K, K = Check!LastLines(Check!Printed(j))
  PROVE  Check!classify_verdict(j.kind, EndCode(j), K) =
           IF j.fate # "exit" \/ x = "error" THEN "crash"
           ELSE IF x = "proved" THEN "passed"
           ELSE IF x = "counterexample" THEN "check_failed" ELSE "inconclusive"
<1> DEFINE L == Check!Lines(j)
           P == Check!Printed(j)
<1>1. KeptFits(j, L, P, K)
  BY KeptIs
<1>2. LogFits(j, L)
  BY LogIs DEF CheckAssumptions
<1>3. L = Check!Lines(j) /\ P = Check!Printed(j)
  OBVIOUS
<1> HIDE DEF L, P
<1>4. Check!classify_verdict(j.kind, EndCode(j), K) = Check!SecStatus(EndCode(j), K)
  <2>1. ~Check!RanInOtherMode(j.kind, K)
    BY <1>1, <1>3, NoOtherModeIsSeen
  <2> QED BY <2>1 DEF Check!classify_verdict
<1>5. Check!Shows(j.verdicts, {"error"}) <=> x = "error"
  BY DEF Check!Shows
<1>6. Check!Last(j.verdicts) = x
  BY DEF Check!Last
<1>7. j.fate = "exit" =>
        EndCode(j) = IF x = "error" \/ x = "partial" THEN 1
                     ELSE IF x = "proved" THEN 0
                     ELSE IF x = "counterexample" THEN 3 ELSE 2
  <2> DEFINE c == CASE x \in {"proved", "exported"} -> 0
                    [] x = "partial" -> 1
                    [] x = "counterexample" -> 3
                    [] OTHER -> 2
  <2>1. c = IF x = "partial" THEN 1
            ELSE IF x = "proved" THEN 0
            ELSE IF x = "counterexample" THEN 3 ELSE 2
    <3>1. CASE x = "partial"
      BY <3>1
    <3>2. CASE x = "proved"
      BY <3>2
    <3>3. CASE x = "counterexample"
      BY <3>3
    <3>4. CASE x # "partial" /\ x # "proved" /\ x # "counterexample"
      BY <3>4
    <3> QED BY <3>1, <3>2, <3>3, <3>4
  <2>2. j.fate = "exit" => EndCode(j) = IF x = "error" THEN 1 ELSE c
    BY <1>5, <1>6 DEF EndCode, Check!ExitCode
  <2> QED BY <2>1, <2>2
<1>8. j.fate # "exit" => EndCode(j) = 134
  BY DEF EndCode, Check!CrashCode
<1>9. x # "partial" => ~Check!Shows(K, {"partial"})
  <2> SUFFICES ASSUME x # "partial", NEW i \in 1..Len(P), L[i] = "partial" PROVE FALSE
    BY <1>1, ShownWasPrinted
  <2>1. i \in 1..Len(L) /\ L[i] \notin Check!ModeLines /\ L[i] # "log"
    BY <1>1, <1>2 DEF KeptFits, LogFits, Check!ModeLines
  <2>2. IsVerdictOf(j, L[i])
    BY <1>3, <2>1, ShownIsAVerdict
  <2> QED BY <2>2 DEF IsVerdictOf
<1>10. j.fate = "exit" /\ x = "partial" => Check!Shows(K, {"partial"})
  <2> SUFFICES ASSUME j.fate = "exit", x = "partial" PROVE Check!Shows(K, {"partial"})
    OBVIOUS
  <2>1. PICK i \in 1..Len(L) : L[i] = x
    BY <1>2 DEF LogFits
  <2>2. i \in 1..Len(P) /\ L[i] \in Check!DecidingLines(j) /\ L[i] \in {"partial"}
    BY <1>1, <2>1 DEF KeptFits, Check!DecidingLines
  <2> QED BY <1>1, <1>3, <2>2, HeardIsShown
<1>11. x \in {"proved", "partial", "inconclusive", "unsupported", "counterexample", "error"}
  BY DEF Check!SecVerdicts
<1>12. CASE j.fate # "exit"
  BY <1>4, <1>8, <1>12 DEF Check!SecStatus
<1>13. CASE j.fate = "exit"
  BY <1>4, <1>7, <1>9, <1>10, <1>11, <1>13 DEF Check!SecStatus
<1> QED BY <1>12, <1>13

\* The classification of the end of the log is what the run found.
LEMMA OutcomeIsMeaning ==
  ASSUME CheckAssumptions, NEW j \in Jobs, Check!Heard(j), ~Check!OnlyExports(j)
  PROVE  Check!OutcomeOf(j) = Check!Meaning(j)
<1>1. /\ j.kind \in {"lec", "sec"} /\ j.mode \in {"lec", "sec", "none"}
      /\ j.start \in {"bad request", "no binary", "no exec", "ok"}
  BY DEF CheckAssumptions, Check!JobsAreComplete, Check!Starts
<1>2. PICK K : K = Check!LastLines(Check!Printed(j))
  OBVIOUS
<1>3. Check!OutcomeOf(j) =
        CASE j.start \in {"bad request", "no exec"} -> "crash"
          [] j.start = "no binary" -> "setup_error"
          [] OTHER -> Check!classify_verdict(j.kind, EndCode(j), K)
  BY <1>2 DEF Check!OutcomeOf, EndCode
<1>4. CASE j.start # "ok"
  BY <1>1, <1>3, <1>4 DEF Check!Meaning
<1>5. CASE j.start = "ok" /\ j.mode # j.kind
  BY <1>2, <1>3, <1>5, OtherModeIsACrash DEF Check!Meaning
<1>6. CASE j.start = "ok" /\ j.mode = j.kind /\ j.kind = "lec"
  BY <1>2, <1>3, <1>6, LecMeaning DEF Check!Meaning
<1>7. CASE j.start = "ok" /\ j.mode = j.kind /\ j.kind = "sec"
  <2>1. PICK x \in Check!SecVerdicts : j.verdicts = <<x>>
    BY <1>7, VerdictsIn DEF CheckAssumptions
  <2>2. x # "exported"
    BY <2>1 DEF Check!OnlyExports
  <2>3. /\ Check!Shows(j.verdicts, {"error"}) <=> x = "error"
        /\ Check!Last(j.verdicts) = x /\ j.verdicts # << >>
    BY <2>1 DEF Check!Shows, Check!Last
  <2>4. Check!Meaning(j) = IF j.fate # "exit" \/ x = "error" THEN "crash"
                           ELSE IF x = "proved" THEN "passed"
                           ELSE IF x = "counterexample" THEN "check_failed" ELSE "inconclusive"
    BY <1>7, <2>3 DEF Check!Meaning
  <2>5. Check!OutcomeOf(j) = Check!classify_verdict(j.kind, EndCode(j), K)
    BY <1>3, <1>7
  <2>6. Check!classify_verdict(j.kind, EndCode(j), K) =
          IF j.fate # "exit" \/ x = "error" THEN "crash"
          ELSE IF x = "proved" THEN "passed"
          ELSE IF x = "counterexample" THEN "check_failed" ELSE "inconclusive"
    BY <1>2, <1>7, <2>1, <2>2, SecMeaning
  <2> QED BY <2>4, <2>5, <2>6
<1> QED BY <1>1, <1>4, <1>5, <1>6, <1>7

\* The end of a log that is one line longer is made of the end kept so far.
LEMMA LastLinesOfMore ==
  ASSUME Check!LimitsArePositive, NEW S, NEW s \in Seq(S), NEW x \in S
  PROVE  Check!LastLines(Append(Check!LastLines(s), x)) = Check!LastLines(Append(s, x))
<1>1. PICK k \in Seq(S) : k = Check!LastLines(s)
  BY LastLinesOf
<1>2. PICK a \in Seq(S) : a = Append(s, x)
  BY AppendProperties
<1>3. PICK b \in Seq(S) : b = Append(k, x)
  BY AppendProperties
<1>4. PICK p \in Seq(S) : p = Check!LastLines(a)
  BY LastLinesOf
<1>5. PICK q \in Seq(S) : q = Check!LastLines(b)
  BY LastLinesOf
<1>6. /\ Len(s) \in Nat /\ Len(k) \in Nat /\ Len(p) \in Nat /\ Len(q) \in Nat
      /\ TailLimit \in Nat \ {0}
  BY LenProperties DEF Check!LimitsArePositive
<1>7. /\ Len(a) = Len(s) + 1 /\ a[Len(s) + 1] = x /\ \A i \in 1..Len(s) : a[i] = s[i]
      /\ Len(b) = Len(k) + 1 /\ b[Len(k) + 1] = x /\ \A i \in 1..Len(k) : b[i] = k[i]
  BY <1>2, <1>3, AppendProperties
<1>8. /\ Len(k) = (IF Len(s) <= TailLimit THEN Len(s) ELSE TailLimit)
      /\ \A i \in 1..Len(k) : k[i] = s[Len(s) - Len(k) + i]
  BY <1>1, LastLinesOf
<1>9. /\ Len(p) = (IF Len(a) <= TailLimit THEN Len(a) ELSE TailLimit)
      /\ \A i \in 1..Len(p) : p[i] = a[Len(a) - Len(p) + i]
  BY <1>4, LastLinesOf
<1>10. /\ Len(q) = (IF Len(b) <= TailLimit THEN Len(b) ELSE TailLimit)
       /\ \A i \in 1..Len(q) : q[i] = b[Len(b) - Len(q) + i]
  BY <1>5, LastLinesOf
<1>11. Len(p) = Len(q)
  BY <1>6, <1>7, <1>8, <1>9, <1>10
<1>12. ASSUME NEW i \in 1..Len(p) PROVE p[i] = q[i]
  <2>1. CASE i = Len(p)
    <3>1. Len(a) - Len(p) + i = Len(s) + 1 /\ Len(b) - Len(q) + i = Len(k) + 1
      BY <1>6, <1>7, <1>11, <2>1
    <3>2. p[i] = a[Len(a) - Len(p) + i] /\ q[i] = b[Len(b) - Len(q) + i]
      BY <1>9, <1>10, <1>11
    <3> QED BY <3>1, <3>2, <1>7
  <2>2. CASE i # Len(p)
    <3>1. i \in 1..(Len(p) - 1)
      BY <1>6, <2>2
    <3>2. PICK u \in 1..Len(s) : u = Len(a) - Len(p) + i
      <4>1. Len(p) <= Len(s) + 1
        BY <1>6, <1>7, <1>9
      <4>2. Len(a) = Len(s) + 1
        BY <1>7
      <4>3. Len(a) - Len(p) + i \in 1..Len(s)
        BY <1>6, <3>1, <4>1, <4>2
      <4> QED BY <4>3
    <3>3. p[i] = s[u]
      BY <1>7, <1>9, <3>2
    <3>4. PICK v \in 1..Len(k) : v = Len(b) - Len(q) + i
      <4>1. Len(q) <= Len(k) + 1
        BY <1>6, <1>7, <1>10
      <4>2. Len(b) = Len(k) + 1
        BY <1>7
      <4>3. Len(b) - Len(q) + i \in 1..Len(k)
        BY <1>6, <1>11, <3>1, <4>1, <4>2
      <4> QED BY <4>3
    <3>5. q[i] = s[Len(s) - Len(k) + v]
      BY <1>7, <1>8, <1>10, <1>11, <3>4
    <3>6. Len(s) - Len(k) + v = u
      BY <1>6, <1>7, <1>11, <3>2, <3>4
    <3> QED BY <3>3, <3>5, <3>6
  <2> QED BY <2>1, <2>2
<1>13. p = q
  BY <1>11, <1>12, SeqEqual
<1> QED BY <1>1, <1>2, <1>3, <1>4, <1>5, <1>13

\* The lines a process has written, and those not read yet, grow at the end.
LEMMA LogGrows ==
  ASSUME NEW S, NEW s \in Seq(S), NEW n \in 0..(Len(s) - 1), NEW m \in 1..(n + 1)
  PROVE  SubSeq(s, m, n + 1) = Append(SubSeq(s, m, n), s[n + 1])
OBVIOUS

LEMMA LogRead ==
  ASSUME NEW S, NEW s \in Seq(S), NEW n \in 0..Len(s), NEW m \in 1..(n + 1),
         SubSeq(s, m, n) # << >>
  PROVE  /\ m \in 1..n /\ Head(SubSeq(s, m, n)) = s[m] /\ Tail(SubSeq(s, m, n)) = SubSeq(s, m + 1, n)
<1>1. m \in 1..n
  BY SubSeqEmpty
<1> QED BY <1>1, HeadTailOfSubSeq

\* The lines read, with only their end kept, and the lines in the pipe are what
\* the process has written.
StreamRight ==
  /\ written \in 0..Check!Stop(job)
  /\ \E r \in 0..written :
       /\ pipe = SubSeq(Check!Lines(job), r + 1, written)
       /\ tail = Check!LastLines(SubSeq(Check!Lines(job), 1, r))

CodeAtEnd(j) == IF j.fate = "exit" THEN Check!ExitCode(j) ELSE Check!CrashCode

WaitingPhases == {"running", "killing", "cancelling", "draining"}

\* Where the call stands says what became of its process: a process that was not
\* killed ended by itself, after all its lines, and a reader that has returned
\* has read them.
CheckRight ==
  /\ job \in Jobs
  /\ phase \in {"new", "resolving", "spawning", "done", "raised"} \cup WaitingPhases
  /\ proc \in {"none", "alive", "gone"} /\ killed \in BOOLEAN /\ timedOut \in BOOLEAN /\ open \in BOOLEAN
  /\ phase \in {"new", "resolving", "spawning"} => proc = "none" /\ ~timedOut
  /\ proc = "none" => ~killed /\ ~open /\ written = 0 /\ phase \notin WaitingPhases
  /\ phase = "resolving" => job.start # "bad request"
  /\ phase = "spawning" \/ proc # "none" => job.start \notin {"bad request", "no binary"}
  /\ proc # "none" => job.start # "no exec"
  /\ phase = "draining" => proc = "gone"
  /\ phase = "killing" => timedOut
  /\ phase = "done" => proc # "alive"
  /\ phase \in {"killing", "cancelling", "raised"} /\ proc = "alive" => killed
  /\ killed => timedOut \/ phase \in {"cancelling", "raised"}
  /\ proc = "gone" /\ ~killed => written = Check!Stop(job) /\ code = CodeAtEnd(job)
  /\ proc # "none" /\ ~open => proc = "gone" /\ pipe = << >>
  /\ phase = "done" /\ ~timedOut => status = Check!OutcomeOf(job)

CheckAndStream == CheckRight /\ StreamRight

\* The lines a process writes are lines of its log.
LEMMA StopIsInTheLog ==
  ASSUME Check!JobsAreComplete, NEW j \in Jobs
  PROVE  \E S : /\ Check!Lines(j) \in Seq(S) /\ Len(Check!Lines(j)) \in Nat
                /\ Check!Stop(j) \in 0..Len(Check!Lines(j))
<1>1. PICK S : Check!Lines(j) \in Seq(S)
  BY LinesAreASequence
<1>2. Len(Check!Lines(j)) \in Nat
  BY <1>1, LenProperties
<1>3. Check!Stop(j) \in 0..Len(Check!Lines(j))
  BY <1>2 DEF Check!Stop, Check!JobsAreComplete
<1> QED BY <1>1, <1>2, <1>3

LEMMA CheckStarts ==
  ASSUME CheckAssumptions, Check!Init
  PROVE  CheckAndStream
<1>1. CheckRight
  BY DEF Check!Init, CheckRight, WaitingPhases
<1>2. StreamRight
  <2>1. 0 \in 0..Check!Stop(job)
    <3>1. PICK S : Check!Stop(job) \in 0..Len(Check!Lines(job)) /\ Len(Check!Lines(job)) \in Nat
      BY StopIsInTheLog DEF Check!Init, CheckAssumptions
    <3> QED BY <3>1
  <2>2. SubSeq(Check!Lines(job), 1, 0) = << >>
    BY SubSeqEmpty
  <2>3. Check!LastLines(<< >>) = << >>
    BY DEF Check!LastLines, CheckAssumptions, Check!LimitsArePositive
  <2>4. written = 0 /\ pipe = << >> /\ tail = << >>
    BY DEF Check!Init
  <2>5. PICK r \in 0..written : r = 0 /\ r + 1 = 1
    BY <2>4
  <2>6. pipe = SubSeq(Check!Lines(job), r + 1, written) /\ tail = Check!LastLines(SubSeq(Check!Lines(job), 1, r))
    BY <2>2, <2>3, <2>4, <2>5
  <2> QED BY <2>1, <2>4, <2>6 DEF StreamRight
<1> QED BY <1>1, <1>2 DEF CheckAndStream

LEMMA WriteKeeps ==
  ASSUME CheckAssumptions, CheckAndStream, Check!Write
  PROVE  CheckAndStream'
<1> USE DEF CheckAndStream
<1>1. /\ proc = "alive" /\ ~ killed /\ written < Check!Stop(job) /\ written' = written + 1
      /\ pipe' = Append(pipe, Check!Lines(job)[written + 1])
      /\ UNCHANGED <<job, phase, proc, killed, code, tail, open, reporter, updates, timedOut, status>>
  BY DEF Check!Write, Check!Running
<1>2. CheckRight'
  BY <1>1 DEF CheckRight
<1>3. StreamRight'
  <2>1. PICK S, log :
          /\ log \in Seq(S) /\ log = Check!Lines(job)
          /\ Len(log) \in Nat /\ Check!Stop(job) \in 0..Len(log)
    BY StopIsInTheLog DEF CheckAssumptions, CheckRight
  <2>2. PICK r \in 0..written : pipe = SubSeq(log, r + 1, written) /\ tail = Check!LastLines(SubSeq(log, 1, r))
    BY <2>1 DEF StreamRight
  <2>3. PICK n \in 0..(Len(log) - 1) : n = written /\ n + 1 \in 0..Check!Stop(job)
    BY <1>1, <2>1 DEF StreamRight
  <2>4. r + 1 \in 1..(n + 1) /\ r \in 0..(n + 1)
    BY <2>2, <2>3
  <2>5. pipe' = SubSeq(log, r + 1, n + 1)
    BY <1>1, <2>1, <2>2, <2>3, <2>4, LogGrows
  <2>6. Check!Stop(job)' = Check!Stop(job) /\ Check!Lines(job)' = Check!Lines(job)
    BY <1>1 DEF Check!Stop, Check!Lines
  <2>7. Check!LastLines(SubSeq(log, 1, r))' = Check!LastLines(SubSeq(log, 1, r))
    BY DEF Check!LastLines
  <2> QED BY <1>1, <2>1, <2>2, <2>3, <2>4, <2>5, <2>6, <2>7 DEF StreamRight
<1> QED BY <1>2, <1>3

LEMMA ReadKeeps ==
  ASSUME CheckAssumptions, CheckAndStream, Check!ReadTail
  PROVE  CheckAndStream'
<1> USE DEF CheckAndStream
<1>1. open /\ UNCHANGED <<job, phase, proc, killed, code, written, reporter, updates, timedOut, status>>
  BY DEF Check!ReadTail
<1>2. Check!Stop(job)' = Check!Stop(job) /\ Check!Lines(job)' = Check!Lines(job)
  BY <1>1 DEF Check!Stop, Check!Lines
<1>3. ASSUME pipe # << >>, tail' = Check!LastLines(Append(tail, Head(pipe))), pipe' = Tail(pipe), open' = open
      PROVE  CheckAndStream'
  <2>1. CheckRight'
    BY <1>1, <1>3 DEF CheckRight
  <2>2. PICK S, log :
          /\ log \in Seq(S) /\ log = Check!Lines(job)
          /\ Len(log) \in Nat /\ Check!Stop(job) \in 0..Len(log)
    BY StopIsInTheLog DEF CheckAssumptions, CheckRight
  <2>3. PICK r \in 0..written : pipe = SubSeq(log, r + 1, written) /\ tail = Check!LastLines(SubSeq(log, 1, r))
    BY <2>2 DEF StreamRight
  <2>4. PICK n \in 0..Len(log) : n = written
    BY <2>2 DEF StreamRight
  <2>5. /\ r + 1 \in 1..n /\ Head(pipe) = log[r + 1] /\ Tail(pipe) = SubSeq(log, (r + 1) + 1, n)
    BY <1>3, <2>3, <2>4, LogRead
  <2>6. SubSeq(log, 1, r) \in Seq(S) /\ log[r + 1] \in S
    BY <2>2, <2>5
  <2>7. Check!LastLines(Append(tail, log[r + 1])) = Check!LastLines(Append(SubSeq(log, 1, r), log[r + 1]))
    BY <2>3, <2>6, LastLinesOfMore DEF CheckAssumptions
  <2>8. SubSeq(log, 1, r + 1) = Append(SubSeq(log, 1, r), log[r + 1])
    BY <2>5, LogGrows
  <2>9. tail' = Check!LastLines(SubSeq(log, 1, r + 1))
    BY <1>3, <2>5, <2>7, <2>8
  <2>10. StreamRight'
    <3>1. PICK q \in 0..written : q = r + 1
      BY <2>4, <2>5
    <3>2. pipe' = SubSeq(log, q + 1, written) /\ tail' = Check!LastLines(SubSeq(log, 1, q))
      BY <1>3, <2>4, <2>5, <2>9, <3>1
    <3> QED BY <1>1, <1>2, <2>2, <3>2 DEF StreamRight
  <2> QED BY <2>1, <2>10
<1>4. ASSUME pipe = << >>, proc = "gone", open' = FALSE, UNCHANGED <<tail, pipe>>
      PROVE  CheckAndStream'
  <2>1. CheckRight'
    BY <1>1, <1>4 DEF CheckRight
  <2>2. StreamRight'
    BY <1>1, <1>2, <1>4 DEF StreamRight
  <2> QED BY <2>1, <2>2
<1> QED BY <1>3, <1>4 DEF Check!ReadTail

LEMMA StreamStays ==
  ASSUME StreamRight, UNCHANGED <<job, written, pipe, tail>>
  PROVE  StreamRight'
BY DEF StreamRight, Check!Stop, Check!Lines, Check!LastLines

LEMMA EndKeeps ==
  ASSUME CheckAndStream, Check!End
  PROVE  CheckAndStream'
<1>1. UNCHANGED <<job, phase, killed, written, pipe, tail, open, timedOut, status>>
  BY DEF Check!End, Check!stream
<1>2. /\ proc = "alive" /\ proc' = "gone"
      /\ killed \/ (/\ written = Check!Stop(job) /\ code' = CodeAtEnd(job))
  BY DEF Check!End, CodeAtEnd
<1>3. CheckRight'
  <2>1. Check!Stop(job)' = Check!Stop(job) /\ CodeAtEnd(job)' = CodeAtEnd(job)
    BY <1>1 DEF Check!Stop, CodeAtEnd, Check!Lines, Check!ExitCode, Check!CrashCode
  <2> QED BY <1>1, <1>2, <2>1 DEF CheckAndStream, CheckRight, WaitingPhases
<1> QED BY <1>1, <1>3, StreamStays DEF CheckAndStream

\* A step of the call, or of the timer or the client, leaves the process's output
\* alone.
LEMMA CheckMoves ==
  ASSUME CheckAndStream, Check!CheckRequest \/ Check!ResolveBinary \/ Check!Spawn \/ Check!WaitEnds
           \/ Check!CancelEnds \/ Check!Timeout \/ Check!Cancel \/ Check!CancelElsewhere
           \/ Check!ReportProgress
  PROVE  CheckAndStream'
<1>1. UNCHANGED <<job, code, written, pipe, tail>>
  BY DEF Check!CheckRequest, Check!ResolveBinary, Check!Spawn, Check!WaitEnds, Check!CancelEnds,
     Check!Timeout, Check!Cancel, Check!CancelElsewhere, Check!ReportProgress, Check!stream
<1>2. StreamRight'
  BY <1>1, StreamStays DEF CheckAndStream
<1> SUFFICES CheckRight'
  BY <1>2 DEF CheckAndStream
<1>3. CheckRight
  BY DEF CheckAndStream
<1>4. Check!Stop(job)' = Check!Stop(job) /\ CodeAtEnd(job)' = CodeAtEnd(job) /\ Check!OutcomeOf(job)' = Check!OutcomeOf(job)
  BY <1>1
<1>5. CASE Check!CheckRequest
  <2>1. job.start = "bad request" => Check!OutcomeOf(job) = "crash"
    BY DEF Check!OutcomeOf
  <2> QED BY <1>1, <1>3, <1>4, <1>5, <2>1 DEF Check!CheckRequest, Check!Return, Check!stream, CheckRight, WaitingPhases
<1>6. CASE Check!ResolveBinary
  <2>1. job.start = "no binary" => Check!OutcomeOf(job) = "setup_error"
    BY DEF Check!OutcomeOf
  <2> QED BY <1>1, <1>3, <1>4, <1>6, <2>1 DEF Check!ResolveBinary, Check!Return, Check!stream, CheckRight, WaitingPhases
<1>7. CASE Check!Spawn
  <2>1. job.start = "no exec" => Check!OutcomeOf(job) = "crash"
    BY DEF Check!OutcomeOf
  <2> QED BY <1>1, <1>3, <1>4, <1>7, <2>1 DEF Check!Spawn, Check!Return, Check!stream, CheckRight, WaitingPhases
<1>8. CASE Check!WaitEnds
  BY <1>1, <1>3, <1>4, <1>8 DEF Check!WaitEnds, Check!stream, CheckRight, WaitingPhases
<1>9. CASE Check!CancelEnds
  BY <1>1, <1>3, <1>4, <1>9 DEF Check!CancelEnds, Check!stream, CheckRight, WaitingPhases
<1>10. CASE Check!Timeout
  BY <1>1, <1>3, <1>4, <1>10 DEF Check!Timeout, Check!_terminate, Check!stream, CheckRight, WaitingPhases
<1>11. CASE Check!Cancel
  BY <1>1, <1>3, <1>4, <1>11 DEF Check!Cancel, Check!_terminate, Check!stream, CheckRight, WaitingPhases
<1>12. CASE Check!CancelElsewhere
  BY <1>1, <1>3, <1>4, <1>12 DEF Check!CancelElsewhere, Check!stream, CheckRight, WaitingPhases
<1>13. CASE Check!ReportProgress
  BY <1>1, <1>3, <1>4, <1>13 DEF Check!ReportProgress, Check!stream, CheckRight, WaitingPhases
<1> QED BY <1>5, <1>6, <1>7, <1>8, <1>9, <1>10, <1>11, <1>12, <1>13

\* An empty pipe: everything that was written has been read.
LEMMA AllRead ==
  ASSUME CheckAssumptions, CheckAndStream, pipe = << >>
  PROVE  tail = Check!LastLines(SubSeq(Check!Lines(job), 1, written))
<1>1. PICK S, log :
        /\ log \in Seq(S) /\ log = Check!Lines(job)
        /\ Len(log) \in Nat /\ Check!Stop(job) \in 0..Len(log)
  BY StopIsInTheLog DEF CheckAssumptions, CheckAndStream, CheckRight
<1>2. PICK r \in 0..written : pipe = SubSeq(log, r + 1, written) /\ tail = Check!LastLines(SubSeq(log, 1, r))
  BY <1>1 DEF CheckAndStream, StreamRight
<1>3. PICK n \in 0..Len(log) : n = written
  BY <1>1 DEF CheckAndStream, StreamRight
<1>4. r = n
  <2>1. SUFFICES ASSUME r < n PROVE FALSE
    BY <1>2, <1>3
  <2>2. \A i \in (r + 1)..n : log[i] \in S
    BY <1>1, <1>2, <1>3
  <2>3. Len(SubSeq(log, r + 1, n)) = n - (r + 1) + 1
    BY <1>2, <1>3, <2>1, <2>2, SubSeqProperties
  <2> QED BY <1>2, <1>3, <2>1, <2>3
<1> QED BY <1>1, <1>2, <1>3, <1>4

LEMMA FinishKeeps ==
  ASSUME CheckAssumptions, CheckAndStream, Check!Finish
  PROVE  CheckAndStream'
<1>1. /\ phase = "draining" /\ ~ open /\ phase' = "done"
      /\ status' = (IF timedOut THEN "timeout" ELSE Check!classify_verdict(job.kind, code, tail))
      /\ UNCHANGED <<job, proc, killed, code, written, pipe, tail, open, reporter, updates, timedOut>>
  BY DEF Check!Finish, Check!Return, Check!stream
<1>2. CheckRight /\ StreamRight'
  BY <1>1, StreamStays DEF CheckAndStream
<1>3. ~ timedOut => status' = Check!OutcomeOf(job)
  <2>1. SUFFICES ASSUME ~ timedOut PROVE status' = Check!OutcomeOf(job)
    OBVIOUS
  <2>2. /\ proc = "gone" /\ ~ killed /\ written = Check!Stop(job) /\ code = CodeAtEnd(job) /\ pipe = << >>
        /\ job.start \notin {"bad request", "no binary", "no exec"}
    BY <1>1, <1>2, <2>1 DEF CheckRight
  <2>3. tail = Check!LastLines(Check!Printed(job))
    BY <2>2, AllRead DEF Check!Printed
  <2> QED BY <1>1, <2>1, <2>2, <2>3 DEF Check!OutcomeOf, CodeAtEnd
<1>4. Check!Stop(job)' = Check!Stop(job) /\ CodeAtEnd(job)' = CodeAtEnd(job) /\ Check!OutcomeOf(job)' = Check!OutcomeOf(job)
  BY <1>1
<1>5. CheckRight'
  BY <1>1, <1>2, <1>3, <1>4 DEF CheckRight, WaitingPhases
<1> QED BY <1>2, <1>5 DEF CheckAndStream

LEMMA CheckStep ==
  ASSUME CheckAssumptions, CheckAndStream, [Check!Next]_(Check!vars)
  PROVE  CheckAndStream'
<1>1. CASE Check!Next
  BY <1>1, WriteKeeps, ReadKeeps, EndKeeps, CheckMoves, FinishKeeps DEF Check!Next, Check!Call
<1>2. CASE UNCHANGED Check!vars
  BY <1>2 DEF Check!vars, CheckAndStream, CheckRight, StreamRight, Check!stream
<1> QED BY <1>1, <1>2

\* However the process, the reader, the timer and the client interleave, what the
\* process wrote is read in order and only the end of it is kept.
THEOREM NothingIsLost == CheckAssumptions => (Check!Spec => [](CheckRight /\ StreamRight))
<1> SUFFICES ASSUME CheckAssumptions PROVE Check!Spec => [](CheckRight /\ StreamRight)
  OBVIOUS
<1>1. Check!Init => CheckRight /\ StreamRight
  BY CheckStarts DEF CheckAndStream
<1>2. CheckRight /\ StreamRight /\ [Check!Next]_(Check!vars) => (CheckRight /\ StreamRight)'
  BY CheckStep DEF CheckAndStream
<1> QED BY <1>1, <1>2, PTL DEF Check!Spec

\* For any jobs and limits: a status depends on the job alone, and no process
\* outlives its call (CheckRunner.run).
THEOREM AnswerOfTheLog ==
  CheckAssumptions => (Check!Spec => [](Check!AnswerIsTheLog /\ Check!NoProcessOutlivesTheCall))
<1>1. CheckRight => Check!AnswerIsTheLog /\ Check!NoProcessOutlivesTheCall
  BY DEF CheckRight, Check!AnswerIsTheLog, Check!NoProcessOutlivesTheCall, Check!Over
<1> QED BY <1>1, NothingIsLost, PTL
-----------------------------------------------------------------------------
(* The cache of checkers the servers share *)

\* A destination is absent, or holds verified bytes.
Destinations == {Cache!Absent} \cup [state : {"placed", "ready"}, bytes : {"good"}]

Outcomes == [how : {"none", "path", "cache", "download", "setup_error"}, release : Int,
             cause : {"none", "network", "release", "checksum", "archive", "rename"}]

DirectoriesTyped ==
  /\ latest \in Cache!Releases
  /\ dest \in [Cache!Releases -> Destinations]
  /\ began \in [Resolvers -> [Cache!Releases -> Destinations]]
  /\ pc \in [Resolvers -> {"idle", "lookup", "release", "fetch", "verify", "place",
                           "replace", "chmod"}]
  /\ tag \in [Resolvers -> 0..MaxRelease]
  /\ staged \in [Resolvers -> {"none", "good", "bad"}]
  /\ outcome \in [Resolvers -> Outcomes]

\* What was there before still is, and what was ready still is.
Grown(before, after) ==
  \A r \in Cache!Releases :
    /\ after[r] = Cache!Absent => before[r] = Cache!Absent
    /\ before[r].state = "ready" => after[r].state = "ready"

NoneReady(directories) == \A r \in Cache!Releases : directories[r].state # "ready"

\* A call past the lookup found nothing ready; it places verified bytes only, at
\* a destination that was absent when it began, and makes executable what is there.
ResolverRight(c) ==
  /\ Grown(began[c], dest)
  /\ pc[c] # "idle" => outcome[c] = Cache!NotEnded
  /\ pc[c] \notin {"idle", "lookup"} => NoneReady(began[c])
  /\ pc[c] \notin {"idle", "lookup", "release"} => tag[c] \in Cache!Releases
  /\ pc[c] \in {"place", "replace"} => staged[c] = "good"
  /\ pc[c] = "replace" => began[c][tag[c]] = Cache!Absent
  /\ pc[c] = "chmod" => dest[tag[c]] # Cache!Absent
  /\ outcome[c].how \in {"cache", "download"} =>
       outcome[c].release \in Cache!Releases /\ dest[outcome[c].release].state = "ready"
  /\ outcome[c].how = "setup_error" => NoneReady(began[c])
  /\ outcome[c].cause = "rename" => tag[c] \in Cache!Releases /\ began[c][tag[c]] = Cache!Absent

DirectoriesRight == DirectoriesTyped /\ \A c \in Resolvers : ResolverRight(c)

\* A directory of verified bytes, by its state.
LEMMA StateOfDestination ==
  ASSUME NEW d \in Destinations
  PROVE  /\ d = Cache!Absent <=> d.state = "absent"
         /\ d.state \in {"absent", "placed", "ready"}
         /\ d.state = "ready" => d.bytes = "good"
<1>1. CASE d = Cache!Absent
  BY <1>1 DEF Cache!Absent
<1>2. CASE d \in [state : {"placed", "ready"}, bytes : {"good"}]
  <2>1. d.state \in {"placed", "ready"} /\ d.bytes = "good"
    BY <1>2
  <2>2. d # Cache!Absent
    BY <2>1 DEF Cache!Absent
  <2> QED BY <2>1, <2>2
<1> QED BY <1>1, <1>2 DEF Destinations

LEMMA GrowsFurther ==
  ASSUME NEW x, NEW y, NEW z, Grown(x, y), Grown(y, z)
  PROVE  Grown(x, z)
BY DEF Grown

\* A call that does not move keeps what it relies on while directories only
\* come or become executable.
LEMMA OthersRight ==
  ASSUME DirectoriesTyped, Grown(dest, dest'), NEW c \in Resolvers, ResolverRight(c),
         pc'[c] = pc[c], tag'[c] = tag[c], staged'[c] = staged[c],
         outcome'[c] = outcome[c], began'[c] = began[c]
  PROVE  ResolverRight(c)'
<1>1. Grown(began'[c], dest')
  BY GrowsFurther DEF ResolverRight
<1>2. pc'[c] = "chmod" => dest'[tag'[c]] # Cache!Absent
  <2>1. pc[c] = "chmod" => tag[c] \in Cache!Releases /\ dest[tag[c]] # Cache!Absent
    BY DEF ResolverRight
  <2> QED BY <2>1 DEF Grown
<1>3. outcome'[c].how \in {"cache", "download"} =>
        outcome'[c].release \in Cache!Releases /\ dest'[outcome'[c].release].state = "ready"
  <2>1. outcome[c].how \in {"cache", "download"} =>
          outcome[c].release \in Cache!Releases /\ dest[outcome[c].release].state = "ready"
    BY DEF ResolverRight
  <2> QED BY <2>1 DEF Grown
<1>4. NoneReady(began[c])' = NoneReady(began[c])
  BY DEF NoneReady
<1>5. Grown(began[c], dest)'
  BY <1>1 DEF Grown
<1> QED BY <1>2, <1>3, <1>4, <1>5 DEF ResolverRight

LEMMA SameGrown ==
  ASSUME NEW x
  PROVE  Grown(x, x)
BY DEF Grown

USE DEF Cache!NotEnded, Cache!Ended

LEMMA NotEndedTyped == Cache!NotEnded \in Outcomes
BY DEF Outcomes

\* Only the actor moves.
OthersUnmoved(d) ==
  \A c \in Resolvers \ {d} :
    /\ pc'[c] = pc[c] /\ tag'[c] = tag[c] /\ staged'[c] = staged[c]
    /\ outcome'[c] = outcome[c] /\ began'[c] = began[c]

LEMMA ResolverMoves ==
  ASSUME DirectoriesRight, NEW d \in Resolvers, DirectoriesTyped', Grown(dest, dest'),
         OthersUnmoved(d), ResolverRight(d)'
  PROVE  DirectoriesRight'
<1>1. ASSUME NEW c \in Resolvers PROVE ResolverRight(c)'
  <2>1. CASE c = d
    BY <2>1
  <2>2. CASE c # d
    <3>1. DirectoriesTyped /\ ResolverRight(c)
      BY DEF DirectoriesRight
    <3> QED BY <2>2, <3>1, OthersRight DEF OthersUnmoved
  <2> QED BY <2>1, <2>2
<1> QED BY <1>1 DEF DirectoriesRight

\* A call that ends without having touched a directory.
LEMMA EndsRight ==
  ASSUME DirectoriesRight, NEW d \in Resolvers,
         NEW how \in {"path", "cache", "download", "setup_error"}, NEW r \in Int,
         NEW cause \in {"none", "network", "release", "checksum", "archive", "rename"},
         Cache!Ends(d, how, r, cause), UNCHANGED <<onPath, modeBits, latest, dest, tag, began>>,
         how \in {"cache", "download"} => r \in Cache!Releases /\ dest[r].state = "ready",
         how = "setup_error" => NoneReady(began[d]),
         cause = "rename" => tag[d] \in Cache!Releases /\ began[d][tag[d]] = Cache!Absent
  PROVE  DirectoriesRight'
<1> USE DEF DirectoriesRight
<1>1. /\ pc' = [pc EXCEPT ![d] = "idle"] /\ staged' = [staged EXCEPT ![d] = "none"]
      /\ outcome' = [outcome EXCEPT ![d] = [how |-> how, release |-> r, cause |-> cause]]
  BY DEF Cache!Ends
<1>2. [how |-> how, release |-> r, cause |-> cause] \in Outcomes
  BY DEF Outcomes
<1>3. DirectoriesTyped'
  BY <1>1, <1>2 DEF DirectoriesTyped
<1>4. OthersUnmoved(d)
  BY <1>1 DEF OthersUnmoved, DirectoriesTyped
<1>5. pc'[d] = "idle" /\ outcome'[d] = [how |-> how, release |-> r, cause |-> cause]
  BY <1>1 DEF DirectoriesTyped
<1>6. ResolverRight(d)'
  <2>1. Grown(began[d], dest)' /\ NoneReady(began[d])' = NoneReady(began[d])
    BY DEF Grown, NoneReady, ResolverRight
  <2> QED BY <1>5, <2>1 DEF ResolverRight
<1>7. Grown(dest, dest')
  BY SameGrown
<1> QED BY <1>3, <1>4, <1>6, <1>7, ResolverMoves

LEMMA ResolveKeeps ==
  ASSUME Cache!ReleaseAssumption, DirectoriesRight, NEW d \in Resolvers, Cache!Resolve(d)
  PROVE  DirectoriesRight'
<1> USE DEF DirectoriesRight
<1>1. /\ began' = [began EXCEPT ![d] = dest] /\ tag' = [tag EXCEPT ![d] = 0]
      /\ pc[d] = "idle" /\ UNCHANGED <<onPath, modeBits, latest, dest>>
  BY DEF Cache!Resolve, Cache!world
<1>2. PICK how \in {"none", "path"}, step \in {"idle", "lookup"} :
        /\ pc' = [pc EXCEPT ![d] = step]
        /\ outcome' = [outcome EXCEPT ![d] = [how |-> how, release |-> 0, cause |-> "none"]]
        /\ staged' = staged \/ staged' = [staged EXCEPT ![d] = "none"]
        /\ step = "lookup" => how = "none"
  <2>1. CASE onPath
    <3>1. Cache!Ends(d, "path", 0, "none")
      BY <2>1 DEF Cache!Resolve
    <3> QED BY <3>1 DEF Cache!Ends
  <2>2. CASE ~ onPath
    <3>1. Cache!Goto(d, "lookup") /\ outcome' = [outcome EXCEPT ![d] = Cache!NotEnded] /\ staged' = staged
      BY <2>2 DEF Cache!Resolve
    <3> QED BY <3>1 DEF Cache!Goto
  <2> QED BY <2>1, <2>2
<1>3. [how |-> how, release |-> 0, cause |-> "none"] \in Outcomes
  BY DEF Outcomes
<1>4. DirectoriesTyped'
  <2>1. began' \in [Resolvers -> [Cache!Releases -> Destinations]]
    BY <1>1 DEF DirectoriesTyped
  <2>2. staged' \in [Resolvers -> {"none", "good", "bad"}]
    BY <1>2 DEF DirectoriesTyped
  <2>3. 0 \in 0..MaxRelease
    BY DEF Cache!ReleaseAssumption
  <2> QED BY <1>1, <1>2, <1>3, <2>1, <2>2, <2>3 DEF DirectoriesTyped
<1>5. OthersUnmoved(d)
  BY <1>1, <1>2 DEF OthersUnmoved, DirectoriesTyped
<1>6. began'[d] = dest /\ pc'[d] = step /\ outcome'[d] = [how |-> how, release |-> 0, cause |-> "none"]
  BY <1>1, <1>2 DEF DirectoriesTyped
<1>7. ResolverRight(d)'
  <2>1. Grown(began[d], dest)'
    BY <1>1, <1>6 DEF Grown
  <2> QED BY <1>2, <1>6, <2>1 DEF ResolverRight
<1>8. Grown(dest, dest')
  BY <1>1, SameGrown
<1> QED BY <1>4, <1>5, <1>7, <1>8, ResolverMoves

\* A call that goes on to its next step without having touched a directory.
LEMMA GoesOnRight ==
  ASSUME DirectoriesRight, NEW d \in Resolvers,
         NEW step \in {"release", "fetch", "verify", "place", "replace", "chmod"},
         Cache!Goto(d, step), UNCHANGED <<onPath, modeBits, latest, dest, outcome, began>>,
         pc[d] # "idle", NoneReady(began[d]),
         NEW t \in 0..MaxRelease, tag' = [tag EXCEPT ![d] = t],
         NEW b \in {"none", "good", "bad"}, staged' = [staged EXCEPT ![d] = b],
         step # "release" => t \in Cache!Releases,
         step \in {"place", "replace"} => b = "good",
         step = "replace" => began[d][t] = Cache!Absent,
         step = "chmod" => dest[t] # Cache!Absent
  PROVE  DirectoriesRight'
<1> USE DEF DirectoriesRight
<1>1. pc' = [pc EXCEPT ![d] = step]
  BY DEF Cache!Goto
<1>2. DirectoriesTyped'
  BY <1>1 DEF DirectoriesTyped
<1>3. OthersUnmoved(d)
  BY <1>1 DEF OthersUnmoved, DirectoriesTyped
<1>4. pc'[d] = step /\ tag'[d] = t /\ staged'[d] = b /\ outcome'[d] = Cache!NotEnded
  <2>1. outcome[d] = Cache!NotEnded
    BY DEF ResolverRight
  <2> QED BY <1>1, <2>1 DEF DirectoriesTyped
<1>5. ResolverRight(d)'
  <2>1. Grown(began[d], dest)' /\ NoneReady(began[d])'
    BY DEF Grown, NoneReady, ResolverRight
  <2> QED BY <1>4, <2>1 DEF ResolverRight
<1>6. Grown(dest, dest')
  BY SameGrown
<1> QED BY <1>2, <1>3, <1>5, <1>6, ResolverMoves

\* An entry that keeps its value.
LEMMA Unmoved ==
  ASSUME DirectoriesRight, NEW d \in Resolvers
  PROVE  /\ tag = [tag EXCEPT ![d] = tag[d]] /\ staged = [staged EXCEPT ![d] = staged[d]]
         /\ tag[d] \in 0..MaxRelease /\ staged[d] \in {"none", "good", "bad"}
BY DEF DirectoriesRight, DirectoriesTyped

LEMMA FindCachedKeeps ==
  ASSUME DirectoriesRight, NEW d \in Resolvers, Cache!FindCached(d)
  PROVE  DirectoriesRight'
<1>1. pc[d] = "lookup" /\ UNCHANGED <<onPath, modeBits, latest, dest, tag, began>>
  BY DEF Cache!FindCached, Cache!world
<1>2. ASSUME NEW r \in Cache!Cached, Cache!Ends(d, "cache", r, "none")
      PROVE  DirectoriesRight'
  <2>1. r \in Cache!Releases /\ r \in Int /\ dest[r].state = "ready"
    BY <1>2 DEF Cache!Cached, Cache!Executable, Cache!Releases
  <2> QED BY <1>1, <1>2, <2>1, EndsRight
<1>3. ASSUME Cache!Cached = {}, Cache!Goto(d, "release"), UNCHANGED <<outcome, staged>>
      PROVE  DirectoriesRight'
  <2>1. NoneReady(began[d])
    <3>1. NoneReady(dest)
      BY <1>3 DEF Cache!Cached, Cache!Executable, NoneReady
    <3>2. Grown(began[d], dest)
      BY DEF DirectoriesRight, ResolverRight
    <3> QED BY <3>1, <3>2 DEF NoneReady, Grown
  <2>2. PICK t \in 0..MaxRelease : tag' = [tag EXCEPT ![d] = t]
    BY <1>1, Unmoved
  <2>3. PICK b \in {"none", "good", "bad"} : staged' = [staged EXCEPT ![d] = b]
    BY <1>3, Unmoved
  <2> QED BY <1>1, <1>3, <2>1, <2>2, <2>3, GoesOnRight
<1> QED BY <1>2, <1>3 DEF Cache!FindCached

\* Past the lookup a call has found nothing ready.
LEMMA FoundNothing ==
  ASSUME DirectoriesRight, NEW d \in Resolvers, pc[d] \notin {"idle", "lookup"}
  PROVE  NoneReady(began[d])
BY DEF DirectoriesRight, ResolverRight

\* A download that fails at any of its steps.
LEMMA RaiseKeeps ==
  ASSUME DirectoriesRight, NEW d \in Resolvers, pc[d] \notin {"idle", "lookup"},
         NEW cause \in {"network", "release", "checksum", "archive"}, Cache!Raise(d, cause),
         UNCHANGED <<onPath, modeBits, latest, dest, tag, began>>
  PROVE  DirectoriesRight'
BY EndsRight, FoundNothing DEF Cache!Raise

LEMMA ReadReleaseKeeps ==
  ASSUME Cache!ReleaseAssumption, DirectoriesRight, NEW d \in Resolvers, Cache!ReadRelease(d)
  PROVE  DirectoriesRight'
<1>1. pc[d] = "release" /\ UNCHANGED <<onPath, modeBits, latest, dest, began>>
  BY DEF Cache!ReadRelease, Cache!world
<1>2. ASSUME tag' = [tag EXCEPT ![d] = latest], Cache!Goto(d, "fetch"), UNCHANGED <<outcome, staged>>
      PROVE  DirectoriesRight'
  <2>1. PICK t \in Cache!Releases : t = latest
    BY DEF DirectoriesRight, DirectoriesTyped
  <2>2. t \in 0..MaxRelease
    BY <2>1 DEF Cache!Releases, Cache!ReleaseAssumption
  <2>3. PICK b \in {"none", "good", "bad"} : staged' = [staged EXCEPT ![d] = b]
    BY <1>2, Unmoved
  <2>4. tag' = [tag EXCEPT ![d] = t]
    BY <1>2, <2>1
  <2> QED BY <1>1, <1>2, <2>2, <2>3, <2>4, FoundNothing, GoesOnRight
<1>3. ASSUME NEW cause \in {"network", "release"}, Cache!Raise(d, cause), tag' = tag
      PROVE  DirectoriesRight'
  BY <1>1, <1>3, RaiseKeeps
<1> QED BY <1>2, <1>3 DEF Cache!ReadRelease

LEMMA DownloadKeeps ==
  ASSUME DirectoriesRight, NEW d \in Resolvers, Cache!Download(d)
  PROVE  DirectoriesRight'
<1>1. pc[d] = "fetch" /\ UNCHANGED <<onPath, modeBits, latest, dest, tag, began>>
  BY DEF Cache!Download, Cache!world
<1>2. ASSUME NEW b \in {"good", "bad"}, staged' = [staged EXCEPT ![d] = b],
             Cache!Goto(d, "verify"), outcome' = outcome
      PROVE  DirectoriesRight'
  <2>1. PICK t \in 0..MaxRelease : tag' = [tag EXCEPT ![d] = t] /\ t = tag[d]
    BY <1>1, Unmoved
  <2>2. t \in Cache!Releases
    BY <1>1, <2>1 DEF DirectoriesRight, ResolverRight
  <2> QED BY <1>1, <1>2, <2>1, <2>2, FoundNothing, GoesOnRight
<1> QED BY <1>1, <1>2, RaiseKeeps DEF Cache!Download

LEMMA VerifyKeeps ==
  ASSUME DirectoriesRight, NEW d \in Resolvers, Cache!VerifyAndExtract(d)
  PROVE  DirectoriesRight'
<1>1. pc[d] = "verify" /\ UNCHANGED <<onPath, modeBits, latest, dest, tag, began>>
  BY DEF Cache!VerifyAndExtract, Cache!world
<1>2. ASSUME staged[d] = "good", Cache!Goto(d, "place"), UNCHANGED <<outcome, staged>>
      PROVE  DirectoriesRight'
  <2>1. PICK t \in 0..MaxRelease : tag' = [tag EXCEPT ![d] = t] /\ t = tag[d]
    BY <1>1, Unmoved
  <2>2. t \in Cache!Releases
    BY <1>1, <2>1 DEF DirectoriesRight, ResolverRight
  <2>3. staged' = [staged EXCEPT ![d] = "good"]
    BY <1>2, Unmoved
  <2> QED BY <1>1, <1>2, <2>1, <2>2, <2>3, FoundNothing, GoesOnRight
<1> QED BY <1>1, <1>2, RaiseKeeps DEF Cache!VerifyAndExtract, Cache!Matches

LEMMA CheckDestinationKeeps ==
  ASSUME DirectoriesRight, NEW d \in Resolvers, Cache!CheckDestination(d)
  PROVE  DirectoriesRight'
<1>1. pc[d] = "place" /\ UNCHANGED <<onPath, modeBits, latest, dest, outcome, began>>
  BY DEF Cache!CheckDestination, Cache!world
<1>2. PICK t \in 0..MaxRelease : tag' = [tag EXCEPT ![d] = t] /\ t = tag[d]
  BY Unmoved DEF Cache!CheckDestination
<1>3. t \in Cache!Releases /\ staged[d] = "good" /\ Grown(began[d], dest)
  BY <1>1, <1>2 DEF DirectoriesRight, ResolverRight
<1>4. staged' = [staged EXCEPT ![d] = "good"]
  BY <1>3, Unmoved DEF Cache!CheckDestination
<1>5. PICK step \in {"replace", "chmod"} :
        /\ Cache!Goto(d, step)
        /\ step = "replace" => dest[t] = Cache!Absent
        /\ step = "chmod" => dest[t] # Cache!Absent
  <2>1. CASE dest[t] = Cache!Absent
    BY <1>2, <2>1 DEF Cache!CheckDestination
  <2>2. CASE dest[t] # Cache!Absent
    BY <1>2, <2>2 DEF Cache!CheckDestination
  <2> QED BY <2>1, <2>2
<1>6. step = "replace" => began[d][t] = Cache!Absent
  BY <1>3, <1>5 DEF Grown
<1> QED BY <1>1, <1>2, <1>3, <1>4, <1>5, <1>6, FoundNothing, GoesOnRight

\* A directory that comes, or becomes executable.
LEMMA GrowsAt ==
  ASSUME DirectoriesTyped, NEW t \in Cache!Releases,
         NEW e \in [state : {"placed", "ready"}, bytes : {"good"}],
         dest' = [dest EXCEPT ![t] = e], dest[t] = Cache!Absent \/ e.state = "ready"
  PROVE  /\ Grown(dest, dest') /\ dest' \in [Cache!Releases -> Destinations]
         /\ dest'[t] = e /\ e # Cache!Absent
<1>1. dest \in [Cache!Releases -> Destinations] /\ e \in Destinations
  BY DEF DirectoriesTyped, Destinations
<1>2. dest' \in [Cache!Releases -> Destinations] /\ dest'[t] = e
  BY <1>1
<1>3. e # Cache!Absent /\ Cache!Absent.state = "absent"
  BY DEF Cache!Absent
<1>4. \A r \in Cache!Releases : r # t => dest'[r] = dest[r]
  BY <1>1
<1> QED BY <1>2, <1>3, <1>4 DEF Grown

LEMMA ReplaceKeeps ==
  ASSUME DirectoriesRight, NEW d \in Resolvers, Cache!ReplaceDestination(d)
  PROVE  DirectoriesRight'
<1>1. pc[d] = "replace" /\ UNCHANGED <<onPath, modeBits, latest, tag, began>>
  BY DEF Cache!ReplaceDestination, Cache!world
<1>2. PICK t \in Cache!Releases : t = tag[d] /\ staged[d] = "good" /\ began[d][t] = Cache!Absent
  BY <1>1 DEF DirectoriesRight, ResolverRight
<1>3. ASSUME dest[tag[d]] = Cache!Absent, dest' = Cache!Placed(d), Cache!Goto(d, "chmod"),
             UNCHANGED <<outcome, staged>>
      PROVE  DirectoriesRight'
  <2>1. PICK e \in [state : {"placed", "ready"}, bytes : {"good"}] : dest' = [dest EXCEPT ![t] = e]
    <3> DEFINE e == [state |-> IF modeBits THEN "ready" ELSE "placed", bytes |-> staged[d]]
    <3>1. e \in [state : {"placed", "ready"}, bytes : {"good"}]
      BY <1>2
    <3>2. dest' = [dest EXCEPT ![t] = e]
      BY <1>2, <1>3 DEF Cache!Placed
    <3> QED BY <3>1, <3>2
  <2>2. DirectoriesTyped /\ \A c \in Resolvers : ResolverRight(c)
    BY DEF DirectoriesRight
  <2>3. /\ Grown(dest, dest') /\ dest' \in [Cache!Releases -> Destinations]
        /\ dest'[t] # Cache!Absent
    BY <1>2, <1>3, <2>1, <2>2, GrowsAt
  <2>4. DirectoriesTyped'
    BY <1>1, <1>3, <2>2, <2>3 DEF DirectoriesTyped, Cache!Goto
  <2>5. OthersUnmoved(d) /\ pc'[d] = "chmod"
    BY <1>1, <1>3, <2>2 DEF OthersUnmoved, DirectoriesTyped, Cache!Goto
  <2>6. ResolverRight(d)'
    <3>1. Grown(began[d], dest')
      BY <2>2, <2>3, GrowsFurther DEF ResolverRight
    <3>2. Grown(began[d], dest)' /\ NoneReady(began[d])' /\ outcome'[d] = Cache!NotEnded
      BY <1>1, <1>3, <2>2, <3>1, FoundNothing DEF Grown, NoneReady, ResolverRight
    <3> QED BY <1>1, <1>2, <2>3, <2>5, <3>2 DEF ResolverRight
  <2> QED BY <2>3, <2>4, <2>5, <2>6, ResolverMoves
<1>4. ASSUME Cache!Raise(d, "rename"), dest' = dest
      PROVE  DirectoriesRight'
  BY <1>1, <1>2, <1>4, FoundNothing, EndsRight DEF Cache!Raise
<1> QED BY <1>3, <1>4 DEF Cache!ReplaceDestination

LEMMA MakeExecutableKeeps ==
  ASSUME DirectoriesRight, NEW d \in Resolvers, Cache!MakeExecutable(d)
  PROVE  DirectoriesRight'
<1>1. pc[d] = "chmod" /\ UNCHANGED <<onPath, modeBits, latest, tag, began>>
  BY DEF Cache!MakeExecutable, Cache!world
<1>2. DirectoriesTyped /\ \A c \in Resolvers : ResolverRight(c)
  BY DEF DirectoriesRight
<1>3. PICK t \in Cache!Releases : t = tag[d] /\ dest[t] # Cache!Absent
  BY <1>1, <1>2 DEF ResolverRight
<1>4. PICK e \in [state : {"placed", "ready"}, bytes : {"good"}] :
        dest' = [dest EXCEPT ![t] = e] /\ e.state = "ready"
  <2>1. dest[t] \in [state : {"placed", "ready"}, bytes : {"good"}]
    BY <1>2, <1>3 DEF DirectoriesTyped, Destinations
  <2>2. dest' = [dest EXCEPT ![t] = [dest[t] EXCEPT !.state = "ready"]]
    BY <1>3 DEF Cache!MakeExecutable
  <2> DEFINE e == [dest[t] EXCEPT !.state = "ready"]
  <2>3. e \in [state : {"placed", "ready"}, bytes : {"good"}] /\ e.state = "ready"
    BY <2>1
  <2> QED BY <2>2, <2>3
<1>5. /\ Grown(dest, dest') /\ dest' \in [Cache!Releases -> Destinations] /\ dest'[t] = e
  BY <1>2, <1>4, GrowsAt
<1>6. /\ pc' = [pc EXCEPT ![d] = "idle"] /\ staged' = [staged EXCEPT ![d] = "none"]
      /\ outcome' = [outcome EXCEPT ![d] = [how |-> "download", release |-> t, cause |-> "none"]]
  BY <1>3 DEF Cache!MakeExecutable, Cache!Ends
<1>7. [how |-> "download", release |-> t, cause |-> "none"] \in Outcomes
  BY DEF Outcomes, Cache!Releases
<1>8. DirectoriesTyped'
  BY <1>1, <1>2, <1>5, <1>6, <1>7 DEF DirectoriesTyped
<1>9. OthersUnmoved(d)
  BY <1>1, <1>2, <1>6 DEF OthersUnmoved, DirectoriesTyped
<1>10. ResolverRight(d)'
  <2>1. Grown(began[d], dest')
    BY <1>2, <1>5, GrowsFurther DEF ResolverRight
  <2>2. Grown(began[d], dest)'
    BY <1>1, <2>1 DEF Grown
  <2>3. pc'[d] = "idle" /\ outcome'[d] = [how |-> "download", release |-> t, cause |-> "none"]
    BY <1>2, <1>6 DEF DirectoriesTyped
  <2> QED BY <1>4, <1>5, <2>2, <2>3 DEF ResolverRight
<1> QED BY <1>5, <1>8, <1>9, <1>10, ResolverMoves

\* A server that dies leaves its call without an outcome.
LEMMA CrashKeeps ==
  ASSUME DirectoriesRight, NEW d \in Resolvers, Cache!Crash(d)
  PROVE  DirectoriesRight'
<1>1. /\ pc[d] # "idle" /\ UNCHANGED <<onPath, modeBits, latest, dest, tag, outcome, began>>
      /\ pc' = [pc EXCEPT ![d] = "idle"] /\ staged' = [staged EXCEPT ![d] = "none"]
  BY DEF Cache!Crash, Cache!world, Cache!Goto
<1>2. DirectoriesTyped /\ ResolverRight(d)
  BY DEF DirectoriesRight
<1>3. DirectoriesTyped'
  BY <1>1, <1>2 DEF DirectoriesTyped
<1>4. OthersUnmoved(d) /\ pc'[d] = "idle" /\ outcome'[d] = Cache!NotEnded
  BY <1>1, <1>2 DEF OthersUnmoved, DirectoriesTyped, ResolverRight
<1>5. ResolverRight(d)'
  <2>1. Grown(began[d], dest)'
    BY <1>1, <1>2 DEF Grown, ResolverRight
  <2> QED BY <1>4, <2>1 DEF ResolverRight
<1>6. Grown(dest, dest')
  BY <1>1, SameGrown
<1> QED BY <1>3, <1>4, <1>5, <1>6, ResolverMoves

LEMMA CacheStays ==
  ASSUME DirectoriesRight, UNCHANGED <<dest, pc, tag, staged, outcome, began>>, latest' \in Cache!Releases
  PROVE  DirectoriesRight'
<1>1. DirectoriesTyped'
  BY DEF DirectoriesRight, DirectoriesTyped
<1>2. ASSUME NEW c \in Resolvers PROVE ResolverRight(c)'
  <2>1. Grown(dest, dest')
    BY SameGrown
  <2> QED BY <2>1, OthersRight DEF DirectoriesRight
<1> QED BY <1>1, <1>2 DEF DirectoriesRight

LEMMA ResolverStep ==
  ASSUME Cache!ReleaseAssumption, DirectoriesRight, [Cache!Next]_(Cache!vars)
  PROVE  DirectoriesRight'
<1>1. ASSUME NEW d \in Resolvers, Cache!Resolve(d) \/ Cache!Step(d) \/ Cache!Crash(d)
      PROVE  DirectoriesRight'
  BY <1>1, ResolveKeeps, FindCachedKeeps, ReadReleaseKeeps, DownloadKeeps, VerifyKeeps,
     CheckDestinationKeeps, ReplaceKeeps, MakeExecutableKeeps, CrashKeeps DEF Cache!Step
<1>2. CASE Cache!Publish
  <2>1. latest' \in Cache!Releases
    BY <1>2 DEF Cache!Publish, DirectoriesRight, DirectoriesTyped, Cache!Releases, Cache!ReleaseAssumption
  <2> QED BY <1>2, <2>1, CacheStays DEF Cache!Publish
<1>3. CASE UNCHANGED Cache!vars
  <2>1. latest' \in Cache!Releases
    BY <1>3 DEF Cache!vars, DirectoriesRight, DirectoriesTyped
  <2> QED BY <1>3, <2>1, CacheStays DEF Cache!vars
<1> QED BY <1>1, <1>2, <1>3 DEF Cache!Next

LEMMA ResolversStart ==
  ASSUME Cache!ReleaseAssumption, Cache!Init
  PROVE  DirectoriesRight
<1>1. latest \in Cache!Releases /\ 0 \in 0..MaxRelease
  BY DEF Cache!ReleaseAssumption, Cache!Init, Cache!Releases
<1>2. dest \in [Cache!Releases -> Destinations]
  BY DEF Cache!Init, Destinations
<1>3. outcome \in [Resolvers -> Outcomes]
  BY NotEndedTyped DEF Cache!Init
<1>4. DirectoriesTyped
  BY <1>1, <1>2, <1>3 DEF DirectoriesTyped, Cache!Init
<1>5. ASSUME NEW c \in Resolvers PROVE ResolverRight(c)
  <2>1. pc[c] = "idle" /\ outcome[c] = Cache!NotEnded /\ began[c] = dest
    BY DEF Cache!Init
  <2> QED BY <2>1, SameGrown DEF ResolverRight
<1> QED BY <1>4, <1>5 DEF DirectoriesRight

\* A release that is in the cache stays, verified, whatever the other calls and
\* the servers that die do; a call relies on nothing else.
THEOREM CacheOnlyGrows == Cache!ReleaseAssumption => (Cache!Spec => []DirectoriesRight)
<1> SUFFICES ASSUME Cache!ReleaseAssumption PROVE Cache!Spec => []DirectoriesRight
  OBVIOUS
<1>1. Cache!Init => DirectoriesRight
  BY ResolversStart
<1>2. DirectoriesRight /\ [Cache!Next]_(Cache!vars) => DirectoriesRight'
  BY ResolverStep
<1> QED BY <1>1, <1>2, PTL DEF Cache!Spec

\* What the resolvers find and place, from the invariant.
LEMMA DirectoriesAreVerified ==
  ASSUME DirectoriesRight
  PROVE  Cache!ResolvedIsVerified /\ Cache!CachedCallsSucceed /\ Cache!LeftoversAreFinished
<1>1. DirectoriesTyped /\ \A c \in Resolvers : ResolverRight(c)
  BY DEF DirectoriesRight
<1>2. \A r \in Cache!Releases : dest[r].state = "ready" => dest[r].bytes = "good"
  BY <1>1, StateOfDestination DEF DirectoriesTyped
<1>3. Cache!ResolvedIsVerified
  BY <1>1, <1>2 DEF ResolverRight, Cache!ResolvedIsVerified, Cache!Executable
<1>4. Cache!CachedCallsSucceed
  BY <1>1 DEF ResolverRight, NoneReady, Cache!CachedCallsSucceed, Cache!Executable
<1>5. Cache!LeftoversAreFinished
  BY <1>1 DEF ResolverRight, Cache!LeftoversAreFinished
<1> QED BY <1>3, <1>4, <1>5

\* On the specification of the cache alone.
THEOREM ResolvedVerified ==
  Cache!ReleaseAssumption =>
    (Cache!Spec => [](Cache!ResolvedIsVerified /\ Cache!CachedCallsSucceed /\ Cache!LeftoversAreFinished))
<1>1. DirectoriesRight =>
        Cache!ResolvedIsVerified /\ Cache!CachedCallsSucceed /\ Cache!LeftoversAreFinished
  BY DirectoriesAreVerified
<1> QED BY <1>1, CacheOnlyGrows, PTL
-----------------------------------------------------------------------------
(* The host's side as a whole *)

SideVars == <<part, vars, checkVars, cacheVars>>

SideNext == RunRuns \/ RunCheck \/ RunCache

\* Each part keeps its own invariant: the calls into the verifier, the tool call
\* and the cache of checkers.
SideRight == CallsRight /\ WorldRight /\ WorkRight /\ CheckAndStream /\ DirectoriesRight

LEMMA SideStarts ==
  ASSUME SideInit
  PROVE  SideRight
<1>1. Init /\ Check!Init /\ Cache!Init
  BY DEF SideInit, SomeRuns, SomeCheck, SomeCache
<1>2. CallsRight /\ WorldRight /\ WorkRight
  BY <1>1, HostInit, WorkInit
<1>3. CheckAndStream
  BY <1>1, CheckStarts, CheckConstants
<1>4. DirectoriesRight
  BY <1>1, ResolversStart, CacheConstants
<1> QED BY <1>2, <1>3, <1>4 DEF SideRight

LEMMA SideStep ==
  ASSUME SideRight, [SideNext]_SideVars
  PROVE  SideRight'
<1>1. /\ [Next]_vars
      /\ [Check!Next]_(Check!vars)
      /\ [Cache!Next]_(Cache!vars)
  <2>1. UNCHANGED checkVars => UNCHANGED Check!vars
    BY DEF checkVars, Check!vars
  <2>2. UNCHANGED cacheVars => UNCHANGED Cache!vars
    BY DEF cacheVars, Cache!vars
  <2>3. CASE RunRuns
    BY <2>1, <2>2, <2>3 DEF RunRuns
  <2>4. CASE RunCheck
    BY <2>2, <2>4 DEF RunCheck
  <2>5. CASE RunCache
    BY <2>1, <2>5 DEF RunCache
  <2>6. CASE UNCHANGED SideVars
    BY <2>1, <2>2, <2>6 DEF SideVars
  <2> QED BY <2>3, <2>4, <2>5, <2>6 DEF SideNext
<1>2. (CallsRight /\ WorldRight /\ WorkRight)'
  BY <1>1, HostStep, WorkStep DEF SideRight
<1>3. CheckAndStream'
  BY <1>1, CheckStep, CheckConstants DEF SideRight
<1>4. DirectoriesRight'
  BY <1>1, ResolverStep, CacheConstants DEF SideRight
<1> QED BY <1>2, <1>3, <1>4 DEF SideRight

\* The invariant of the host's side, for any constants.
THEOREM SideInvariant == SideSpec => []SideRight
<1>1. SideInit => SideRight
  BY SideStarts
<1>2. SideRight /\ [SideNext]_SideVars => SideRight'
  BY SideStep
<1> QED BY <1>1, <1>2, PTL DEF SideSpec, SideNext, SideVars

\* For any jobs and limits, a call that is not cut short returns what its check
\* found, as long as the lines that decide are among the last ones printed: the
\* mismatch of any scope, the proof of all of them, a crash for a process that
\* died half way or ran in the other mode (CheckRunner.run, classify_verdict).
THEOREM VerdictsReturned == SideSpec => []ResultIsTheVerdict
<1>1. SideRight => ResultIsTheVerdict
  <2> SUFFICES ASSUME CheckRight PROVE Check!ResultIsTheVerdict /\ Check!AnswerIsTheLog
    BY DEF SideRight, CheckAndStream, ResultIsTheVerdict
  <2>1. Check!AnswerIsTheLog
    BY DEF CheckRight, Check!AnswerIsTheLog
  <2>2. Check!ResultIsTheVerdict
    BY <2>1, OutcomeIsMeaning, CheckConstants
    DEF CheckRight, Check!AnswerIsTheLog, Check!ResultIsTheVerdict
  <2> QED BY <2>1, <2>2
<1> QED BY <1>1, SideInvariant, PTL

\* However a call ends, its process has ended or been killed (CheckRunner.run).
THEOREM NoneOutlives == SideSpec => []NoProcessOutlivesTheCall
<1>1. SideRight => NoProcessOutlivesTheCall
  BY DEF SideRight, CheckAndStream, CheckRight, NoProcessOutlivesTheCall,
     Check!NoProcessOutlivesTheCall, Check!Over
<1> QED BY <1>1, SideInvariant, PTL

\* For any number of resolvers, calls, releases and crashes: a resolved checker is
\* verified, an installed one is enough, and no call stumbles over what a dead one
\* left (BinaryResolver.resolve).
THEOREM ReleasesVerified == SideSpec => []ResolvedIsVerified
<1>1. SideRight => ResolvedIsVerified
  BY DirectoriesAreVerified DEF SideRight, ResolvedIsVerified
<1> QED BY <1>1, SideInvariant, PTL

\* The answers a worker is handed and the host's state, on the host's side as a
\* whole.
THEOREM SideOfTheCalls == SideSpec => [](AnswersAreCurrent /\ HostStateRestored)
<1>1. SideRight => AnswersAreCurrent
  BY AnswersOfCaches DEF SideRight
<1>2. SideRight => HostStateRestored
  BY RestoredByGuards DEF SideRight
<1> QED BY <1>1, <1>2, SideInvariant, PTL
=============================================================================
