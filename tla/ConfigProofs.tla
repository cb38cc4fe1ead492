----------------------------- MODULE ConfigProofs -----------------------------
(***************************************************************************)
(* Proofs about Config, in three parts.                                    *)
(*                                                                         *)
(* Sound: the variables keep their types, nothing is known of plugins that *)
(* are not loaded, and the steps of a save that are still to be made are a *)
(* series, in which every file is opened once and closed behind that.      *)
(* From it follow CutCostsOne, with a count of the files that are open,    *)
(* and UnloadedKept.                                                       *)
(*                                                                         *)
(* FilesSound and Ordered: what does not exist reads like an empty file,   *)
(* and the configuration of the core is there before that of plugins.      *)
(* Written: what a save was begun for is written, or to be, unless it      *)
(* failed.  Holds: while no flag is up, the files that are not open hold   *)
(* what is in memory.  From these follows NothingForgotten.                *)
(*                                                                         *)
(* Leaves: the files hold what was in memory when the program began to     *)
(* end.  From it follows QuitSaves.                                        *)
(***************************************************************************)
EXTENDS Config, FiniteSetTheorems, SequenceTheorems, WellFoundedInduction, TLAPS

-----------------------------------------------------------------------------
(* Numbers and sequences. *)

LEMMA SmallestOf ==
  ASSUME NEW S \in SUBSET Nat, S # {}
  PROVE  \E x \in S : \A y \in S : x <= y
<1>1. IsWellFoundedOn(OpToRel(<, Nat), Nat)
  BY NatLessThanWellFounded
<1>2. PICK x \in S : \A y \in S : ~(<<y, x>> \in OpToRel(<, Nat))
  BY <1>1, WFMin
<1>3. \A y \in S : x <= y
  <2> SUFFICES ASSUME NEW y \in S PROVE x <= y
    OBVIOUS
  <2>1. ~(<<y, x>> \in OpToRel(<, Nat))
    BY <1>2
  <2>2. x \in Nat /\ y \in Nat
    OBVIOUS
  <2>3. y < x => <<y, x>> \in OpToRel(<, Nat)
    BY <2>2, Zenon DEF OpToRel
  <2>4. ~(y < x)
    BY <2>1, <2>3, Zenon
  <2> QED BY <2>2, <2>4
<1> QED BY <1>3

LEMMA MinIs ==
  ASSUME NEW S \in SUBSET Nat, NEW x \in S, \A y \in S : x <= y
  PROVE  Min(S) = x
<1>1. \A z \in S : (\A y \in S : z <= y) => z = x
  <2> SUFFICES ASSUME NEW z \in S, \A y \in S : z <= y PROVE z = x
    OBVIOUS
  <2>1. z \in Nat /\ x \in Nat /\ z <= x /\ x <= z
    OBVIOUS
  <2> QED BY <2>1
<1> QED BY <1>1, Zenon DEF Min

LEMMA ConcatFacts ==
    ASSUME NEW S, NEW s \in Seq(S), NEW t \in Seq(S)
    PROVE  /\ s \o t \in Seq(S) /\ Len(s \o t) = Len(s) + Len(t)
           /\ \A i \in 1..Len(s) : (s \o t)[i] = s[i]
           /\ \A i \in 1..Len(t) : (s \o t)[Len(s) + i] = t[i]
<1>1. /\ s \o t \in Seq(S) /\ Len(s \o t) = Len(s) + Len(t)
      /\ \A i \in 1..Len(s) + Len(t) :
           (s \o t)[i] = IF i <= Len(s) THEN s[i] ELSE t[i - Len(s)]
  BY ConcatProperties
<1>2. Len(s) \in Nat /\ Len(t) \in Nat
  OBVIOUS
<1> QED BY <1>1, <1>2

\* What holds of 0, and of a number if of the one before, holds of all.
LEMMA Upwards ==
  ASSUME NEW n \in Nat, NEW P, 0 \in P, \A i \in 1..n : i - 1 \in P => i \in P
  PROVE  \A i \in 0..n : i \in P
<1> SUFFICES ASSUME NEW i \in 0..n, i \notin P PROVE FALSE
  OBVIOUS
<1> DEFINE N == {k \in 0..n : k \notin P}
<1>1. i \in N /\ N \in SUBSET Nat
  OBVIOUS
<1> HIDE DEF N
<1>2. PICK k \in N : \A y \in N : k <= y
  BY <1>1, SmallestOf
<1>3. k \in 0..n /\ k \notin P
  BY <1>2 DEF N
<1>4. k \in 1..n /\ k - 1 \in 0..n /\ ~(k <= k - 1)
  BY <1>3
<1>5. k - 1 \notin N
  BY <1>2, <1>4
<1>6. k - 1 \in P
  BY <1>4, <1>5 DEF N
<1> QED BY <1>3, <1>4, <1>6

\* A recursive function on places, whose values are in S, exists.
Recursive(S, a, step, m) ==
  \E f \in [0..m -> S] :
    /\ f[0] = a
    /\ \A i \in 1..m : f[i] = step[<<f[i - 1], i>>]

LEMMA Recursion ==
  ASSUME NEW S, NEW a \in S, NEW step \in [S \X Nat -> S], NEW m \in Nat
  PROVE  Recursive(S, a, step, m)
<1> DEFINE Does(f, n) == /\ f \in [0..n -> S] /\ f[0] = a
                         /\ \A i \in 1..n : f[i] = step[<<f[i - 1], i>>]
           P == {n \in 0..m : \E f : Does(f, n)}
<1>1. 0 \in P
  <2>1. [i \in 0..0 |-> a] \in [0..0 -> S] /\ [i \in 0..0 |-> a][0] = a
    OBVIOUS
  <2>2. \A i \in 1..0 : FALSE
    OBVIOUS
  <2>3. \E f : Does(f, 0)
    BY <2>1, <2>2
  <2> QED BY <2>3
<1>2. ASSUME NEW n \in 1..m, n - 1 \in P PROVE n \in P
  <2>1. PICK f : Does(f, n - 1)
    BY <1>2
  <2> DEFINE g == [i \in 0..n |-> IF i = n THEN step[<<f[n - 1], n>>] ELSE f[i]]
  <2>2. /\ n - 1 \in 0..n - 1 /\ n \in Nat
        /\ \A i \in 0..n : i # n => i \in 0..n - 1
        /\ \A i \in 1..n : i - 1 \in 0..n - 1 /\ i - 1 # n /\ i \in 0..n /\ i - 1 \in 0..n
    OBVIOUS
  <2>3. f[n - 1] \in S
    BY <2>1, <2>2
  <2>4. step[<<f[n - 1], n>>] \in S
    BY <2>2, <2>3
  <2>5. \A i \in 0..n - 1 : g[i] = f[i] /\ f[i] \in S
    BY <2>1
  <2>6. g \in [0..n -> S]
    <3>1. \A i \in 0..n : g[i] \in S
      BY <2>2, <2>4, <2>5
    <3> QED BY <3>1
  <2>7. g[n] = step[<<f[n - 1], n>>]
    BY <2>2
  <2> HIDE DEF g
  <2>8. ASSUME NEW i \in 1..n PROVE g[i] = step[<<g[i - 1], i>>]
    <3>1. g[i - 1] = f[i - 1]
      BY <2>2, <2>5
    <3>2. CASE i = n
      BY <2>7, <3>1, <3>2
    <3>3. CASE i # n
      <4>1. i \in 1..n - 1 /\ i \in 0..n - 1
        BY <2>2, <3>3
      <4> QED BY <2>1, <2>5, <3>1, <4>1
    <3> QED BY <3>2, <3>3
  <2>9. g[0] = a
    <3>1. 0 \in 0..n - 1
      BY <2>2
    <3> QED BY <2>1, <2>5, <3>1
  <2>10. n \in 0..m
    OBVIOUS
  <2> QED BY <2>6, <2>8, <2>9, <2>10
<1> HIDE DEF P
<1>3. m \in P
  <2>1. \A i \in 0..m : i \in P
    BY <1>1, <1>2, Upwards
  <2> QED BY <2>1
<1> QED BY <1>3 DEF P, Recursive

LEMMA SetToSeqFacts ==
    ASSUME NEW S, IsFiniteSet(S)
    PROVE  LET z == SetToSeq(S)
           IN  /\ Cardinality(S) \in Nat /\ Len(z) = Cardinality(S) /\ z \in Seq(S)
               /\ \A i \in 1..Len(z) : z[i] \in S
               /\ \A i, j \in 1..Len(z) : z[i] = z[j] => i = j
               /\ \A x \in S : \E i \in 1..Len(z) : z[i] = x
<1>1. Cardinality(S) \in Nat /\ ExistsBijection(1..Cardinality(S), S)
  BY FS_CardinalityType
<1>2. \E f \in [1..Cardinality(S) -> S] : IsInjective(f)
  BY <1>1 DEF ExistsBijection, Bijection, Injection, IsInjective
<1>3. SetToSeq(S) \in [1..Cardinality(S) -> S] /\ IsInjective(SetToSeq(S))
  BY <1>2 DEF SetToSeq
<1>4. SetToSeq(S) \in Surjection(1..Cardinality(S), S)
  <2>1. SetToSeq(S) \in Injection(1..Cardinality(S), S)
    BY <1>3 DEF Injection, IsInjective
  <2>2. IsFiniteSet(1..Cardinality(S)) /\ Cardinality(1..Cardinality(S)) = Cardinality(S)
    BY <1>1, FS_Interval
  <2> QED BY <2>1, <2>2, FS_Injection
<1>5. \A x \in S : \E i \in 1..Cardinality(S) : SetToSeq(S)[i] = x
  BY <1>4 DEF Surjection
<1>6. \A i, j \in 1..Cardinality(S) : SetToSeq(S)[i] = SetToSeq(S)[j] => i = j
  BY <1>3 DEF IsInjective
<1>7. SetToSeq(S) \in Seq(S) /\ Len(SetToSeq(S)) = Cardinality(S)
  BY <1>1, <1>3
<1> QED BY <1>1, <1>3, <1>5, <1>6, <1>7

\* FlattenSeq() puts the sequences one behind the other.
Flattened(S, seqs, f) ==
  /\ f \in [0 .. Len(seqs) -> Seq(S)] /\ f[0] = << >>
  /\ \A i \in 1 .. Len(seqs) : f[i] = f[i - 1] \o seqs[i]
  /\ FlattenSeq(seqs) = f[Len(seqs)]

LEMMA FlattenFacts ==
  ASSUME NEW S, NEW seqs \in Seq(Seq(S))
  PROVE  \E f : Flattened(S, seqs, f)
<1> DEFINE n == Len(seqs)
           step == [x \in Seq(S) \X Nat |-> IF x[2] \in 1..n THEN x[1] \o seqs[x[2]] ELSE << >>]
<1>1. n \in Nat /\ \A i \in 1..n : seqs[i] \in Seq(S)
  BY ElementOfSeq
<1>2. << >> \in Seq(S)
  OBVIOUS
<1>3. step \in [Seq(S) \X Nat -> Seq(S)]
  <2>1. ASSUME NEW a \in Seq(S), NEW i \in 1..n PROVE a \o seqs[i] \in Seq(S)
    BY <1>1, ConcatProperties
  <2>2. \A x \in Seq(S) \X Nat : step[x] \in Seq(S)
    BY <1>2, <2>1
  <2> QED BY <2>2
<1>4. ASSUME NEW a \in Seq(S), NEW i \in 1..n PROVE step[<<a, i>>] = a \o seqs[i]
  <2>1. <<a, i>> \in Seq(S) \X Nat /\ <<a, i>>[1] = a /\ <<a, i>>[2] = i
    OBVIOUS
  <2> QED BY <2>1
<1> HIDE DEF step, n
<1>5. PICK f \in [0..n -> Seq(S)] : f[0] = << >> /\ \A i \in 1..n : f[i] = step[<<f[i - 1], i>>]
  <2>1. Recursive(Seq(S), << >>, step, n)
    BY <1>1, <1>2, <1>3, Recursion
  <2> QED BY <2>1 DEF Recursive
<1>6. ASSUME NEW i \in 1..n
      PROVE  i - 1 \in 0..n /\ i \in 0..n /\ f[i - 1] \in Seq(S) /\ f[i] = f[i - 1] \o seqs[i]
  <2>1. i - 1 \in 0..n /\ i \in 0..n
    BY <1>1
  <2>2. f[i - 1] \in Seq(S)
    BY <2>1
  <2>3. f[i] = step[<<f[i - 1], i>>]
    BY <1>5
  <2> QED BY <1>4, <2>1, <2>2, <2>3
<1>7. FlattenSeq(seqs) = f[n]
  <2>1. CASE n = 0
    <3>1. seqs = << >>
      BY <2>1, EmptySeq DEF n
    <3> QED BY <1>5, <2>1, <3>1 DEF FlattenSeq, n
  <2>2. CASE n # 0
    <3> DEFINE flatten[i \in 1..Len(seqs)] == IF i = 1 THEN seqs[i] ELSE flatten[i - 1] \o seqs[i]
               g == [i \in 1..n |-> f[i]]
    <3>1. FlattenSeq(seqs) = flatten[n]
      BY <2>2 DEF FlattenSeq, n
    <3>2. f[1] = seqs[1]
      <4>1. 1 \in 1..n /\ 1 - 1 = 0
        BY <1>1, <2>2
      <4>2. f[1] = f[0] \o seqs[1] /\ seqs[1] \in Seq(S)
        BY <1>1, <1>6, <4>1
      <4> QED BY <1>5, <4>2, ConcatEmptySeq
    <3>3. g = [i \in 1..n |-> IF i = 1 THEN seqs[i] ELSE g[i - 1] \o seqs[i]]
      <4>1. ASSUME NEW i \in 1..n PROVE g[i] = IF i = 1 THEN seqs[i] ELSE g[i - 1] \o seqs[i]
        <5>1. i # 1 => i - 1 \in 1..n
          BY <1>1
        <5> QED BY <1>6, <3>2, <5>1
      <4> QED BY <4>1
    <3>4. flatten = [i \in 1..n |-> IF i = 1 THEN seqs[i] ELSE flatten[i - 1] \o seqs[i]]
      BY <3>3, Zenon DEF n
    <3> HIDE DEF flatten
    <3> DEFINE P == {i \in 0..n : i = 0 \/ flatten[i] = f[i]}
    <3>5. ASSUME NEW i \in 1..n, i - 1 \in P PROVE i \in P
      <4>1. i = 1 \/ (i - 1 # 0 /\ i - 1 \in 1..n)
        BY <1>1
      <4>2. flatten[i] = IF i = 1 THEN seqs[i] ELSE flatten[i - 1] \o seqs[i]
        BY <3>4
      <4> QED BY <1>6, <3>2, <3>5, <4>1, <4>2
    <3>6. 0 \in P
      BY <1>1
    <3> HIDE DEF P
    <3>7. n \in P
      <4>1. \A i \in 0..n : i \in P
        BY <1>1, <3>5, <3>6, Upwards
      <4> QED BY <1>1, <4>1
    <3> QED BY <2>2, <3>1, <3>7 DEF P
  <2> QED BY <2>1, <2>2
<1> QED BY <1>5, <1>6, <1>7 DEF Flattened, n

-----------------------------------------------------------------------------
(* Files. *)

Bits  == {0, 1}
Marks == {Absent, 0, 1}

MemT ==
  [plugins : SUBSET Plugins, lists : Bits, set : Bits, layout : Bits, windows : Bits,
   var : [Plugins -> Bits], session : [Sessions -> Marks], roster : [Sessions -> Bits], meta : Bits]

\* What may be read from file f.
Lines(f) ==
  CASE f = PluginsFile   -> SUBSET Plugins
    [] f = ConfigFile    -> [lists : Bits, set : Marks, layout : Marks]
    [] f = Metacontacts  -> Bits
    [] f = ScriptsVar    -> {0}
    [] f[1] = "config" /\ f # ConfigFile -> Marks
    [] f[1] = "sessions" -> [Of(f[2]) -> Marks]
    [] f[1] = "userlist" -> Bits

DiskT == {d \in [Files -> UNION {Lines(f) : f \in Files}] : \A f \in Files : d[f] \in Lines(f)}

Rosters == {Userlist(s) : s \in Sessions}

LEMMA ConstantFacts ==
  /\ UI \subseteq Plugins /\ Protocols \subseteq Plugins /\ UI \cap Protocols = {}
  /\ DefaultUI \in UI /\ DefaultProtocols \subseteq Protocols
  /\ \A s \in Sessions : Owner[s] \in Protocols
  /\ "core" \notin Plugins /\ IsFiniteSet(Sessions)
  /\ Frontends \subseteq SUBSET UI
<1>1. \A s \in Sessions : Owner[s] \in Protocols
  BY ConfigAssumption DEF Sessions
<1> QED BY <1>1, ConfigAssumption

LEMMA KindFacts ==
  /\ PluginsFile[1] = "plugins" /\ ConfigFile[1] = "config"
  /\ Metacontacts[1] = "metacontacts" /\ ScriptsVar[1] = "scripts-var"
  /\ \A p : ConfigOf(p)[1] = "config" /\ ConfigOf(p)[2] = p
  /\ \A p : SessionsOf(p)[1] = "sessions" /\ SessionsOf(p)[2] = p
  /\ \A s : Userlist(s)[1] = "userlist" /\ Userlist(s)[2] = s
  /\ \A p \in Plugins : ConfigOf(p) # ConfigFile
<1>1. ConfigFile[2] = "core"
  BY DEF ConfigFile
<1>2. /\ \A p : ConfigOf(p)[1] = "config" /\ ConfigOf(p)[2] = p
      /\ \A p : SessionsOf(p)[1] = "sessions" /\ SessionsOf(p)[2] = p
      /\ \A s : Userlist(s)[1] = "userlist" /\ Userlist(s)[2] = s
  BY DEF ConfigOf, SessionsOf, Userlist
<1>3. /\ PluginsFile[1] = "plugins" /\ ConfigFile[1] = "config"
      /\ Metacontacts[1] = "metacontacts" /\ ScriptsVar[1] = "scripts-var"
  BY DEF PluginsFile, ConfigFile, Metacontacts, ScriptsVar
<1>4. \A p \in Plugins : p # "core"
  BY ConstantFacts
<1> QED BY <1>1, <1>2, <1>3, <1>4

\* A file is of one of these kinds.
IsFile(f) ==
  \/ f \in {PluginsFile, ConfigFile, Metacontacts, ScriptsVar}
  \/ \E p \in Plugins : f = ConfigOf(p)
  \/ \E p \in Protocols : f = SessionsOf(p)
  \/ \E s \in Sessions : f = Userlist(s)

LEMMA FileFacts ==
  /\ {PluginsFile, ConfigFile, Metacontacts, ScriptsVar} \subseteq Files
  /\ \A p \in Plugins : ConfigOf(p) \in Files
  /\ \A p \in Protocols : SessionsOf(p) \in Files
  /\ \A s \in Sessions : Userlist(s) \in Files
  /\ \A f \in Files : IsFile(f)
BY DEF Files, IsFile

LEMMA RosterFacts ==
  /\ Rosters \subseteq Files /\ \A f \in Rosters : f[1] = "userlist"
  /\ \A f \in Files : f[1] = "userlist" => f \in Rosters
<1>1. Rosters \subseteq Files /\ \A f \in Rosters : f[1] = "userlist"
  BY FileFacts, KindFacts DEF Rosters
<1>2. ASSUME NEW f \in Files, f[1] = "userlist" PROVE f \in Rosters
  <2>1. IsFile(f)
    BY FileFacts
  <2> QED BY <1>2, <2>1, KindFacts DEF IsFile, Rosters
<1> QED BY <1>1, <1>2

LEMMA ContentFacts ==
  ASSUME NEW m
  PROVE  /\ Content(m, PluginsFile) = m.plugins
         /\ Content(m, ConfigFile) = [lists |-> m.lists, set |-> m.set, layout |-> m.layout]
         /\ Content(m, Metacontacts) = m.meta /\ Content(m, ScriptsVar) = 0
         /\ \A p \in Plugins : Content(m, ConfigOf(p)) = m.var[p]
         /\ \A p \in Protocols : Content(m, SessionsOf(p)) = [s \in Of(p) |-> m.session[s]]
         /\ \A s \in Sessions : Content(m, Userlist(s)) = m.roster[s]
<1>1. /\ Content(m, PluginsFile) = m.plugins
      /\ Content(m, ConfigFile) = [lists |-> m.lists, set |-> m.set, layout |-> m.layout]
      /\ Content(m, Metacontacts) = m.meta /\ Content(m, ScriptsVar) = 0
  BY KindFacts, Zenon DEF Content
<1>2. ASSUME NEW p \in Plugins PROVE Content(m, ConfigOf(p)) = m.var[p]
  BY KindFacts, Zenon DEF Content
<1>3. ASSUME NEW p \in Protocols
      PROVE  Content(m, SessionsOf(p)) = [s \in Of(p) |-> m.session[s]]
  BY KindFacts, Zenon DEF Content
<1>4. ASSUME NEW s \in Sessions PROVE Content(m, Userlist(s)) = m.roster[s]
  BY KindFacts, Zenon DEF Content
<1> QED BY <1>1, <1>2, <1>3, <1>4

LEMMA LinesFacts ==
  /\ Lines(PluginsFile) = SUBSET Plugins
  /\ Lines(ConfigFile) = [lists : Bits, set : Marks, layout : Marks]
  /\ Lines(Metacontacts) = Bits /\ Lines(ScriptsVar) = {0}
  /\ \A p \in Plugins : Lines(ConfigOf(p)) = Marks
  /\ \A p \in Protocols : Lines(SessionsOf(p)) = [Of(p) -> Marks]
  /\ \A s \in Sessions : Lines(Userlist(s)) = Bits
<1>1. /\ Lines(PluginsFile) = SUBSET Plugins
      /\ Lines(ConfigFile) = [lists : Bits, set : Marks, layout : Marks]
      /\ Lines(Metacontacts) = Bits /\ Lines(ScriptsVar) = {0}
  BY KindFacts, Zenon DEF Lines
<1>2. ASSUME NEW p \in Plugins PROVE Lines(ConfigOf(p)) = Marks
  BY KindFacts, Zenon DEF Lines
<1>3. ASSUME NEW p \in Protocols PROVE Lines(SessionsOf(p)) = [Of(p) -> Marks]
  BY KindFacts, Zenon DEF Lines
<1>4. ASSUME NEW s \in Sessions PROVE Lines(Userlist(s)) = Bits
  BY KindFacts, Zenon DEF Lines
<1> QED BY <1>1, <1>2, <1>3, <1>4

LEMMA MemFacts ==
  ASSUME NEW m \in MemT
  PROVE  /\ m.plugins \subseteq Plugins /\ m.lists \in Bits /\ m.set \in Bits /\ m.layout \in Bits
         /\ m.windows \in Bits /\ m.var \in [Plugins -> Bits] /\ m.session \in [Sessions -> Marks]
         /\ m.roster \in [Sessions -> Bits] /\ m.meta \in Bits
BY DEF MemT

LEMMA ContentTyped ==
  ASSUME NEW m \in MemT, NEW f \in Files
  PROVE  Content(m, f) \in Lines(f)
<1> Bits \subseteq Marks /\ 0 \in {0} /\ 0 \in Bits
  BY DEF Bits, Marks
<1>1. IsFile(f)
  BY FileFacts
<1>2. CASE f \in {PluginsFile, ConfigFile, Metacontacts, ScriptsVar}
  <2>1. [lists |-> m.lists, set |-> m.set, layout |-> m.layout] \in [lists : Bits, set : Marks, layout : Marks]
    BY MemFacts
  <2>2. CASE f = ConfigFile
    BY <2>1, <2>2, ContentFacts, LinesFacts
  <2>3. CASE f = PluginsFile
    BY <2>3, ContentFacts, LinesFacts, MemFacts
  <2>4. CASE f = Metacontacts
    BY <2>4, ContentFacts, LinesFacts, MemFacts
  <2>5. CASE f = ScriptsVar
    BY <2>5, ContentFacts, LinesFacts
  <2> QED BY <1>2, <2>2, <2>3, <2>4, <2>5
<1>3. CASE \E p \in Plugins : f = ConfigOf(p)
  <2>1. PICK p \in Plugins : f = ConfigOf(p)
    BY <1>3
  <2>2. Content(m, f) = m.var[p] /\ Lines(f) = Marks
    BY <2>1, ContentFacts, LinesFacts
  <2>3. m.var[p] \in Bits
    BY MemFacts
  <2> QED BY <2>2, <2>3
<1>4. CASE \E p \in Protocols : f = SessionsOf(p)
  <2>1. PICK p \in Protocols : f = SessionsOf(p)
    BY <1>4
  <2>2. Content(m, f) = [s \in Of(p) |-> m.session[s]] /\ Lines(f) = [Of(p) -> Marks]
    BY <2>1, ContentFacts, LinesFacts
  <2>3. \A s \in Of(p) : m.session[s] \in Marks
    BY MemFacts DEF Of
  <2>4. [s \in Of(p) |-> m.session[s]] \in [Of(p) -> Marks]
    BY <2>3
  <2> QED BY <2>2, <2>4
<1>5. CASE \E s \in Sessions : f = Userlist(s)
  BY <1>5, ContentFacts, LinesFacts, MemFacts
<1> QED BY <1>1, <1>2, <1>3, <1>4, <1>5 DEF IsFile

LEMMA NothingFacts ==
  /\ Nothing \in MemT /\ Nothing.plugins = {} /\ Nothing.lists = 0 /\ Nothing.set = 0
  /\ Nothing.layout = 0 /\ Nothing.windows = 0 /\ Nothing.meta = 0
  /\ Nothing.var = [p \in Plugins |-> 0] /\ Nothing.session = [s \in Sessions |-> Absent]
  /\ Nothing.roster = [s \in Sessions |-> 0]
BY DEF Nothing, MemT, Bits, Marks

LEMMA EmptyFacts ==
  /\ Empty(PluginsFile) = {}
  /\ Empty(ConfigFile) = [lists |-> 0, set |-> Absent, layout |-> Absent]
  /\ Empty(Metacontacts) = 0 /\ Empty(ScriptsVar) = 0
  /\ \A p \in Plugins : Empty(ConfigOf(p)) = Absent
  /\ \A p \in Protocols : Empty(SessionsOf(p)) = [s \in Of(p) |-> Absent]
  /\ \A s \in Sessions : Empty(Userlist(s)) = 0
<1>1. /\ Empty(PluginsFile) = Content(Nothing, PluginsFile)
      /\ Empty(ConfigFile) = [lists |-> 0, set |-> Absent, layout |-> Absent]
      /\ Empty(Metacontacts) = Content(Nothing, Metacontacts)
      /\ Empty(ScriptsVar) = Content(Nothing, ScriptsVar)
  BY KindFacts, Zenon DEF Empty
<1>2. ASSUME NEW p \in Plugins PROVE Empty(ConfigOf(p)) = Absent
  BY KindFacts, Zenon DEF Empty
<1>3. ASSUME NEW p \in Protocols PROVE Empty(SessionsOf(p)) = [s \in Of(p) |-> Absent]
  <2>1. Empty(SessionsOf(p)) = Content(Nothing, SessionsOf(p))
    BY KindFacts, Zenon DEF Empty
  <2>2. Of(p) \subseteq Sessions
    BY DEF Of
  <2>3. Empty(SessionsOf(p)) = [s \in Of(p) |-> Nothing.session[s]]
    BY <2>1, ContentFacts
  <2>4. \A s \in Of(p) : Nothing.session[s] = Absent
    BY <2>2, NothingFacts
  <2> QED BY <2>3, <2>4
<1>4. ASSUME NEW s \in Sessions PROVE Empty(Userlist(s)) = 0
  <2>1. Empty(Userlist(s)) = Content(Nothing, Userlist(s))
    BY KindFacts, Zenon DEF Empty
  <2> QED BY <2>1, ContentFacts, NothingFacts
<1> QED BY <1>1, <1>2, <1>3, <1>4, ContentFacts, NothingFacts

LEMMA EmptyTyped ==
  ASSUME NEW f \in Files
  PROVE  Empty(f) \in Lines(f)
<1> Absent \in Marks /\ 0 \in {0} /\ 0 \in Bits
  BY DEF Bits, Marks
<1>1. IsFile(f)
  BY FileFacts
<1>2. CASE f \in {PluginsFile, ConfigFile, Metacontacts, ScriptsVar}
  <2>1. [lists |-> 0, set |-> Absent, layout |-> Absent] \in [lists : Bits, set : Marks, layout : Marks]
    OBVIOUS
  <2>2. CASE f = ConfigFile
    BY <2>1, <2>2, EmptyFacts, LinesFacts
  <2>3. CASE f = PluginsFile
    BY <2>3, EmptyFacts, LinesFacts
  <2>4. CASE f = Metacontacts
    BY <2>4, EmptyFacts, LinesFacts
  <2>5. CASE f = ScriptsVar
    BY <2>5, EmptyFacts, LinesFacts
  <2> QED BY <1>2, <2>2, <2>3, <2>4, <2>5
<1>3. CASE \E p \in Plugins : f = ConfigOf(p)
  BY <1>3, EmptyFacts, LinesFacts
<1>4. CASE \E p \in Protocols : f = SessionsOf(p)
  <2>1. PICK p \in Protocols : f = SessionsOf(p)
    BY <1>4
  <2>2. Empty(f) = [s \in Of(p) |-> Absent] /\ Lines(f) = [Of(p) -> Marks]
    BY <2>1, EmptyFacts, LinesFacts
  <2> QED BY <2>2
<1>5. CASE \E s \in Sessions : f = Userlist(s)
  BY <1>5, EmptyFacts, LinesFacts
<1> QED BY <1>1, <1>2, <1>3, <1>4, <1>5 DEF IsFile

LEMMA DiskFacts ==
  ASSUME NEW d \in DiskT
  PROVE  /\ d[PluginsFile] \subseteq Plugins
         /\ d[ConfigFile].lists \in Bits /\ d[ConfigFile].set \in Marks /\ d[ConfigFile].layout \in Marks
         /\ d[Metacontacts] \in Bits
         /\ \A p \in Plugins : d[ConfigOf(p)] \in Marks
         /\ \A p \in Protocols : d[SessionsOf(p)] \in [Of(p) -> Marks]
         /\ \A s \in Sessions : d[Userlist(s)] \in Bits
         /\ DOMAIN d = Files
<1>1. DOMAIN d = Files /\ \A f \in Files : d[f] \in Lines(f)
  BY DEF DiskT
<1>2. d[ConfigFile] \in [lists : Bits, set : Marks, layout : Marks]
  BY <1>1, FileFacts, LinesFacts
<1>3. d[ConfigFile].lists \in Bits /\ d[ConfigFile].set \in Marks /\ d[ConfigFile].layout \in Marks
  BY <1>2
<1> QED BY <1>1, <1>3, FileFacts, LinesFacts

LEMMA DiskIs ==
  ASSUME NEW d, d = [f \in Files |-> d[f]], \A f \in Files : d[f] \in Lines(f)
  PROVE  d \in DiskT
BY DEF DiskT

Put(d, f, v) == [d EXCEPT ![f] = v]

LEMMA DiskExcept ==
  ASSUME NEW d \in DiskT, NEW f \in Files, NEW v \in Lines(f)
  PROVE  /\ Put(d, f, v) \in DiskT
         /\ Put(d, f, v)[f] = v
         /\ \A g \in Files : g # f => Put(d, f, v)[g] = d[g]
<1>1. d = [g \in Files |-> d[g]] /\ \A g \in Files : d[g] \in Lines(g)
  BY DEF DiskT
<1>2. PICK e : e = Put(d, f, v)
  OBVIOUS
<1>3. e = [g \in Files |-> e[g]] /\ \A g \in Files : e[g] = IF g = f THEN v ELSE d[g]
  BY <1>1, <1>2 DEF Put
<1>4. \A g \in Files : e[g] \in Lines(g)
  BY <1>1, <1>3
<1>5. e \in DiskT
  BY <1>3, <1>4, DiskIs
<1> QED BY <1>2, <1>3, <1>5

\* Files fs are written with what is in m.
LEMMA WrittenFacts ==
  ASSUME NEW d \in DiskT, NEW m \in MemT, NEW fs, NEW e,
         e = [f \in Files |-> IF f \in fs THEN Content(m, f) ELSE d[f]]
  PROVE  /\ e \in DiskT
         /\ \A f \in Files : e[f] = IF f \in fs THEN Content(m, f) ELSE d[f]
<1>1. \A f \in Files : e[f] = IF f \in fs THEN Content(m, f) ELSE d[f]
  OBVIOUS
<1>2. \A f \in Files : d[f] \in Lines(f)
  BY DEF DiskT
<1>3. \A f \in Files : e[f] \in Lines(f)
  BY <1>1, <1>2, ContentTyped
<1>4. e = [f \in Files |-> e[f]]
  BY <1>1
<1> QED BY <1>1, <1>3, <1>4, DiskIs

-----------------------------------------------------------------------------
(* Series of steps. *)

StepT == {Open(f) : f \in Files} \cup {Close(f) : f \in Files}
RosterSteps == {Open(f) : f \in Rosters} \cup {Close(f) : f \in Rosters}

Opening(t) == {f \in Files : \E i \in 1..Len(t) : t[i] = Open(f)}
Closing(t) == {f \in Files : \E i \in 1..Len(t) : t[i] = Close(f)}

\* The files that are open before the steps t.
Opened(t) == Closing(t) \ Opening(t)

\* While f is open, nothing is done between places a and b but to write rosters, if f is that of
\* sessions.
Within(t, f, a, b) == \A k \in a..b : f[1] = "sessions" /\ t[k] \in RosterSteps

\* Steps that may be still to be made: each once, a file is closed behind where it is opened.
Series(t) ==
  /\ t \in Seq(StepT)
  /\ \A i, j \in 1..Len(t) : t[i] = t[j] => i = j
  /\ \A i \in 1..Len(t), f \in Files : t[i] = Open(f) =>
       \E j \in i + 1 .. Len(t) : t[j] = Close(f) /\ Within(t, f, i + 1, j - 1)
  /\ \A j \in 1..Len(t), f \in Files : t[j] = Close(f) /\ f \notin Opening(t) => Within(t, f, 1, j - 1)

LEMMA StepFacts ==
  /\ \A f, g : Open(f) # Close(g)
  /\ \A f, g : Open(f) = Open(g) => f = g
  /\ \A f, g : Close(f) = Close(g) => f = g
  /\ \A f \in Files : Open(f) \in StepT /\ Close(f) \in StepT
  /\ \A x \in StepT : \E f \in Files : x = Open(f) \/ x = Close(f)
  /\ \A f : Open(f) \in RosterSteps \/ Close(f) \in RosterSteps => f[1] = "userlist"
<1>1. \A f : Open(f)[1] = "open" /\ Open(f)[2] = f /\ Close(f)[1] = "close" /\ Close(f)[2] = f
  BY DEF Open, Close
<1>2. \A f, g : /\ Open(f) # Close(g)
                /\ Open(f) = Open(g) => f = g
                /\ Close(f) = Close(g) => f = g
  BY <1>1
<1>3. /\ \A f \in Files : Open(f) \in StepT /\ Close(f) \in StepT
      /\ \A x \in StepT : \E f \in Files : x = Open(f) \/ x = Close(f)
  BY DEF StepT
<1>4. \A f : Open(f) \in RosterSteps \/ Close(f) \in RosterSteps => f[1] = "userlist"
  BY <1>2, RosterFacts DEF RosterSteps
<1> QED BY <1>2, <1>3, <1>4

LEMMA SeriesFacts ==
  ASSUME NEW t, Series(t)
  PROVE  /\ t \in Seq(StepT) /\ Len(t) \in Nat
         /\ \A i, j \in 1..Len(t) : t[i] = t[j] => i = j
         /\ \A i \in 1..Len(t) : \E f \in Files : t[i] = Open(f) \/ t[i] = Close(f)
<1>1. t \in Seq(StepT) /\ Len(t) \in Nat
  BY LenProperties DEF Series
<1>2. \A i \in 1..Len(t) : t[i] \in StepT
  BY <1>1
<1> QED BY <1>1, <1>2, StepFacts DEF Series

\* What is left of a series is one.
LEMMA SuffixSeries ==
  ASSUME NEW t, Series(t), NEW n \in Nat, NEW r \in Seq(StepT), n + Len(r) = Len(t),
         \A k \in 1..Len(r) : r[k] = t[n + k]
  PROVE  Series(r)
<1>1. /\ Len(t) \in Nat /\ Len(r) \in Nat
      /\ \A k \in 1..Len(r) : n + k \in 1..Len(t) /\ n + k \in n + 1 .. Len(t)
      /\ \A k \in n + 1 .. Len(t) : k - n \in 1..Len(r) /\ n + (k - n) = k
  <2>1. Len(t) \in Nat /\ Len(r) \in Nat
    BY SeriesFacts, LenProperties
  <2> QED BY <2>1
<1>2. \A i, j \in 1..Len(r) : r[i] = r[j] => i = j
  <2> SUFFICES ASSUME NEW i \in 1..Len(r), NEW j \in 1..Len(r), r[i] = r[j] PROVE i = j
    OBVIOUS
  <2>1. n + i \in 1..Len(t) /\ n + j \in 1..Len(t) /\ t[n + i] = t[n + j]
    BY <1>1
  <2>2. n + i = n + j
    BY <2>1, SeriesFacts
  <2> QED BY <2>2
<1>3. ASSUME NEW i \in 1..Len(r), NEW f \in Files, r[i] = Open(f)
      PROVE  \E j \in i + 1 .. Len(r) : r[j] = Close(f) /\ Within(r, f, i + 1, j - 1)
  <2>1. t[n + i] = Open(f) /\ n + i \in 1..Len(t)
    BY <1>1, <1>3
  <2>2. PICK j \in n + i + 1 .. Len(t) : t[j] = Close(f) /\ Within(t, f, n + i + 1, j - 1)
    BY <2>1 DEF Series
  <2>3. j - n \in i + 1 .. Len(r) /\ j - n \in 1..Len(r) /\ n + (j - n) = j
    BY <1>1
  <2>4. r[j - n] = Close(f)
    BY <2>2, <2>3
  <2>5. ASSUME NEW k \in i + 1 .. (j - n) - 1 PROVE f[1] = "sessions" /\ r[k] \in RosterSteps
    <3>1. n + k \in n + i + 1 .. j - 1 /\ k \in 1..Len(r)
      BY <1>1, <2>3
    <3> QED BY <2>2, <3>1 DEF Within
  <2> QED BY <2>3, <2>4, <2>5 DEF Within
<1>4. ASSUME NEW j \in 1..Len(r), NEW f \in Files, r[j] = Close(f), f \notin Opening(r)
      PROVE  Within(r, f, 1, j - 1)
  <2>1. t[n + j] = Close(f) /\ n + j \in 1..Len(t)
    BY <1>1, <1>4
  <2> SUFFICES ASSUME NEW k \in 1 .. j - 1 PROVE f[1] = "sessions" /\ r[k] \in RosterSteps
    BY DEF Within
  <2>2. k \in 1..Len(r) /\ n + k \in 1 .. (n + j) - 1 /\ r[k] = t[n + k]
    BY <1>1
  <2>3. CASE f \notin Opening(t)
    <3>1. Within(t, f, 1, (n + j) - 1)
      BY <2>1, <2>3 DEF Series
    <3> QED BY <2>2, <3>1 DEF Within
  <2>4. CASE f \in Opening(t)
    <3>1. PICK i \in 1..Len(t) : t[i] = Open(f)
      BY <2>4 DEF Opening
    <3>2. i <= n
      <4>1. CASE ~(i <= n)
        <5>1. i - n \in 1..Len(r) /\ n + (i - n) = i
          BY <1>1, <4>1
        <5>2. r[i - n] = Open(f)
          BY <3>1, <5>1
        <5> QED BY <1>4, <5>1, <5>2 DEF Opening
      <4> QED BY <4>1
    <3>3. PICK l \in i + 1 .. Len(t) : t[l] = Close(f) /\ Within(t, f, i + 1, l - 1)
      BY <3>1 DEF Series
    <3>4. l = n + j
      BY <1>1, <2>1, <3>3, SeriesFacts
    <3>5. n + k \in i + 1 .. l - 1
      BY <2>2, <3>2, <3>4
    <3> QED BY <2>2, <3>3, <3>5 DEF Within
  <2> QED BY <2>3, <2>4
<1> QED BY <1>2, <1>3, <1>4 DEF Series

LEMMA TailSeries ==
  ASSUME NEW t, Series(t), t # << >>
  PROVE  /\ Series(Tail(t)) /\ Len(Tail(t)) = Len(t) - 1 /\ 1 \in 1..Len(t) /\ Head(t) = t[1]
         /\ Len(Tail(t)) \in Nat /\ Tail(t) \in Seq(StepT)
         /\ \A i \in 1..Len(Tail(t)) : Tail(t)[i] = t[1 + i] /\ 1 + i \in 1..Len(t)
         /\ \A f \in Files : Head(t) = Open(f) =>
              /\ Closing(Tail(t)) = Closing(t) /\ f \in Closing(t)
              /\ Opening(Tail(t)) = Opening(t) \ {f} /\ f \in Opening(t)
         /\ \A f \in Files : Head(t) = Close(f) =>
              /\ Closing(Tail(t)) = Closing(t) \ {f} /\ f \in Closing(t)
              /\ Opening(Tail(t)) = Opening(t) /\ f \notin Opening(t)
<1>1. t \in Seq(StepT) /\ Len(t) \in Nat /\ Len(t) # 0
  BY SeriesFacts, EmptySeq
<1>2. PICK r : r = Tail(t)
  OBVIOUS
<1>3. /\ r \in Seq(StepT) /\ Len(r) = Len(t) - 1 /\ \A i \in 1..Len(r) : r[i] = t[i + 1]
      /\ Head(t) = t[1]
  BY <1>1, <1>2, HeadTailProperties
<1>4. /\ 1 \in 1..Len(t) /\ Len(r) \in Nat /\ 1 + Len(r) = Len(t)
      /\ \A i \in 1..Len(r) : 1 + i = i + 1 /\ 1 + i \in 1..Len(t)
      /\ \A i \in 1..Len(t) : i # 1 => i - 1 \in 1..Len(r) /\ 1 + (i - 1) = i
  BY <1>1, <1>3
<1>5. \A i \in 1..Len(r) : r[i] = t[1 + i]
  BY <1>3, <1>4
<1>6. Series(r)
  BY <1>3, <1>4, <1>5, SuffixSeries
<1>7. /\ \A g \in Files : g \in Closing(t) <=> (t[1] = Close(g) \/ g \in Closing(r))
      /\ \A g \in Files : g \in Opening(t) <=> (t[1] = Open(g) \/ g \in Opening(r))
  <2>1. ASSUME NEW x
        PROVE  (\E i \in 1..Len(t) : t[i] = x) <=> (t[1] = x \/ \E i \in 1..Len(r) : r[i] = x)
    <3>1. ASSUME NEW i \in 1..Len(t), t[i] = x PROVE t[1] = x \/ \E k \in 1..Len(r) : r[k] = x
      <4>1. i # 1 => i - 1 \in 1..Len(r) /\ r[i - 1] = t[i]
        BY <1>4, <1>5
      <4> QED BY <3>1, <4>1
    <3>2. ASSUME NEW i \in 1..Len(r), r[i] = x PROVE \E k \in 1..Len(t) : t[k] = x
      <4>1. 1 + i \in 1..Len(t) /\ r[i] = t[1 + i]
        BY <1>4, <1>5
      <4> QED BY <3>2, <4>1
    <3> QED BY <1>4, <3>1, <3>2
  <2> QED BY <2>1 DEF Closing, Opening
<1>8. ASSUME NEW g \in Files
      PROVE  /\ t[1] = Close(g) => g \notin Closing(r)
             /\ t[1] = Open(g) => g \notin Opening(r)
  <2>1. ASSUME NEW i \in 1..Len(r) PROVE r[i] # t[1]
    <3>1. 1 + i # 1 /\ 1 + i \in 1..Len(t)
      BY <1>4
    <3> QED BY <1>4, <1>5, <3>1, SeriesFacts
  <2> QED BY <2>1 DEF Closing, Opening
<1>9. ASSUME NEW f \in Files, t[1] = Open(f)
      PROVE  f \in Closing(t)
  <2>1. PICK j \in 1 + 1 .. Len(t) : t[j] = Close(f)
    BY <1>4, <1>9 DEF Series
  <2>2. j \in 1..Len(t)
    BY <1>4
  <2> QED BY <2>1, <2>2 DEF Closing
<1>10. ASSUME NEW f \in Files, t[1] = Close(f)
       PROVE  f \notin Opening(t)
  <2> SUFFICES ASSUME NEW i \in 1..Len(t), t[i] = Open(f) PROVE FALSE
    BY DEF Opening
  <2>1. PICK j \in i + 1 .. Len(t) : t[j] = Close(f)
    BY DEF Series
  <2>2. j \in 1..Len(t) /\ j # 1
    BY <1>4
  <2> QED BY <1>4, <1>10, <2>1, <2>2, SeriesFacts
<1>11. /\ Closing(t) \subseteq Files /\ Opening(t) \subseteq Files
       /\ Closing(r) \subseteq Files /\ Opening(r) \subseteq Files
  BY DEF Closing, Opening
<1>12. ASSUME NEW f \in Files, t[1] = Open(f)
       PROVE  /\ Closing(r) = Closing(t) /\ f \in Closing(t)
              /\ Opening(r) = Opening(t) \ {f} /\ f \in Opening(t)
  BY <1>7, <1>8, <1>9, <1>11, <1>12, StepFacts, SMTT(30)
<1>13. ASSUME NEW f \in Files, t[1] = Close(f)
       PROVE  /\ Closing(r) = Closing(t) \ {f} /\ f \in Closing(t)
              /\ Opening(r) = Opening(t) /\ f \notin Opening(t)
  BY <1>7, <1>8, <1>10, <1>11, <1>13, StepFacts
<1> QED BY <1>2, <1>3, <1>4, <1>5, <1>6, <1>12, <1>13

\* When a file cannot be opened, steps up to where it would be closed are left out.
LEMMA FailedSeries ==
  ASSUME NEW t, Series(t), t # << >>, NEW f \in Files, Head(t) = Open(f)
  PROVE  /\ f[1] \notin {"sessions", "userlist"} => Opened(t) = {}
         /\ f[1] \in {"sessions", "userlist"} =>
              LET j == Min({i \in 1..Len(t) : t[i] = Close(f)})
                  r == SubSeq(t, j + 1, Len(t))
              IN  /\ Series(r) /\ Opened(r) = Opened(t)
                  /\ Closing(r) \subseteq Closing(t) /\ Opening(r) \subseteq Opening(t)
<1>1. /\ t \in Seq(StepT) /\ Len(t) \in Nat /\ 1 \in 1..Len(t) /\ t[1] = Open(f)
      /\ f \in Opening(t)
  BY SeriesFacts, TailSeries
<1>2. ASSUME f[1] \notin {"sessions", "userlist"}, NEW g \in Opened(t)
      PROVE  FALSE
  <2>1. g \in Files /\ g \notin Opening(t)
    BY <1>2 DEF Opened, Closing
  <2>2. PICK k \in 1..Len(t) : t[k] = Close(g)
    BY <1>2 DEF Opened, Closing
  <2>3. 1 \in 1 .. k - 1
    BY <1>1, <2>2, StepFacts
  <2>4. Within(t, g, 1, k - 1)
    BY <2>1, <2>2 DEF Series
  <2> QED BY <1>1, <1>2, <2>3, <2>4, StepFacts DEF Within
<1>3. PICK l \in 1 + 1 .. Len(t) : t[l] = Close(f) /\ Within(t, f, 1 + 1, l - 1)
  BY <1>1 DEF Series
<1>4. Min({i \in 1..Len(t) : t[i] = Close(f)}) = l
  <2>1. l \in 1..Len(t)
    BY <1>1
  <2>2. {i \in 1..Len(t) : t[i] = Close(f)} = {l}
    BY <1>3, <2>1, SeriesFacts
  <2>3. \A y \in {l} : l <= y
    BY <1>1
  <2> QED BY <2>2, <2>3, MinIs
<1>5. PICK r : r = SubSeq(t, l + 1, Len(t))
  OBVIOUS
<1>6. /\ r \in Seq(StepT) /\ Len(r) \in Nat /\ l + Len(r) = Len(t) /\ l \in Nat
      /\ \A k \in 1..Len(r) : r[k] = t[l + k] /\ l + k \in 1..Len(t)
  <2>1. \A i \in l + 1 .. Len(t) : t[i] \in StepT
    BY <1>1
  <2>2. l + 1 \in Int /\ Len(t) \in Int /\ l \in Nat /\ l <= Len(t)
    BY <1>1
  <2>3. /\ r \in Seq(StepT)
        /\ Len(r) = IF l + 1 <= Len(t) THEN Len(t) - (l + 1) + 1 ELSE 0
        /\ \A k \in 1 .. Len(t) - (l + 1) + 1 : r[k] = t[(l + 1) + k - 1]
    BY <1>5, <2>1, <2>2, SubSeqProperties
  <2>4. Len(r) = Len(t) - l /\ Len(r) \in Nat
    BY <1>1, <2>2, <2>3
  <2>5. ASSUME NEW k \in 1..Len(r) PROVE r[k] = t[l + k] /\ l + k \in 1..Len(t)
    <3>1. k \in 1 .. Len(t) - (l + 1) + 1 /\ (l + 1) + k - 1 = l + k /\ l + k \in 1..Len(t)
      BY <1>1, <2>2, <2>4
    <3> QED BY <2>3, <3>1
  <2> QED BY <2>2, <2>3, <2>4, <2>5
<1>7. Series(r)
  BY <1>6, SuffixSeries
<1>8. Closing(r) \subseteq Closing(t) /\ Opening(r) \subseteq Opening(t)
  BY <1>6 DEF Closing, Opening
<1>9. ASSUME NEW g \in Opened(r) PROVE g \in Opened(t)
  <2>1. g \in Files /\ g \in Closing(t) /\ g \notin Opening(r)
    BY <1>8, <1>9 DEF Opened, Closing
  <2>2. PICK n \in 1..Len(r) : r[n] = Close(g)
    BY <1>9 DEF Opened, Closing
  <2> DEFINE k == l + n
  <2>3. k \in 1..Len(t) /\ t[k] = Close(g) /\ l < k
    BY <1>6, <2>2
  <2> HIDE DEF k
  <2>4. ASSUME NEW i \in 1..Len(t), t[i] = Open(g) PROVE FALSE
    <3>1. i <= l
      <4>1. CASE ~(i <= l)
        <5>1. i - l \in 1..Len(r) /\ l + (i - l) = i
          BY <1>6, <4>1
        <5>2. r[i - l] = Open(g)
          BY <1>6, <2>4, <5>1
        <5> QED BY <2>1, <5>1, <5>2 DEF Opening
      <4> QED BY <4>1
    <3>2. i # l /\ l \in 1..Len(t)
      BY <1>1, <1>3, <2>4, StepFacts
    <3>3. i # 1
      <4>1. CASE i = 1
        <5>1. g = f
          BY <1>1, <2>4, <4>1, StepFacts
        <5> QED BY <1>3, <2>3, <3>2, <5>1, SeriesFacts
      <4> QED BY <4>1
    <3>4. i \in 1 + 1 .. l - 1
      BY <1>6, <3>1, <3>2, <3>3
    <3>5. g[1] = "userlist"
      BY <1>3, <2>4, <3>4, StepFacts DEF Within
    <3>6. PICK q \in i + 1 .. Len(t) : t[q] = Close(g) /\ Within(t, g, i + 1, q - 1)
      BY <2>1, <2>4 DEF Series
    <3>7. q = k
      BY <1>1, <2>3, <3>6, SeriesFacts
    <3>8. l \in i + 1 .. q - 1
      BY <1>6, <2>3, <3>4, <3>7
    <3> QED BY <3>5, <3>6, <3>8 DEF Within
  <2> QED BY <2>1, <2>4 DEF Opened, Opening
<1>10. ASSUME NEW g \in Opened(t) PROVE g \in Opened(r)
  <2>1. g \in Files /\ g \notin Opening(t)
    BY <1>10 DEF Opened, Closing
  <2>2. PICK k \in 1..Len(t) : t[k] = Close(g)
    BY <1>10 DEF Opened, Closing
  <2>3. k # 1 /\ k # l
    BY <1>1, <1>3, <2>1, <2>2, StepFacts
  <2>4. Within(t, g, 1, k - 1)
    BY <2>1, <2>2 DEF Series
  <2>5. l < k
    <3>1. CASE ~(l < k)
      <4>1. k \in 1 + 1 .. l - 1 /\ 1 \in 1 .. k - 1
        BY <1>6, <2>3, <3>1
      <4>2. g[1] = "userlist"
        BY <1>3, <2>2, <4>1, StepFacts DEF Within
      <4> QED BY <2>4, <4>1, <4>2 DEF Within
    <3> QED BY <3>1
  <2>6. k - l \in 1..Len(r) /\ l + (k - l) = k
    BY <1>6, <2>5
  <2>7. r[k - l] = Close(g)
    BY <1>6, <2>2, <2>6
  <2> QED BY <1>8, <2>1, <2>6, <2>7 DEF Opened, Closing
<1> QED BY <1>2, <1>4, <1>5, <1>7, <1>8, <1>9, <1>10

\* A series that opens and closes the files of F.
Complete(t, F) == Series(t) /\ Opening(t) = F /\ Closing(t) = F

LEMMA NoSteps == Complete(<< >>, {})
<1>1. << >> \in Seq(StepT) /\ Len(<< >>) = 0
  BY EmptySeq
<1>2. \A i \in 1..0 : FALSE
  OBVIOUS
<1>3. Opening(<< >>) = {} /\ Closing(<< >>) = {}
  BY <1>1, <1>2 DEF Opening, Closing
<1> QED BY <1>1, <1>2, <1>3 DEF Complete, Series

LEMMA ConcatComplete ==
  ASSUME NEW a, NEW b, NEW F, NEW G, Complete(a, F), Complete(b, G), F \cap G = {}
  PROVE  Complete(a \o b, F \cup G)
<1>1. /\ a \in Seq(StepT) /\ b \in Seq(StepT) /\ Series(a) /\ Series(b)
      /\ Len(a) \in Nat /\ Len(b) \in Nat
      /\ Opening(a) = F /\ Closing(a) = F /\ Opening(b) = G /\ Closing(b) = G
  BY SeriesFacts DEF Complete
<1>2. PICK t : t = a \o b
  OBVIOUS
<1>3. /\ t \in Seq(StepT) /\ Len(t) = Len(a) + Len(b) /\ Len(t) \in Nat
      /\ \A i \in 1..Len(a) : t[i] = a[i]
      /\ \A i \in 1..Len(b) : t[Len(a) + i] = b[i]
  BY <1>1, <1>2, ConcatFacts
<1>4. /\ \A i \in 1..Len(t) : i \in 1..Len(a) \/ (i - Len(a) \in 1..Len(b) /\ Len(a) + (i - Len(a)) = i)
      /\ \A i \in 1..Len(a) : i \in 1..Len(t)
      /\ \A i \in 1..Len(b) : Len(a) + i \in 1..Len(t)
  BY <1>1, <1>3
<1>5. ASSUME NEW i \in 1..Len(t)
      PROVE  \/ i \in 1..Len(a) /\ t[i] = a[i]
             \/ i - Len(a) \in 1..Len(b) /\ t[i] = b[i - Len(a)] /\ Len(a) + (i - Len(a)) = i
  BY <1>3, <1>4
<1>6. ASSUME NEW i \in 1..Len(a), NEW k \in 1..Len(b) PROVE a[i] # b[k]
  <2> SUFFICES ASSUME a[i] = b[k] PROVE FALSE
    OBVIOUS
  <2>1. PICK f \in Files : a[i] = Open(f) \/ a[i] = Close(f)
    BY <1>1, SeriesFacts
  <2>2. f \in F
    BY <1>1, <2>1 DEF Opening, Closing
  <2>3. f \in G
    BY <1>1, <2>1 DEF Opening, Closing
  <2> QED BY <2>2, <2>3
<1>7. ASSUME NEW i \in 1..Len(t), NEW j \in 1..Len(t), t[i] = t[j] PROVE i = j
  <2>1. CASE i \in 1..Len(a) /\ j \in 1..Len(a)
    BY <1>1, <1>3, <1>7, <2>1, SeriesFacts
  <2>2. CASE i - Len(a) \in 1..Len(b) /\ j - Len(a) \in 1..Len(b)
    <3>1. b[i - Len(a)] = b[j - Len(a)]
      <4>1. Len(a) + (i - Len(a)) = i /\ Len(a) + (j - Len(a)) = j
        BY <1>1
      <4> QED BY <1>3, <1>7, <2>2, <4>1
    <3>2. i - Len(a) = j - Len(a)
      BY <1>1, <2>2, <3>1, SeriesFacts
    <3> QED BY <1>1, <3>2
  <2> QED BY <1>5, <1>6, <1>7, <2>1, <2>2
<1>8. Opening(t) = F \cup G /\ Closing(t) = F \cup G
  <2>1. ASSUME NEW x
        PROVE  (\E i \in 1..Len(t) : t[i] = x) <=> (\E i \in 1..Len(a) : a[i] = x) \/ (\E i \in 1..Len(b) : b[i] = x)
    <3>1. ASSUME NEW i \in 1..Len(a), a[i] = x PROVE \E k \in 1..Len(t) : t[k] = x
      BY <1>3, <1>4, <3>1
    <3>2. ASSUME NEW i \in 1..Len(b), b[i] = x PROVE \E k \in 1..Len(t) : t[k] = x
      <4>1. Len(a) + i \in 1..Len(t) /\ t[Len(a) + i] = x
        BY <1>3, <1>4, <3>2
      <4> QED BY <4>1
    <3>3. ASSUME NEW i \in 1..Len(t), t[i] = x
          PROVE  (\E k \in 1..Len(a) : a[k] = x) \/ (\E k \in 1..Len(b) : b[k] = x)
      BY <1>5, <3>3
    <3> QED BY <3>1, <3>2, <3>3
  <2>2. Opening(t) = Opening(a) \cup Opening(b)
    BY <2>1 DEF Opening
  <2>3. Closing(t) = Closing(a) \cup Closing(b)
    BY <2>1 DEF Closing
  <2> QED BY <1>1, <2>2, <2>3
<1>9. ASSUME NEW i \in 1..Len(t), NEW f \in Files, t[i] = Open(f)
      PROVE  \E j \in i + 1 .. Len(t) : t[j] = Close(f) /\ Within(t, f, i + 1, j - 1)
  <2>1. CASE i \in 1..Len(a) /\ t[i] = a[i]
    <3>1. PICK j \in i + 1 .. Len(a) : a[j] = Close(f) /\ Within(a, f, i + 1, j - 1)
      BY <1>1, <1>9, <2>1 DEF Series
    <3>2. j \in i + 1 .. Len(t) /\ j \in 1..Len(a) /\ \A k \in i + 1 .. j - 1 : k \in 1..Len(a)
      BY <1>1, <1>3, <2>1, <3>1
    <3>3. Within(t, f, i + 1, j - 1)
      BY <1>3, <3>1, <3>2 DEF Within
    <3> QED BY <1>3, <3>1, <3>2, <3>3
  <2>2. CASE i - Len(a) \in 1..Len(b) /\ t[i] = b[i - Len(a)] /\ Len(a) + (i - Len(a)) = i
    <3>1. PICK h \in 1..Len(b) : h = i - Len(a) /\ b[h] = Open(f) /\ Len(a) + h = i
      BY <1>9, <2>2
    <3>2. PICK j \in h + 1 .. Len(b) : b[j] = Close(f) /\ Within(b, f, h + 1, j - 1)
      BY <1>1, <3>1 DEF Series
    <3>3. /\ Len(a) + j \in i + 1 .. Len(t) /\ j \in 1..Len(b)
          /\ \A k \in i + 1 .. (Len(a) + j) - 1 :
                k - Len(a) \in 1..Len(b) /\ k - Len(a) \in h + 1 .. j - 1 /\ Len(a) + (k - Len(a)) = k
      BY <1>1, <1>3, <3>1
    <3>4. t[Len(a) + j] = Close(f)
      BY <1>3, <3>2, <3>3
    <3>5. ASSUME NEW k \in i + 1 .. (Len(a) + j) - 1 PROVE f[1] = "sessions" /\ t[k] \in RosterSteps
      <4>1. t[k] = b[k - Len(a)]
        BY <1>3, <3>3
      <4> QED BY <3>2, <3>3, <4>1 DEF Within
    <3> QED BY <3>3, <3>4, <3>5 DEF Within
  <2> QED BY <1>5, <2>1, <2>2
<1>10. ASSUME NEW j \in 1..Len(t), NEW f \in Files, t[j] = Close(f), f \notin Opening(t) PROVE FALSE
  BY <1>8, <1>10 DEF Closing
<1> QED BY <1>2, <1>3, <1>7, <1>8, <1>9, <1>10 DEF Complete, Series

LEMMA WholeComplete ==
  ASSUME NEW f \in Files
  PROVE  Complete(Whole(f), {f})
<1>1. PICK t : t = Whole(f)
  OBVIOUS
<1>2. t \in Seq(StepT) /\ Len(t) = 2 /\ t[1] = Open(f) /\ t[2] = Close(f)
  <2>1. Open(f) \in StepT /\ Close(f) \in StepT
    BY StepFacts
  <2> QED BY <1>1, <2>1 DEF Whole
<1>3. \A i \in 1..Len(t) : i = 1 \/ i = 2
  BY <1>2
<1>4. \A i, j \in 1..Len(t) : t[i] = t[j] => i = j
  BY <1>2, <1>3, StepFacts
<1>5. Opening(t) = {f} /\ Closing(t) = {f}
  <2>1. 1 \in 1..Len(t) /\ 2 \in 1..Len(t)
    BY <1>2
  <2>2. \A g \in Files : (\E i \in 1..Len(t) : t[i] = Open(g)) <=> g = f
    BY <1>2, <1>3, <2>1, StepFacts
  <2>3. \A g \in Files : (\E i \in 1..Len(t) : t[i] = Close(g)) <=> g = f
    BY <1>2, <1>3, <2>1, StepFacts
  <2> QED BY <2>2, <2>3 DEF Opening, Closing
<1>6. ASSUME NEW i \in 1..Len(t), NEW g \in Files, t[i] = Open(g)
      PROVE  \E j \in i + 1 .. Len(t) : t[j] = Close(g) /\ Within(t, g, i + 1, j - 1)
  <2>1. i = 1 /\ g = f
    BY <1>2, <1>3, <1>6, StepFacts
  <2>2. 2 \in i + 1 .. Len(t) /\ \A k \in i + 1 .. 2 - 1 : FALSE
    BY <1>2, <2>1
  <2> QED BY <1>2, <2>1, <2>2 DEF Within
<1>7. ASSUME NEW j \in 1..Len(t), NEW g \in Files, t[j] = Close(g), g \notin Opening(t) PROVE FALSE
  BY <1>5, <1>7 DEF Closing
<1> QED BY <1>1, <1>2, <1>4, <1>5, <1>6, <1>7 DEF Complete, Series

\* Series of different files one behind the other.
LEMMA FlattenComplete ==
  ASSUME NEW seqs \in Seq(Seq(StepT)), NEW F,
         \A i \in 1..Len(seqs) : Complete(seqs[i], F[i]),
         \A i, j \in 1..Len(seqs) : i # j => F[i] \cap F[j] = {}
  PROVE  Complete(FlattenSeq(seqs), UNION {F[i] : i \in 1..Len(seqs)})
<1> DEFINE n == Len(seqs)
           U(i) == UNION {F[k] : k \in 1..i}
<1>1. n \in Nat
  BY LenProperties
<1>2. PICK f : Flattened(StepT, seqs, f)
  BY FlattenFacts
<1>3. f[0] = << >> /\ (\A i \in 1..n : f[i] = f[i - 1] \o seqs[i]) /\ FlattenSeq(seqs) = f[n]
  BY <1>2 DEF Flattened
<1> DEFINE P == {i \in 0..n : Complete(f[i], U(i))}
<1>4. 0 \in P
  <2>1. U(0) = {}
    <3>1. \A k \in 1..0 : FALSE
      OBVIOUS
    <3> QED BY <3>1
  <2>2. Complete(f[0], U(0))
    BY <1>3, <2>1, NoSteps
  <2>3. 0 \in 0..n
    BY <1>1
  <2> QED BY <2>2, <2>3
<1>5. ASSUME NEW i \in 1..n, i - 1 \in P PROVE i \in P
  <2>1. i \in 0..n /\ (\A k \in 1..i - 1 : k \in 1..n /\ k # i) /\ 1..i = (1..i - 1) \cup {i}
    BY <1>1
  <2>2. U(i) = U(i - 1) \cup F[i]
    BY <2>1
  <2>3. U(i - 1) \cap F[i] = {}
    BY <2>1
  <2>4. Complete(f[i - 1], U(i - 1)) /\ Complete(seqs[i], F[i])
    BY <1>5
  <2> HIDE DEF U
  <2>5. Complete(f[i - 1] \o seqs[i], U(i - 1) \cup F[i])
    BY <2>3, <2>4, ConcatComplete
  <2>6. Complete(f[i], U(i))
    BY <1>3, <2>2, <2>5
  <2> QED BY <2>1, <2>6
<1> HIDE DEF P
<1>6. n \in P
  <2>1. \A i \in 0..n : i \in P
    BY <1>1, <1>4, <1>5, Upwards
  <2> QED BY <1>1, <2>1
<1> QED BY <1>3, <1>6 DEF P

\* Rosters are written while a file of sessions is open.
LEMMA EnclosedComplete ==
  ASSUME NEW f \in Files, f[1] = "sessions", NEW r, NEW F \in SUBSET Rosters, Complete(r, F)
  PROVE  Complete(<<Open(f)>> \o r \o <<Close(f)>>, {f} \cup F)
<1> DEFINE n == Len(r)
<1>1. r \in Seq(StepT) /\ n \in Nat /\ Series(r) /\ Opening(r) = F /\ Closing(r) = F
  BY SeriesFacts DEF Complete
<1>2. /\ <<Open(f)>> \in Seq(StepT) /\ Len(<<Open(f)>>) = 1 /\ <<Open(f)>>[1] = Open(f)
      /\ <<Close(f)>> \in Seq(StepT) /\ Len(<<Close(f)>>) = 1 /\ <<Close(f)>>[1] = Close(f)
  <2>1. Open(f) \in StepT /\ Close(f) \in StepT
    BY StepFacts
  <2> QED BY <2>1
<1>3. PICK a : a = <<Open(f)>> /\ a \in Seq(StepT) /\ Len(a) = 1 /\ a[1] = Open(f)
  BY <1>2, Zenon
<1>4. PICK z : z = <<Close(f)>> /\ z \in Seq(StepT) /\ Len(z) = 1 /\ z[1] = Close(f)
  BY <1>2, Zenon
<1>5. PICK b : b = a \o r
  OBVIOUS
<1>6. PICK t : t = b \o z
  OBVIOUS
<1>7. /\ b \in Seq(StepT) /\ Len(b) = 1 + n /\ (\A i \in 1..1 : b[i] = a[i])
      /\ \A i \in 1..n : b[1 + i] = r[i]
  BY <1>1, <1>3, <1>5, ConcatFacts
<1>8. /\ t \in Seq(StepT) /\ Len(t) = (1 + n) + 1 /\ (\A i \in 1..1 + n : t[i] = b[i])
      /\ \A i \in 1..1 : t[(1 + n) + i] = z[i]
  BY <1>4, <1>6, <1>7, ConcatFacts
<1>9. /\ t[1] = Open(f) /\ t[n + 2] = Close(f) /\ Len(t) = n + 2
      /\ \A i \in 1..n : t[1 + i] = r[i]
  <2>1. 1 \in 1..1 + n /\ (\A i \in 1..n : 1 + i \in 1..1 + n) /\ (1 + n) + 1 = n + 2 /\ 1 \in 1..1
    BY <1>1
  <2> QED BY <1>3, <1>4, <1>7, <1>8, <2>1
<1> HIDE DEF n
<1>10. /\ \A i \in 1..Len(t) : i = 1 \/ i = n + 2 \/ (i - 1 \in 1..n /\ 1 + (i - 1) = i)
       /\ \A i \in 1..n : 1 + i \in 1..Len(t)
       /\ 1 \in 1..Len(t) /\ n + 2 \in 1..Len(t)
  BY <1>1, <1>9
<1>11. \A i \in 1..n : r[i] \in RosterSteps /\ r[i] # Open(f) /\ r[i] # Close(f)
  <2>1. ASSUME NEW i \in 1..n PROVE r[i] \in RosterSteps
    <3>1. PICK g \in Files : r[i] = Open(g) \/ r[i] = Close(g)
      BY <1>1, SeriesFacts DEF n
    <3>2. g \in F
      BY <1>1, <3>1 DEF Opening, Closing, n
    <3> QED BY <3>1, <3>2 DEF RosterSteps
  <2>2. f[1] # "userlist"
    OBVIOUS
  <2> QED BY <2>1, <2>2, StepFacts
<1>12. ASSUME NEW i \in 1..Len(t)
       PROVE  \/ i = 1 /\ t[i] = Open(f)
              \/ i = n + 2 /\ t[i] = Close(f)
              \/ i - 1 \in 1..n /\ t[i] = r[i - 1] /\ 1 + (i - 1) = i
  BY <1>9, <1>10
<1>13. ASSUME NEW i \in 1..Len(t), NEW j \in 1..Len(t), t[i] = t[j] PROVE i = j
  <2>0. ASSUME NEW k \in 1..Len(t) PROVE (t[k] = Open(f) => k = 1) /\ (t[k] = Close(f) => k = n + 2)
    BY <1>11, <1>12, StepFacts
  <2>1. CASE t[i] = Open(f)
    BY <1>13, <2>0, <2>1
  <2>2. CASE t[i] = Close(f)
    BY <1>13, <2>0, <2>2
  <2>3. CASE t[i] # Open(f) /\ t[i] # Close(f)
    <3>1. i - 1 \in 1..n /\ j - 1 \in 1..n /\ r[i - 1] = r[j - 1] /\ 1 + (i - 1) = i /\ 1 + (j - 1) = j
      BY <1>12, <1>13, <2>3
    <3>2. i - 1 = j - 1
      BY <1>1, <3>1, SeriesFacts DEF n
    <3> QED BY <3>1, <3>2
  <2> QED BY <2>1, <2>2, <2>3
<1>14. Opening(t) = {f} \cup F /\ Closing(t) = {f} \cup F
  <2>1. ASSUME NEW x
        PROVE  (\E i \in 1..Len(t) : t[i] = x) <=> (x = Open(f) \/ x = Close(f) \/ \E i \in 1..n : r[i] = x)
    <3>1. ASSUME NEW i \in 1..n, r[i] = x PROVE \E k \in 1..Len(t) : t[k] = x
      BY <1>9, <1>10, <3>1
    <3>2. ASSUME NEW i \in 1..Len(t), t[i] = x
          PROVE  x = Open(f) \/ x = Close(f) \/ \E k \in 1..n : r[k] = x
      BY <1>12, <3>2
    <3> QED BY <1>9, <1>10, <3>1, <3>2
  <2>2. ASSUME NEW g \in Files
        PROVE  /\ g \in Opening(t) <=> g = f \/ g \in Opening(r)
               /\ g \in Closing(t) <=> g = f \/ g \in Closing(r)
    <3>1. /\ (\E i \in 1..Len(t) : t[i] = Open(g)) <=> (g = f \/ \E i \in 1..n : r[i] = Open(g))
          /\ (\E i \in 1..Len(t) : t[i] = Close(g)) <=> (g = f \/ \E i \in 1..n : r[i] = Close(g))
      BY <2>1, StepFacts
    <3> QED BY <3>1 DEF Opening, Closing, n
  <2>3. /\ Opening(t) \subseteq Files /\ Closing(t) \subseteq Files
        /\ Opening(r) \subseteq Files /\ Closing(r) \subseteq Files
    BY DEF Opening, Closing
  <2> QED BY <1>1, <2>2, <2>3
<1>15. ASSUME NEW i \in 1..Len(t), NEW g \in Files, t[i] = Open(g)
       PROVE  \E j \in i + 1 .. Len(t) : t[j] = Close(g) /\ Within(t, g, i + 1, j - 1)
  <2>1. CASE i = 1
    <3>1. g = f
      BY <1>9, <1>15, <2>1, StepFacts
    <3>2. /\ n + 2 \in i + 1 .. Len(t)
          /\ \A k \in i + 1 .. (n + 2) - 1 : k - 1 \in 1..n /\ 1 + (k - 1) = k
      BY <1>1, <1>9, <2>1
    <3>3. Within(t, g, i + 1, (n + 2) - 1)
      <4> SUFFICES ASSUME NEW k \in i + 1 .. (n + 2) - 1
                   PROVE  g[1] = "sessions" /\ t[k] \in RosterSteps
        BY DEF Within
      <4>1. k - 1 \in 1..n /\ t[k] = r[k - 1]
        <5>1. k - 1 \in 1..n /\ 1 + (k - 1) = k
          BY <3>2
        <5> QED BY <1>9, <5>1
      <4> QED BY <1>11, <3>1, <4>1
    <3> QED BY <1>9, <3>1, <3>2, <3>3
  <2>2. CASE i - 1 \in 1..n /\ t[i] = r[i - 1] /\ 1 + (i - 1) = i
    <3>1. PICK h \in 1..n : h = i - 1 /\ r[h] = Open(g) /\ 1 + h = i
      BY <1>15, <2>2
    <3>2. PICK j \in h + 1 .. n : r[j] = Close(g) /\ Within(r, g, h + 1, j - 1)
      BY <1>1, <3>1 DEF Series, n
    <3>3. /\ 1 + j \in i + 1 .. Len(t) /\ j \in 1..n
          /\ \A k \in i + 1 .. (1 + j) - 1 :
                k - 1 \in 1..n /\ k - 1 \in h + 1 .. j - 1 /\ 1 + (k - 1) = k
      BY <1>1, <1>9, <3>1
    <3>4. t[1 + j] = Close(g)
      BY <1>9, <3>2, <3>3
    <3>5. ASSUME NEW k \in i + 1 .. (1 + j) - 1 PROVE g[1] = "sessions" /\ t[k] \in RosterSteps
      <4>1. t[k] = r[k - 1]
        <5>1. k - 1 \in 1..n /\ 1 + (k - 1) = k
          BY <3>3
        <5> QED BY <1>9, <5>1
      <4> QED BY <3>2, <3>3, <4>1 DEF Within
    <3> QED BY <3>3, <3>4, <3>5 DEF Within
  <2> QED BY <1>12, <1>15, <2>1, <2>2, StepFacts
<1>16. ASSUME NEW j \in 1..Len(t), NEW g \in Files, t[j] = Close(g), g \notin Opening(t) PROVE FALSE
  BY <1>14, <1>16 DEF Closing
<1>17. Complete(t, {f} \cup F)
  BY <1>8, <1>13, <1>14, <1>15, <1>16 DEF Complete, Series
<1> QED BY <1>3, <1>4, <1>5, <1>6, <1>17

LEMMA ForEachComplete ==
  ASSUME NEW ps \in SUBSET Plugins, NEW steps, DOMAIN steps = ps, NEW F,
         \A p \in ps : Complete(steps[p], F[p]),
         \A p, q \in ps : p # q => F[p] \cap F[q] = {},
         NEW U, \A f : f \in U <=> \E p \in ps : f \in F[p]
  PROVE  Complete(ForEach(steps), U)
<1> DEFINE n == Len(PluginOrder)
           seqs == [i \in 1..n |-> IF PluginOrder[i] \in DOMAIN steps THEN steps[PluginOrder[i]] ELSE << >>]
           G == [i \in 1..n |-> IF PluginOrder[i] \in ps THEN F[PluginOrder[i]] ELSE {}]
<1>1. /\ n \in Nat /\ \A i, j \in 1..n : PluginOrder[i] = PluginOrder[j] => i = j
      /\ \A p \in Plugins : \E i \in 1..n : PluginOrder[i] = p
  <2>1. PluginOrder \in Seq(Plugins) /\ DOMAIN PluginOrder = 1..n /\ n \in Nat
    BY ConfigAssumption, LenProperties
  <2> QED BY <2>1, ConfigAssumption DEF IsInjective, Plugins, Range
<1>2. \A i \in 1..n : Complete(seqs[i], G[i])
  <2> SUFFICES ASSUME NEW i \in 1..n PROVE Complete(seqs[i], G[i])
    OBVIOUS
  <2>1. CASE PluginOrder[i] \in ps
    BY <2>1
  <2>2. CASE PluginOrder[i] \notin ps
    BY <2>2, NoSteps
  <2> QED BY <2>1, <2>2
<1>3. \A i, j \in 1..n : i # j => G[i] \cap G[j] = {}
  BY <1>1
<1>4. \A i \in 1..n : seqs[i] \in Seq(StepT)
  BY <1>2 DEF Complete, Series
<1>5. seqs \in Seq(Seq(StepT)) /\ Len(seqs) = n
  <2>1. seqs = [i \in 1..n |-> seqs[i]]
    OBVIOUS
  <2> QED BY <1>1, <1>4
<1>6. /\ \A p \in ps : \E i \in 1..n : G[i] = F[p]
      /\ \A i \in 1..n : G[i] = {} \/ \E p \in ps : G[i] = F[p]
  <2>1. ASSUME NEW p \in ps PROVE \E i \in 1..n : G[i] = F[p]
    BY <1>1
  <2> QED BY <2>1
<1>7. ForEach(steps) = FlattenSeq(seqs)
  BY DEF ForEach
<1>8. PICK z, H : z = seqs /\ H = G
  OBVIOUS
<1> HIDE DEF seqs, G
<1>9. z \in Seq(Seq(StepT)) /\ Len(z) = n
  BY <1>5, <1>8
<1> HIDE DEF n
<1>10. /\ \A i \in 1..Len(z) : Complete(z[i], H[i])
       /\ \A i, j \in 1..Len(z) : i # j => H[i] \cap H[j] = {}
  <2>1. \A i \in 1..Len(z) : Complete(z[i], H[i])
    BY <1>2, <1>8, <1>9, Zenon
  <2>2. \A i, j \in 1..Len(z) : i # j => H[i] \cap H[j] = {}
    BY <1>3, <1>8, <1>9, Zenon
  <2> QED BY <2>1, <2>2
<1>11. Complete(FlattenSeq(z), UNION {H[i] : i \in 1..Len(z)})
  BY <1>9, <1>10, FlattenComplete, SMTT(30)
<1>12. /\ \A p \in ps : \E i \in 1..Len(z) : H[i] = F[p]
       /\ \A i \in 1..Len(z) : H[i] = {} \/ \E p \in ps : H[i] = F[p]
  BY <1>6, <1>8, <1>9
<1>13. UNION {H[i] : i \in 1..Len(z)} = U
  BY <1>12
<1> QED BY <1>7, <1>8, <1>11, <1>13

-----------------------------------------------------------------------------
(* What calls write. *)

CallNames == {"config", "sessions", "meta", "scripts"}

\* The files that a call writes.
Named(m, c) ==
  CASE c = "config"   -> {PluginsFile, ConfigFile} \cup {ConfigOf(p) : p \in m.plugins}
    [] c = "sessions" -> {SessionsOf(p) : p \in m.plugins \cap Protocols}
                         \cup {Userlist(s) : s \in {x \in Sessions : m.session[x] # Absent}}
    [] c = "meta"     -> {Metacontacts}
    [] c = "scripts"  -> {ScriptsVar}

\* Nothing is known of plugins that are not loaded and of sessions that are not there.
Tidy(m) ==
  /\ \A p \in Plugins \ m.plugins : m.var[p] = 0
  /\ \A s \in Sessions : /\ m.session[s] # Absent => Owner[s] \in m.plugins
                         /\ m.session[s] = Absent => m.roster[s] = 0

LEMMA NamedFacts ==
  ASSUME NEW m
  PROVE  /\ Named(m, "config") = {PluginsFile, ConfigFile} \cup {ConfigOf(p) : p \in m.plugins}
         /\ Named(m, "sessions") = {SessionsOf(p) : p \in m.plugins \cap Protocols}
                                   \cup {Userlist(s) : s \in {x \in Sessions : m.session[x] # Absent}}
         /\ Named(m, "meta") = {Metacontacts} /\ Named(m, "scripts") = {ScriptsVar}
         /\ m.plugins \subseteq Plugins => \A c \in CallNames : Named(m, c) \subseteq Files
<1>1. /\ Named(m, "config") = {PluginsFile, ConfigFile} \cup {ConfigOf(p) : p \in m.plugins}
      /\ Named(m, "sessions") = {SessionsOf(p) : p \in m.plugins \cap Protocols}
                                \cup {Userlist(s) : s \in {x \in Sessions : m.session[x] # Absent}}
      /\ Named(m, "meta") = {Metacontacts} /\ Named(m, "scripts") = {ScriptsVar}
  BY Zenon DEF Named
<1>2. ASSUME m.plugins \subseteq Plugins, NEW c \in CallNames PROVE Named(m, c) \subseteq Files
  BY <1>1, <1>2, FileFacts DEF CallNames
<1> QED BY <1>1, <1>2

LEMMA SessionsComplete ==
  ASSUME NEW p \in Protocols
  PROVE  Complete(SessionsSteps(p),
                  {SessionsOf(p)} \cup {Userlist(s) : s \in {x \in Of(p) : mem.session[x] # Absent}})
<1> DEFINE S == {s \in Of(p) : mem.session[s] # Absent}
<1>1. S \subseteq Sessions /\ IsFiniteSet(S)
  <2>1. S \subseteq Sessions
    BY DEF Of
  <2> QED BY <2>1, ConstantFacts, FS_Subset
<1>2. PICK ss : ss = SetToSeq(S)
  OBVIOUS
<1>3. /\ Len(ss) \in Nat /\ \A i \in 1..Len(ss) : ss[i] \in S
      /\ \A i, j \in 1..Len(ss) : ss[i] = ss[j] => i = j
      /\ \A x \in S : \E i \in 1..Len(ss) : ss[i] = x
  <2> HIDE DEF S
  <2>1. LET z == SetToSeq(S)
        IN  /\ Cardinality(S) \in Nat /\ Len(z) = Cardinality(S)
            /\ \A i \in 1..Len(z) : z[i] \in S
            /\ \A i, j \in 1..Len(z) : z[i] = z[j] => i = j
            /\ \A x \in S : \E i \in 1..Len(z) : z[i] = x
    BY <1>1, SetToSeqFacts, Zenon
  <2> QED BY <1>2, <2>1
<1> DEFINE seqs == [i \in 1..Len(ss) |-> Whole(Userlist(ss[i]))]
           G == [i \in 1..Len(ss) |-> {Userlist(ss[i])}]
<1>4. SessionsSteps(p) = <<Open(SessionsOf(p))>> \o FlattenSeq(seqs) \o <<Close(SessionsOf(p))>>
  BY <1>2 DEF SessionsSteps
<1> HIDE DEF S
<1>5. \A i \in 1..Len(ss) : Complete(seqs[i], G[i])
  BY <1>1, <1>3, FileFacts, WholeComplete
<1>6. \A i, j \in 1..Len(ss) : i # j => G[i] \cap G[j] = {}
  BY <1>3, KindFacts
<1>7. \A i \in 1..Len(ss) : seqs[i] \in Seq(StepT)
  BY <1>5 DEF Complete, Series
<1>8. seqs \in Seq(Seq(StepT)) /\ Len(seqs) = Len(ss)
  <2>1. seqs = [i \in 1..Len(ss) |-> seqs[i]]
    OBVIOUS
  <2> QED BY <1>3, <1>7
<1>9. /\ \A s \in S : \E i \in 1..Len(ss) : G[i] = {Userlist(s)}
      /\ \A i \in 1..Len(ss) : \E s \in S : G[i] = {Userlist(s)}
  BY <1>3
<1>10. PICK z, H : z = seqs /\ H = G
  OBVIOUS
<1> HIDE DEF seqs, G
<1>11. z \in Seq(Seq(StepT)) /\ Len(z) = Len(ss)
  BY <1>8, <1>10
<1>12. /\ \A i \in 1..Len(z) : Complete(z[i], H[i])
       /\ \A i, j \in 1..Len(z) : i # j => H[i] \cap H[j] = {}
  BY <1>5, <1>6, <1>10, <1>11
<1>13. Complete(FlattenSeq(z), UNION {H[i] : i \in 1..Len(z)})
  BY <1>11, <1>12, FlattenComplete
<1>14. UNION {H[i] : i \in 1..Len(z)} = {Userlist(s) : s \in S}
  <2>1. /\ \A s \in S : \E i \in 1..Len(z) : H[i] = {Userlist(s)}
        /\ \A i \in 1..Len(z) : \E s \in S : H[i] = {Userlist(s)}
    BY <1>9, <1>10, <1>11
  <2>2. \A f : (\E i \in 1..Len(z) : f \in H[i]) <=> (\E s \in S : f = Userlist(s))
    BY <2>1
  <2> QED BY <2>2
<1>15. {Userlist(s) : s \in S} \subseteq Rosters
  BY <1>1 DEF Rosters
<1>16. SessionsOf(p) \in Files /\ SessionsOf(p)[1] = "sessions"
  BY FileFacts, KindFacts
<1>17. Complete(SessionsSteps(p), {SessionsOf(p)} \cup {Userlist(s) : s \in S})
  <2>1. Complete(FlattenSeq(z), {Userlist(s) : s \in S})
    BY <1>13, <1>14
  <2>2. Complete(<<Open(SessionsOf(p))>> \o FlattenSeq(z) \o <<Close(SessionsOf(p))>>,
                 {SessionsOf(p)} \cup {Userlist(s) : s \in S})
    BY <1>15, <1>16, <2>1, EnclosedComplete
  <2> QED BY <1>4, <1>10, <2>2
<1> QED BY <1>17 DEF S

LEMMA VarsComplete ==
  ASSUME mem \in MemT
  PROVE  Complete(ForEach([p \in mem.plugins |-> Whole(ConfigOf(p))]), {ConfigOf(p) : p \in mem.plugins})
<1> DEFINE steps == [p \in mem.plugins |-> Whole(ConfigOf(p))]
           F == [p \in mem.plugins |-> {ConfigOf(p)}]
<1>1. mem.plugins \subseteq Plugins
  BY MemFacts
<1>2. \A p \in mem.plugins : Complete(steps[p], F[p])
  BY <1>1, FileFacts, WholeComplete
<1>3. \A p, q \in mem.plugins : p # q => F[p] \cap F[q] = {}
  BY KindFacts
<1>4. DOMAIN steps = mem.plugins
  OBVIOUS
<1>5. PICK z, H, ps, U : z = steps /\ H = F /\ ps = mem.plugins /\ U = {ConfigOf(p) : p \in mem.plugins}
  OBVIOUS
<1>6. \A f : f \in U <=> \E p \in ps : f \in H[p]
  BY <1>5
<1> HIDE DEF steps, F
<1>7. /\ DOMAIN z = ps /\ ps \subseteq Plugins
      /\ \A p \in ps : Complete(z[p], H[p])
      /\ \A p, q \in ps : p # q => H[p] \cap H[q] = {}
  BY <1>1, <1>2, <1>3, <1>4, <1>5
<1>8. Complete(ForEach(z), U)
  BY <1>6, <1>7, ForEachComplete
<1>9. Complete(ForEach(steps), {ConfigOf(p) : p \in mem.plugins})
  BY <1>5, <1>8
<1> QED BY <1>9 DEF steps

LEMMA StepsComplete ==
  ASSUME mem \in MemT, Tidy(mem), NEW c \in CallNames
  PROVE  Complete(Steps(c), Named(mem, c))
<1>1. mem.plugins \subseteq Plugins
  BY MemFacts
<1>2. CASE c = "config"
  <2> DEFINE steps == [p \in mem.plugins |-> Whole(ConfigOf(p))]
  <2>5. Complete(ForEach(steps), {ConfigOf(p) : p \in mem.plugins})
    BY VarsComplete
  <2>6. Complete(Whole(PluginsFile) \o Whole(ConfigFile), {PluginsFile} \cup {ConfigFile})
    <3>1. Complete(Whole(PluginsFile), {PluginsFile}) /\ Complete(Whole(ConfigFile), {ConfigFile})
      BY FileFacts, WholeComplete
    <3>2. {PluginsFile} \cap {ConfigFile} = {}
      BY KindFacts
    <3> QED BY <3>1, <3>2, ConcatComplete
  <2>7. ({PluginsFile} \cup {ConfigFile}) \cap {ConfigOf(p) : p \in mem.plugins} = {}
    BY <1>1, KindFacts
  <2>8. Complete((Whole(PluginsFile) \o Whole(ConfigFile)) \o ForEach(steps),
                 ({PluginsFile} \cup {ConfigFile}) \cup {ConfigOf(p) : p \in mem.plugins})
    BY <2>5, <2>6, <2>7, ConcatComplete
  <2>9. Steps(c) = (Whole(PluginsFile) \o Whole(ConfigFile)) \o ForEach(steps)
    BY <1>2 DEF Steps, ConfigWrite
  <2>10. Named(mem, c) = ({PluginsFile} \cup {ConfigFile}) \cup {ConfigOf(p) : p \in mem.plugins}
    BY <1>2, NamedFacts
  <2> QED BY <2>8, <2>9, <2>10
<1>3. CASE c = "sessions"
  <2> DEFINE ps == mem.plugins \cap Protocols
             steps == [p \in ps |-> SessionsSteps(p)]
             F == [p \in ps |-> {SessionsOf(p)} \cup {Userlist(s) : s \in {x \in Of(p) : mem.session[x] # Absent}}]
  <2>1. \A p \in ps : Complete(steps[p], F[p])
    BY SessionsComplete
  <2>2. \A p, q \in ps : p # q => F[p] \cap F[q] = {}
    BY KindFacts DEF Of
  <2>3. DOMAIN steps = ps /\ ps \subseteq Plugins
    BY <1>1
  <2>4. \A f : f \in Named(mem, "sessions") <=> \E p \in ps : f \in F[p]
    <3>1. \A s \in Sessions : mem.session[s] # Absent => Owner[s] \in ps /\ s \in Of(Owner[s])
      BY ConstantFacts DEF Tidy, Of
    <3>2. \A p \in ps : \A s \in Of(p) : s \in Sessions
      BY DEF Of
    <3>3. \A f : f \in Named(mem, "sessions") <=>
                   \/ \E p \in ps : f = SessionsOf(p)
                   \/ \E s \in Sessions : mem.session[s] # Absent /\ f = Userlist(s)
      BY NamedFacts
    <3>4. \A f : (\E p \in ps : f \in F[p]) <=>
                   \/ \E p \in ps : f = SessionsOf(p)
                   \/ \E p \in ps : \E s \in Of(p) : mem.session[s] # Absent /\ f = Userlist(s)
      OBVIOUS
    <3> HIDE DEF F, ps
    <3> QED BY <3>1, <3>2, <3>3, <3>4
  <2>5. Complete(ForEach(steps), Named(mem, "sessions"))
    <3>1. PICK z, H, U : z = steps /\ H = F /\ U = Named(mem, "sessions")
      OBVIOUS
    <3> HIDE DEF steps, F, ps
    <3>2. \A f : f \in U <=> \E p \in ps : f \in H[p]
      BY <2>4, <3>1
    <3>3. /\ DOMAIN z = ps
          /\ \A p \in ps : Complete(z[p], H[p])
          /\ \A p, q \in ps : p # q => H[p] \cap H[q] = {}
      BY <2>1, <2>2, <2>3, <3>1
    <3>4. Complete(ForEach(z), U)
      BY <2>3, <3>2, <3>3, ForEachComplete
    <3> QED BY <3>1, <3>4
  <2>6. Steps(c) = ForEach(steps)
    BY <1>3 DEF Steps, SessionWrite
  <2> QED BY <1>3, <2>5, <2>6
<1>4. CASE c = "meta"
  <2>1. Steps(c) = Whole(Metacontacts)
    BY <1>4 DEF Steps
  <2> QED BY <1>4, <2>1, NamedFacts, FileFacts, WholeComplete
<1>5. CASE c = "scripts"
  <2>1. Steps(c) = Whole(ScriptsVar)
    BY <1>5 DEF Steps
  <2> QED BY <1>5, <2>1, NamedFacts, FileFacts, WholeComplete
<1> QED BY <1>2, <1>3, <1>4, <1>5 DEF CallNames


-----------------------------------------------------------------------------
(* What is read. *)

LEMMA OfFacts ==
  /\ \A p : Of(p) \subseteq Sessions
  /\ \A s \in Sessions : s \in Of(Owner[s])
  /\ \A p : \A s \in Of(p) : Owner[s] = p
BY DEF Of

LEMMA ReadTyped ==
  /\ \A b \in Bits, x \in Marks : Read(b, x) \in Bits
  /\ \A b, x : x # Absent => Read(b, x) = x
  /\ \A b : Read(b, Absent) = b
BY DEF Read, Bits, Marks, Absent

LEMMA ReadConfigFacts ==
  ASSUME NEW m \in MemT, NEW d \in DiskT, NEW r, r = ReadConfig(m, d)
  PROVE  /\ r \in MemT
         /\ r.lists = d[ConfigFile].lists
         /\ r.set = Read(m.set, d[ConfigFile].set)
         /\ r.layout = Read(m.layout, d[ConfigFile].layout)
         /\ r.plugins = m.plugins /\ r.windows = m.windows /\ r.var = m.var
         /\ r.session = m.session /\ r.roster = m.roster /\ r.meta = m.meta
<1>1. d[ConfigFile].lists \in Bits /\ d[ConfigFile].set \in Marks /\ d[ConfigFile].layout \in Marks
  BY DiskFacts
<1>2. PICK x, y, z : x = d[ConfigFile].lists /\ y = Read(m.set, d[ConfigFile].set) /\ z = Read(m.layout, d[ConfigFile].layout)
  OBVIOUS
<1>3. x \in Bits /\ y \in Bits /\ z \in Bits
  BY <1>1, <1>2, ReadTyped, MemFacts
<1>4. r = [m EXCEPT !.lists = x, !.set = y, !.layout = z]
  BY <1>2 DEF ReadConfig
<1>5. r = [plugins |-> m.plugins, lists |-> x, set |-> y, layout |-> z, windows |-> m.windows,
           var |-> m.var, session |-> m.session, roster |-> m.roster, meta |-> m.meta]
  BY <1>4 DEF MemT
<1> QED BY <1>2, <1>3, <1>5, MemFacts DEF MemT

LEMMA ReadVarsFacts ==
  ASSUME NEW m \in MemT, NEW ps, NEW d \in DiskT, NEW r, r = ReadVars(m, ps, d)
  PROVE  /\ r \in MemT
         /\ \A p \in Plugins : r.var[p] = IF p \in ps THEN Read(m.var[p], d[ConfigOf(p)]) ELSE m.var[p]
         /\ r.plugins = m.plugins /\ r.lists = m.lists /\ r.set = m.set /\ r.layout = m.layout
         /\ r.windows = m.windows /\ r.session = m.session /\ r.roster = m.roster /\ r.meta = m.meta
<1>1. PICK v : v = [p \in Plugins |-> IF p \in ps THEN Read(m.var[p], d[ConfigOf(p)]) ELSE m.var[p]]
  OBVIOUS
<1>2. v \in [Plugins -> Bits]
  <2>1. ASSUME NEW p \in Plugins
        PROVE  (IF p \in ps THEN Read(m.var[p], d[ConfigOf(p)]) ELSE m.var[p]) \in Bits
    <3>1. m.var[p] \in Bits /\ d[ConfigOf(p)] \in Marks
      BY MemFacts, DiskFacts
    <3> QED BY <3>1, ReadTyped
  <2> QED BY <1>1, <2>1
<1>3. r = [m EXCEPT !.var = v]
  BY <1>1 DEF ReadVars
<1>4. r = [plugins |-> m.plugins, lists |-> m.lists, set |-> m.set, layout |-> m.layout, windows |-> m.windows,
           var |-> v, session |-> m.session, roster |-> m.roster, meta |-> m.meta]
  BY <1>3 DEF MemT
<1> QED BY <1>1, <1>2, <1>4, MemFacts DEF MemT

\* What is read of session s.
Line(d, s) == d[SessionsOf(Owner[s])][s]

LEMMA LineFacts ==
  ASSUME NEW d \in DiskT, NEW s \in Sessions
  PROVE  Line(d, s) \in Marks /\ d[Userlist(s)] \in Bits
<1>1. Owner[s] \in Protocols /\ s \in Of(Owner[s])
  BY ConstantFacts, OfFacts
<1>2. d[SessionsOf(Owner[s])] \in [Of(Owner[s]) -> Marks] /\ d[Userlist(s)] \in Bits
  BY <1>1, DiskFacts
<1> QED BY <1>1, <1>2 DEF Line

LEMMA ReadSessionsFacts ==
  ASSUME NEW m \in MemT, NEW ps, NEW d \in DiskT, NEW r, r = ReadSessions(m, ps, d)
  PROVE  /\ r \in MemT
         /\ \A s \in Sessions :
              /\ r.session[s] = IF Owner[s] \in ps THEN Line(d, s) ELSE m.session[s]
              /\ r.roster[s] = IF Owner[s] \notin ps THEN m.roster[s]
                               ELSE IF Line(d, s) = Absent THEN 0 ELSE d[Userlist(s)]
         /\ r.plugins = m.plugins /\ r.lists = m.lists /\ r.set = m.set /\ r.layout = m.layout
         /\ r.windows = m.windows /\ r.var = m.var /\ r.meta = m.meta
<1>1. PICK v, w :
        /\ v = [s \in Sessions |-> IF Owner[s] \in ps THEN Line(d, s) ELSE m.session[s]]
        /\ w = [s \in Sessions |-> IF Owner[s] \notin ps THEN m.roster[s]
                                   ELSE IF Line(d, s) = Absent THEN 0 ELSE d[Userlist(s)]]
  OBVIOUS
<1>2. v \in [Sessions -> Marks] /\ w \in [Sessions -> Bits]
  <2>1. ASSUME NEW s \in Sessions
        PROVE  /\ m.session[s] \in Marks /\ m.roster[s] \in Bits
               /\ Line(d, s) \in Marks /\ d[Userlist(s)] \in Bits /\ 0 \in Bits
    BY MemFacts, LineFacts DEF Bits
  <2> QED BY <1>1, <2>1
<1>3. r = [m EXCEPT !.session = v, !.roster = w]
  BY <1>1 DEF ReadSessions, Line
<1>4. r = [plugins |-> m.plugins, lists |-> m.lists, set |-> m.set, layout |-> m.layout, windows |-> m.windows,
           var |-> m.var, session |-> v, roster |-> w, meta |-> m.meta]
  BY <1>3 DEF MemT
<1> QED BY <1>1, <1>2, <1>4, MemFacts DEF MemT

LEMMA WithPluginsFacts ==
  ASSUME NEW m \in MemT, NEW ps \in SUBSET Plugins, NEW r, r = [m EXCEPT !.plugins = ps]
  PROVE  /\ r \in MemT /\ r.plugins = ps /\ r.lists = m.lists /\ r.set = m.set /\ r.layout = m.layout
         /\ r.windows = m.windows /\ r.var = m.var /\ r.session = m.session /\ r.roster = m.roster
         /\ r.meta = m.meta
<1>1. r = [plugins |-> ps, lists |-> m.lists, set |-> m.set, layout |-> m.layout, windows |-> m.windows,
           var |-> m.var, session |-> m.session, roster |-> m.roster, meta |-> m.meta]
  BY DEF MemT
<1> QED BY <1>1, MemFacts DEF MemT

LEMMA WithoutFacts ==
  ASSUME NEW m \in MemT, NEW ss, NEW r, r = Without(m, ss)
  PROVE  /\ r \in MemT
         /\ \A s \in Sessions : /\ r.session[s] = IF s \in ss THEN Absent ELSE m.session[s]
                                /\ r.roster[s] = IF s \in ss THEN 0 ELSE m.roster[s]
         /\ r.plugins = m.plugins /\ r.lists = m.lists /\ r.set = m.set /\ r.layout = m.layout
         /\ r.windows = m.windows /\ r.var = m.var /\ r.meta = m.meta
<1>1. PICK v, w : /\ v = [s \in Sessions |-> IF s \in ss THEN Absent ELSE m.session[s]]
                  /\ w = [s \in Sessions |-> IF s \in ss THEN 0 ELSE m.roster[s]]
  OBVIOUS
<1>2. v \in [Sessions -> Marks] /\ w \in [Sessions -> Bits]
  BY <1>1, MemFacts DEF Bits, Marks
<1>3. r = [m EXCEPT !.session = v, !.roster = w]
  BY <1>1 DEF Without
<1>4. r = [plugins |-> m.plugins, lists |-> m.lists, set |-> m.set, layout |-> m.layout, windows |-> m.windows,
           var |-> m.var, session |-> v, roster |-> w, meta |-> m.meta]
  BY <1>3 DEF MemT
<1> QED BY <1>1, <1>2, <1>4, MemFacts DEF MemT

\* The plugins that a start loads when those listed are asked for.
AllOf(listed) ==
  LET seen == IF listed \cap UI = {} THEN listed \cup {DefaultUI} ELSE listed
  IN IF seen \cap Protocols = {} THEN seen \cup DefaultProtocols ELSE seen

LEMMA AllOfFacts ==
  ASSUME NEW ps \in SUBSET Plugins
  PROVE  /\ AllOf(ps) \subseteq Plugins /\ ps \subseteq AllOf(ps) /\ AllOf(ps) \cap UI # {}
         /\ ps \cap UI # {} /\ ps \cap Protocols # {} => AllOf(ps) = ps
BY ConstantFacts DEF AllOf

\* What a start makes of the files.
LEMMA StartedFacts ==
  ASSUME disk \in DiskT, NEW front \in SUBSET UI, NEW r, r = Started(front)
  PROVE  /\ r \in MemT
         /\ r.plugins = AllOf(disk[PluginsFile] \cup front)
         /\ r.lists = disk[ConfigFile].lists
         /\ r.set = Read(0, disk[ConfigFile].set)
         /\ r.layout = Read(0, disk[ConfigFile].layout) /\ r.windows = r.layout
         /\ r.meta = disk[Metacontacts]
         /\ \A p \in Plugins : r.var[p] = IF p \in r.plugins /\ ConfigFile \in there
                                          THEN Read(0, disk[ConfigOf(p)]) ELSE 0
         /\ \A s \in Sessions :
              /\ r.session[s] = IF Owner[s] \in r.plugins THEN Line(disk, s) ELSE Absent
              /\ r.roster[s] = IF r.session[s] = Absent THEN 0 ELSE disk[Userlist(s)]
<1> DEFINE all == AllOf(disk[PluginsFile] \cup front)
<1>1. disk[PluginsFile] \cup front \subseteq Plugins /\ disk[Metacontacts] \in Bits
  BY ConstantFacts, DiskFacts
<1>2. all \in SUBSET Plugins
  BY <1>1, AllOfFacts
<1>3. PICK m1 : m1 = [Nothing EXCEPT !.plugins = all]
  OBVIOUS
<1>4. PICK core : core = ReadConfig(m1, disk)
  OBVIOUS
<1>5. PICK rv : rv = ReadVars(core, all, disk)
  OBVIOUS
<1>6. PICK read : read = IF ConfigFile \in there THEN rv ELSE core
  OBVIOUS
<1>7. PICK rs : rs = ReadSessions(read, all \cap Protocols, disk)
  OBVIOUS
<1>8. r = [rs EXCEPT !.windows = read.layout, !.meta = disk[Metacontacts]]
  BY <1>3, <1>4, <1>5, <1>6, <1>7, Zenon DEF Started, AllOf
<1> HIDE DEF all
<1>9. /\ m1 \in MemT /\ m1.plugins = all /\ m1.lists = 0 /\ m1.set = 0 /\ m1.layout = 0
      /\ m1.var = Nothing.var /\ m1.session = Nothing.session /\ m1.roster = Nothing.roster
  BY <1>2, <1>3, NothingFacts, WithPluginsFacts
<1>10. /\ core \in MemT /\ core.plugins = all /\ core.lists = disk[ConfigFile].lists
       /\ core.set = Read(0, disk[ConfigFile].set) /\ core.layout = Read(0, disk[ConfigFile].layout)
       /\ core.var = Nothing.var /\ core.session = Nothing.session /\ core.roster = Nothing.roster
  BY <1>4, <1>9, ReadConfigFacts
<1>11. /\ rv \in MemT /\ rv.plugins = all /\ rv.lists = core.lists
       /\ rv.set = core.set /\ rv.layout = core.layout
       /\ \A p \in Plugins : rv.var[p] = IF p \in all THEN Read(core.var[p], disk[ConfigOf(p)]) ELSE core.var[p]
       /\ rv.session = Nothing.session /\ rv.roster = Nothing.roster
  BY <1>5, <1>10, ReadVarsFacts
<1>12. \A p \in Plugins : core.var[p] = 0
  BY <1>10, NothingFacts
<1>13. /\ read \in MemT /\ read.plugins = all /\ read.lists = disk[ConfigFile].lists
       /\ read.set = Read(0, disk[ConfigFile].set) /\ read.layout = Read(0, disk[ConfigFile].layout)
       /\ \A p \in Plugins : read.var[p] = IF p \in all /\ ConfigFile \in there
                                           THEN Read(0, disk[ConfigOf(p)]) ELSE 0
       /\ read.session = Nothing.session /\ read.roster = Nothing.roster
  <2>1. CASE ConfigFile \in there
    BY <1>6, <1>10, <1>11, <1>12, <2>1
  <2>2. CASE ConfigFile \notin there
    BY <1>6, <1>10, <1>12, <2>2
  <2> QED BY <2>1, <2>2
<1>14. /\ rs \in MemT
       /\ \A s \in Sessions :
            /\ rs.session[s] = IF Owner[s] \in all \cap Protocols THEN Line(disk, s) ELSE read.session[s]
            /\ rs.roster[s] = IF Owner[s] \notin all \cap Protocols THEN read.roster[s]
                              ELSE IF Line(disk, s) = Absent THEN 0 ELSE disk[Userlist(s)]
       /\ rs.plugins = read.plugins /\ rs.lists = read.lists /\ rs.set = read.set /\ rs.layout = read.layout
       /\ rs.var = read.var
  BY <1>7, <1>13, ReadSessionsFacts
<1>15. r = [plugins |-> rs.plugins, lists |-> rs.lists, set |-> rs.set, layout |-> rs.layout,
            windows |-> read.layout, var |-> rs.var, session |-> rs.session, roster |-> rs.roster,
            meta |-> disk[Metacontacts]]
  BY <1>8, <1>14 DEF MemT
<1>16. /\ r.plugins = all /\ r.lists = rs.lists /\ r.set = rs.set /\ r.layout = read.layout
       /\ r.windows = read.layout /\ r.var = rs.var /\ r.session = rs.session /\ r.roster = rs.roster
       /\ r.meta = disk[Metacontacts]
  BY <1>13, <1>14, <1>15
<1>17. r \in MemT
  <2>1. read.layout \in Bits
    BY <1>13, MemFacts
  <2> QED BY <1>1, <1>14, <1>15, <2>1, MemFacts DEF MemT
<1>18. ASSUME NEW s \in Sessions
       PROVE  /\ r.session[s] = IF Owner[s] \in all THEN Line(disk, s) ELSE Absent
              /\ r.roster[s] = IF r.session[s] = Absent THEN 0 ELSE disk[Userlist(s)]
  <2>1. Owner[s] \in Protocols /\ Nothing.session[s] = Absent /\ Nothing.roster[s] = 0
    BY ConstantFacts, NothingFacts
  <2>2. read.session[s] = Absent /\ read.roster[s] = 0
    BY <1>13, <2>1
  <2>3. CASE Owner[s] \in all
    BY <1>14, <1>16, <2>1, <2>3
  <2>4. CASE Owner[s] \notin all
    BY <1>14, <1>16, <2>2, <2>4
  <2> QED BY <2>3, <2>4
<1>19. \A p \in Plugins : r.var[p] = IF p \in r.plugins /\ ConfigFile \in there
                                      THEN Read(0, disk[ConfigOf(p)]) ELSE 0
  BY <1>13, <1>14, <1>16
<1>20. /\ r.lists = disk[ConfigFile].lists /\ r.set = Read(0, disk[ConfigFile].set)
       /\ r.layout = Read(0, disk[ConfigFile].layout) /\ r.windows = r.layout
       /\ r.meta = disk[Metacontacts]
  BY <1>13, <1>14, <1>16
<1>21. \A s \in Sessions :
         /\ r.session[s] = IF Owner[s] \in r.plugins THEN Line(disk, s) ELSE Absent
         /\ r.roster[s] = IF r.session[s] = Absent THEN 0 ELSE disk[Userlist(s)]
  BY <1>16, <1>18
<1>22. r.plugins = AllOf(disk[PluginsFile] \cup front)
  BY <1>16 DEF all
<1> QED BY <1>17, <1>19, <1>20, <1>21, <1>22, Zenon

LEMMA StartedTidy ==
  ASSUME disk \in DiskT, NEW front \in SUBSET UI
  PROVE  Started(front) \in MemT /\ Tidy(Started(front)) /\ Started(front).plugins \cap UI # {}
<1>1. PICK r : r = Started(front)
  OBVIOUS
<1>2. disk[PluginsFile] \cup front \subseteq Plugins
  BY ConstantFacts, DiskFacts
<1>3. PICK listed : listed = disk[PluginsFile] \cup front
  OBVIOUS
<1>6. r \in MemT /\ r.plugins = AllOf(listed)
  BY <1>1, <1>3, StartedFacts
<1>7. r.plugins \cap UI # {}
  BY <1>2, <1>3, <1>6, AllOfFacts
<1>4. \A p \in Plugins \ r.plugins : r.var[p] = 0
  BY <1>1, StartedFacts
<1>5. ASSUME NEW s \in Sessions
      PROVE  /\ r.session[s] # Absent => Owner[s] \in r.plugins
             /\ r.session[s] = Absent => r.roster[s] = 0
  BY <1>1, StartedFacts
<1> QED BY <1>1, <1>4, <1>5, <1>6, <1>7 DEF Tidy

\* What ekg_exit() leaves of the memory.
LEMMA AtExitFacts ==
  ASSUME NEW m \in MemT, NEW r, r = AtExit([m EXCEPT !.layout = m.windows])
  PROVE  /\ r \in MemT
         /\ r.plugins = m.plugins \ UI /\ r.layout = m.windows
         /\ \A p \in Plugins : r.var[p] = IF p \in UI THEN 0 ELSE m.var[p]
         /\ r.lists = m.lists /\ r.set = m.set /\ r.windows = m.windows
         /\ r.session = m.session /\ r.roster = m.roster /\ r.meta = m.meta
<1>1. PICK v : v = [p \in Plugins |-> IF p \in UI THEN 0 ELSE m.var[p]]
  OBVIOUS
<1>2. v \in [Plugins -> Bits]
  BY <1>1, MemFacts DEF Bits
<1>3. PICK n : n = [m EXCEPT !.layout = m.windows]
  OBVIOUS
<1>4. n = [plugins |-> m.plugins, lists |-> m.lists, set |-> m.set, layout |-> m.windows, windows |-> m.windows,
           var |-> m.var, session |-> m.session, roster |-> m.roster, meta |-> m.meta]
  BY <1>3 DEF MemT
<1>5. r = [n EXCEPT !.plugins = n.plugins \ UI, !.var = [p \in Plugins |-> IF p \in UI THEN 0 ELSE n.var[p]]]
  BY <1>3 DEF AtExit
<1>6. n.plugins = m.plugins /\ n.var = m.var
  BY <1>4
<1>7. r = [n EXCEPT !.plugins = m.plugins \ UI, !.var = v]
  BY <1>1, <1>5, <1>6
<1>8. r = [plugins |-> m.plugins \ UI, lists |-> m.lists, set |-> m.set, layout |-> m.windows, windows |-> m.windows,
           var |-> v, session |-> m.session, roster |-> m.roster, meta |-> m.meta]
  BY <1>4, <1>7
<1> QED BY <1>1, <1>2, <1>8, MemFacts DEF MemT

LEMMA AtExitTidy ==
  ASSUME NEW m \in MemT, Tidy(m), NEW r, r = AtExit([m EXCEPT !.layout = m.windows])
  PROVE  Tidy(r)
<1>1. \A p \in Plugins \ r.plugins : r.var[p] = 0
  BY AtExitFacts DEF Tidy
<1>2. ASSUME NEW s \in Sessions
      PROVE  /\ r.session[s] # Absent => Owner[s] \in r.plugins
             /\ r.session[s] = Absent => r.roster[s] = 0
  <2>1. Owner[s] \notin UI
    BY ConstantFacts
  <2> QED BY <2>1, AtExitFacts DEF Tidy
<1> QED BY <1>1, <1>2 DEF Tidy

LEMMA PartlyFacts ==
  ASSUME disk \in DiskT, mem \in MemT, NEW d, d = Partly(disk)
  PROVE  /\ d \in DiskT
         /\ \A f \in Files : f # ConfigFile => d[f] = disk[f]
         /\ d[ConfigFile].lists = disk[ConfigFile].lists
         /\ d[ConfigFile].set = disk[ConfigFile].set
         /\ d[ConfigFile].layout = mem.windows
<1>1. PICK c : c = disk[ConfigFile]
  OBVIOUS
<1>2. c \in [lists : Bits, set : Marks, layout : Marks] /\ ConfigFile \in Files
  BY <1>1, FileFacts, LinesFacts DEF DiskT
<1>3. PICK v : v = [c EXCEPT !.layout = mem.windows]
  OBVIOUS
<1>4. mem.windows \in Marks
  BY MemFacts DEF Bits, Marks
<1>5. v \in Lines(ConfigFile) /\ v.lists = c.lists /\ v.set = c.set /\ v.layout = mem.windows
  BY <1>2, <1>3, <1>4, LinesFacts
<1>6. d = [disk EXCEPT ![ConfigFile] = v]
  <2>1. disk = [f \in Files |-> disk[f]]
    BY DEF DiskT
  <2> QED BY <1>1, <1>2, <1>3, <2>1 DEF Partly
<1>7. d \in DiskT /\ d[ConfigFile] = v /\ \A f \in Files : f # ConfigFile => d[f] = disk[f]
  <2>1. PICK e, f : e = disk /\ f = ConfigFile
    OBVIOUS
  <2>2. /\ Put(e, f, v) \in DiskT /\ Put(e, f, v)[f] = v
        /\ \A g \in Files : g # f => Put(e, f, v)[g] = e[g]
    BY <1>2, <1>5, <2>1, DiskExcept
  <2>3. d = Put(e, f, v)
    BY <1>6, <2>1, Zenon DEF Put
  <2> QED BY <2>1, <2>2, <2>3
<1> QED BY <1>1, <1>5, <1>7

-----------------------------------------------------------------------------
(* Changes of the memory. *)

LEMMA OtherBit == \A b \in Bits : Other(b) \in Bits
BY DEF Other, Bits

\* r is m but for what the properties of plugins and sessions do not ask for.
Alike(m, r) ==
  /\ r.plugins = m.plugins /\ r.var = m.var /\ r.session = m.session /\ r.roster = m.roster

LEMMA AlikeTidy ==
  ASSUME NEW m, NEW r, Alike(m, r), Tidy(m)
  PROVE  Tidy(r)
BY DEF Alike, Tidy

LEMMA ListsFacts ==
  ASSUME NEW m \in MemT, NEW x \in Bits, NEW r, r = [m EXCEPT !.lists = x]
  PROVE  /\ r \in MemT /\ Alike(m, r) /\ r.lists = x /\ r.set = m.set /\ r.layout = m.layout
         /\ r.windows = m.windows /\ r.meta = m.meta
<1>1. r = [plugins |-> m.plugins, lists |-> x, set |-> m.set, layout |-> m.layout, windows |-> m.windows,
           var |-> m.var, session |-> m.session, roster |-> m.roster, meta |-> m.meta]
  BY DEF MemT
<1> QED BY <1>1, MemFacts DEF MemT, Alike

LEMMA SetFacts ==
  ASSUME NEW m \in MemT, NEW x \in Bits, NEW r, r = [m EXCEPT !.set = x]
  PROVE  r \in MemT /\ Alike(m, r)
<1>1. r = [plugins |-> m.plugins, lists |-> m.lists, set |-> x, layout |-> m.layout, windows |-> m.windows,
           var |-> m.var, session |-> m.session, roster |-> m.roster, meta |-> m.meta]
  BY DEF MemT
<1> QED BY <1>1, MemFacts DEF MemT, Alike

LEMMA LayoutFacts ==
  ASSUME NEW m \in MemT, NEW x \in Bits, NEW r, r = [m EXCEPT !.layout = x]
  PROVE  /\ r \in MemT /\ Alike(m, r) /\ r.lists = m.lists /\ r.set = m.set /\ r.layout = x
         /\ r.windows = m.windows /\ r.meta = m.meta
<1>1. r = [plugins |-> m.plugins, lists |-> m.lists, set |-> m.set, layout |-> x, windows |-> m.windows,
           var |-> m.var, session |-> m.session, roster |-> m.roster, meta |-> m.meta]
  BY DEF MemT
<1> QED BY <1>1, MemFacts DEF MemT, Alike

LEMMA WindowsFacts ==
  ASSUME NEW m \in MemT, NEW x \in Bits, NEW r, r = [m EXCEPT !.windows = x]
  PROVE  /\ r \in MemT /\ Alike(m, r) /\ r.lists = m.lists /\ r.set = m.set
<1>1. r = [plugins |-> m.plugins, lists |-> m.lists, set |-> m.set, layout |-> m.layout, windows |-> x,
           var |-> m.var, session |-> m.session, roster |-> m.roster, meta |-> m.meta]
  BY DEF MemT
<1> QED BY <1>1, MemFacts DEF MemT, Alike

LEMMA MetaFacts ==
  ASSUME NEW m \in MemT, NEW x \in Bits, NEW r, r = [m EXCEPT !.meta = x]
  PROVE  /\ r \in MemT /\ Alike(m, r) /\ r.lists = m.lists /\ r.set = m.set
         /\ r.layout = m.layout /\ r.windows = m.windows
<1>1. r = [plugins |-> m.plugins, lists |-> m.lists, set |-> m.set, layout |-> m.layout, windows |-> m.windows,
           var |-> m.var, session |-> m.session, roster |-> m.roster, meta |-> x]
  BY DEF MemT
<1> QED BY <1>1, MemFacts DEF MemT, Alike

LEMMA VarFacts ==
  ASSUME NEW m \in MemT, NEW v \in [Plugins -> Bits], NEW r, r = [m EXCEPT !.var = v]
  PROVE  /\ r \in MemT /\ r.plugins = m.plugins /\ r.session = m.session /\ r.roster = m.roster
         /\ r.var = v
<1>1. r = [plugins |-> m.plugins, lists |-> m.lists, set |-> m.set, layout |-> m.layout, windows |-> m.windows,
           var |-> v, session |-> m.session, roster |-> m.roster, meta |-> m.meta]
  BY DEF MemT
<1> QED BY <1>1, MemFacts DEF MemT

WithSessions(m, v, w) == [m EXCEPT !.session = v, !.roster = w]

LEMMA SessionFacts ==
  ASSUME NEW m \in MemT, NEW v \in [Sessions -> Marks], NEW w \in [Sessions -> Bits], NEW r,
         r = WithSessions(m, v, w)
  PROVE  /\ r \in MemT /\ r.plugins = m.plugins /\ r.var = m.var
         /\ r.lists = m.lists /\ r.set = m.set /\ r.session = v /\ r.roster = w
<1>1. r = [plugins |-> m.plugins, lists |-> m.lists, set |-> m.set, layout |-> m.layout, windows |-> m.windows,
           var |-> m.var, session |-> v, roster |-> w, meta |-> m.meta]
  BY DEF MemT, WithSessions
<1> QED BY <1>1, MemFacts DEF MemT

-----------------------------------------------------------------------------
(* Commands of the user. *)

\* The memory of a program that runs and is not about to end.
Good(m) == m \in MemT /\ Tidy(m) /\ m.plugins \cap UI # {}

LEMMA AlikeGood ==
  ASSUME NEW m, Good(m), NEW r \in MemT, Alike(m, r)
  PROVE  Good(r)
<1>1. Tidy(r)
  BY AlikeTidy DEF Good
<1> QED BY <1>1 DEF Good, Alike

\* What is left when /reload has flushed m.
LEMMA FlushedFacts ==
  ASSUME NEW m, Good(m), NEW r, r = Flushed(m)
  PROVE  /\ Good(r) /\ r.plugins = m.plugins /\ r.lists = 0 /\ r.set \in {0, m.set}
         /\ \A p \in Plugins : r.var[p] \in {0, m.var[p]}
         /\ r.session = m.session /\ r.roster = m.roster
<1>1. m \in MemT /\ Tidy(m) /\ m.plugins \cap UI # {}
  BY DEF Good
<1>2. PICK x, y, v : /\ x = 0 /\ y = IF "core" \in Defaulted THEN 0 ELSE m.set
                     /\ v = [p \in Plugins |-> IF p \in Defaulted THEN 0 ELSE m.var[p]]
  OBVIOUS
<1>3. /\ x \in Bits /\ y \in Bits /\ y \in {0, m.set} /\ v \in [Plugins -> Bits]
      /\ \A p \in Plugins : v[p] \in {0, m.var[p]}
  BY <1>1, <1>2, MemFacts DEF Bits
<1>4. r = [m EXCEPT !.lists = x, !.set = y, !.var = v]
  BY <1>2 DEF Flushed
<1>5. r = [plugins |-> m.plugins, lists |-> x, set |-> y, layout |-> m.layout, windows |-> m.windows,
           var |-> v, session |-> m.session, roster |-> m.roster, meta |-> m.meta]
  BY <1>1, <1>4 DEF MemT
<1>6. /\ r \in MemT /\ r.plugins = m.plugins /\ r.lists = 0 /\ r.set = y /\ r.var = v
      /\ r.session = m.session /\ r.roster = m.roster
  BY <1>1, <1>2, <1>3, <1>5, MemFacts DEF MemT
<1>7. Tidy(r)
  BY <1>1, <1>3, <1>6 DEF Tidy
<1> QED BY <1>1, <1>3, <1>6, <1>7 DEF Good

\* Plugins ps are loaded into m.
Loaded(m, ps, d) ==
  ReadSessions(ReadVars([m EXCEPT !.plugins = m.plugins \cup ps], ps, d), ps \cap Protocols, d)

LEMMA LoadedFacts ==
  ASSUME NEW m, Good(m), NEW d \in DiskT, NEW ps \in SUBSET Plugins, ps \cap m.plugins = {},
         NEW r, r = Loaded(m, ps, d)
  PROVE  /\ Good(r) /\ r.plugins = m.plugins \cup ps
         /\ r.lists = m.lists /\ r.set = m.set /\ r.layout = m.layout /\ r.windows = m.windows /\ r.meta = m.meta
         /\ \A p \in Plugins : r.var[p] = IF p \in ps THEN Read(0, d[ConfigOf(p)]) ELSE m.var[p]
         /\ \A s \in Sessions :
              /\ r.session[s] = IF Owner[s] \in ps THEN Line(d, s) ELSE m.session[s]
              /\ r.roster[s] = IF Owner[s] \notin ps THEN m.roster[s]
                               ELSE IF Line(d, s) = Absent THEN 0 ELSE d[Userlist(s)]
<1>1. m \in MemT /\ Tidy(m) /\ m.plugins \subseteq Plugins /\ m.plugins \cap UI # {}
  BY MemFacts DEF Good
<1>2. PICK qs : qs = m.plugins \cup ps
  OBVIOUS
<1>3. PICK m1 : m1 = [m EXCEPT !.plugins = qs]
  OBVIOUS
<1>4. PICK m2 : m2 = ReadVars(m1, ps, d)
  OBVIOUS
<1>5. r = ReadSessions(m2, ps \cap Protocols, d)
  BY <1>2, <1>3, <1>4 DEF Loaded
<1>6. /\ m1 \in MemT /\ m1.plugins = qs /\ m1.lists = m.lists /\ m1.set = m.set /\ m1.layout = m.layout
      /\ m1.windows = m.windows /\ m1.var = m.var /\ m1.session = m.session /\ m1.roster = m.roster
      /\ m1.meta = m.meta
  BY <1>1, <1>2, <1>3, WithPluginsFacts
<1>7. /\ m2 \in MemT
      /\ \A p \in Plugins : m2.var[p] = IF p \in ps THEN Read(m1.var[p], d[ConfigOf(p)]) ELSE m1.var[p]
      /\ m2.plugins = m1.plugins /\ m2.lists = m1.lists /\ m2.set = m1.set /\ m2.layout = m1.layout
      /\ m2.windows = m1.windows /\ m2.session = m1.session /\ m2.roster = m1.roster /\ m2.meta = m1.meta
  BY <1>4, <1>6, ReadVarsFacts
<1>8. /\ r \in MemT
      /\ \A s \in Sessions :
           /\ r.session[s] = IF Owner[s] \in ps \cap Protocols THEN Line(d, s) ELSE m2.session[s]
           /\ r.roster[s] = IF Owner[s] \notin ps \cap Protocols THEN m2.roster[s]
                            ELSE IF Line(d, s) = Absent THEN 0 ELSE d[Userlist(s)]
      /\ r.plugins = m2.plugins /\ r.lists = m2.lists /\ r.set = m2.set /\ r.layout = m2.layout
      /\ r.windows = m2.windows /\ r.var = m2.var /\ r.meta = m2.meta
  BY <1>5, <1>7, ReadSessionsFacts
<1>9. /\ r.plugins = m.plugins \cup ps /\ r.lists = m.lists /\ r.set = m.set /\ r.layout = m.layout
      /\ r.windows = m.windows /\ r.meta = m.meta
  BY <1>2, <1>6, <1>7, <1>8
<1>10. ASSUME NEW p \in Plugins
       PROVE  r.var[p] = IF p \in ps THEN Read(0, d[ConfigOf(p)]) ELSE m.var[p]
  <2>1. r.var[p] = IF p \in ps THEN Read(m.var[p], d[ConfigOf(p)]) ELSE m.var[p]
    BY <1>6, <1>7, <1>8
  <2>2. p \in ps => m.var[p] = 0
    BY <1>1 DEF Tidy
  <2> QED BY <2>1, <2>2
<1>11. ASSUME NEW s \in Sessions
       PROVE  /\ r.session[s] = IF Owner[s] \in ps THEN Line(d, s) ELSE m.session[s]
              /\ r.roster[s] = IF Owner[s] \notin ps THEN m.roster[s]
                               ELSE IF Line(d, s) = Absent THEN 0 ELSE d[Userlist(s)]
  <2>1. Owner[s] \in Protocols
    BY ConstantFacts
  <2> QED BY <1>6, <1>7, <1>8, <2>1
<1>12. Tidy(r)
  <2>1. ASSUME NEW p \in Plugins \ r.plugins PROVE r.var[p] = 0
    BY <1>1, <1>9, <1>10 DEF Tidy
  <2>2. ASSUME NEW s \in Sessions
        PROVE  /\ r.session[s] # Absent => Owner[s] \in r.plugins
               /\ r.session[s] = Absent => r.roster[s] = 0
    BY <1>1, <1>9, <1>11 DEF Tidy
  <2> QED BY <2>1, <2>2 DEF Tidy
<1>13. Good(r)
  BY <1>1, <1>8, <1>9, <1>12 DEF Good
<1> QED BY <1>9, <1>10, <1>11, <1>13

\* What is written at once are rosters of sessions ss.
LEMMA KeptFacts ==
  ASSUME NEW m, NEW ss \in SUBSET Sessions
  PROVE  /\ Kept(m, ss) \subseteq Rosters
         /\ \A s \in Sessions : Userlist(s) \in Kept(m, ss) => s \in ss /\ m.session[s] # Absent
         /\ \A f \in Kept(m, ss) : \E s \in Sessions : f = Userlist(s)
BY KindFacts DEF Kept, Rosters

LEMMA WriteNowFacts ==
  ASSUME disk \in DiskT, there \subseteq Files, torn \subseteq there,
         NEW m \in MemT, NEW fs \in SUBSET Files, WriteNow(m, fs)
  PROVE  /\ disk' \in DiskT /\ there \subseteq there' /\ there' \subseteq Files /\ fs \subseteq there'
         /\ torn' \subseteq torn /\ torn' \subseteq there' /\ torn' = torn \ fs /\ there' = there \cup fs
         /\ \A f \in Files : disk'[f] = IF f \in fs THEN Content(m, f) ELSE disk[f]
<1>1. disk' = [f \in Files |-> IF f \in fs THEN Content(m, f) ELSE disk[f]]
  BY DEF WriteNow
<1>2. PICK d, e : d = disk /\ e = disk'
  OBVIOUS
<1>3. e = [f \in Files |-> IF f \in fs THEN Content(m, f) ELSE d[f]]
  BY <1>1, <1>2
<1>4. e \in DiskT /\ \A f \in Files : e[f] = IF f \in fs THEN Content(m, f) ELSE d[f]
  BY <1>2, <1>3, WrittenFacts
<1> QED BY <1>2, <1>4 DEF WriteNow

\* Sessions ss go, a plugin goes.
LEMMA GoneGood ==
  ASSUME NEW m, Good(m), NEW ss, NEW r, r = Without(m, ss)
  PROVE  Good(r)
<1>1. Tidy(r)
  BY WithoutFacts DEF Good, Tidy
<1> QED BY <1>1, WithoutFacts DEF Good

LEMMA UnloadedGood ==
  ASSUME Good(mem), NEW p \in mem.plugins, p \in UI => mem.plugins \cap UI # {p},
         NEW r, r = [Without(mem, Of(p)) EXCEPT !.plugins = @ \ {p}, !.var[p] = 0]
  PROVE  Good(r)
<1>1. PICK w : w = Without(mem, Of(p))
  OBVIOUS
<1>2. /\ w \in MemT /\ w.plugins = mem.plugins /\ w.var = mem.var
      /\ \A s \in Sessions : /\ w.session[s] = IF s \in Of(p) THEN Absent ELSE mem.session[s]
                             /\ w.roster[s] = IF s \in Of(p) THEN 0 ELSE mem.roster[s]
  BY <1>1, WithoutFacts DEF Good
<1>3. p \in Plugins /\ mem.plugins \subseteq Plugins
  BY MemFacts DEF Good
<1>4. PICK n : n = [w EXCEPT !.plugins = w.plugins \ {p}]
  OBVIOUS
<1>5. /\ n \in MemT /\ n.plugins = mem.plugins \ {p} /\ n.var = w.var /\ n.session = w.session
      /\ n.roster = w.roster
  <2>1. PICK qs : qs = w.plugins \ {p}
    OBVIOUS
  <2>2. qs \in SUBSET Plugins /\ n = [w EXCEPT !.plugins = qs]
    BY <1>2, <1>3, <1>4, <2>1
  <2> QED BY <1>2, <2>1, <2>2, WithPluginsFacts
<1>6. r = [n EXCEPT !.var[p] = 0]
  BY <1>1, <1>2, <1>4 DEF MemT
<1>7. /\ r \in MemT /\ r.plugins = n.plugins /\ r.session = n.session /\ r.roster = n.roster
      /\ \A q \in Plugins : r.var[q] = IF q = p THEN 0 ELSE n.var[q]
  <2>1. PICK v : v = [n.var EXCEPT ![p] = 0]
    OBVIOUS
  <2>2. v \in [Plugins -> Bits] /\ \A q \in Plugins : v[q] = IF q = p THEN 0 ELSE n.var[q]
    BY <1>5, <2>1, MemFacts DEF Bits
  <2>3. PICK z : z = [n EXCEPT !.var = v]
    OBVIOUS
  <2>4. /\ z \in MemT /\ z.plugins = n.plugins /\ z.session = n.session /\ z.roster = n.roster
        /\ z.var = v
    BY <1>5, <2>2, <2>3, VarFacts
  <2>5. r = z
    BY <1>6, <2>1, <2>3
  <2> QED BY <2>2, <2>4, <2>5
<1>8. Tidy(r)
  <2>1. ASSUME NEW q \in Plugins \ r.plugins PROVE r.var[q] = 0
    BY <1>2, <1>5, <1>7 DEF Good, Tidy
  <2>2. ASSUME NEW s \in Sessions
        PROVE  /\ r.session[s] # Absent => Owner[s] \in r.plugins
               /\ r.session[s] = Absent => r.roster[s] = 0
    <3>1. s \in Of(p) <=> Owner[s] = p
      BY DEF Of
    <3> QED BY <1>2, <1>5, <1>7, <3>1 DEF Good, Tidy
  <2> QED BY <2>1, <2>2 DEF Tidy
<1>9. r.plugins \cap UI # {}
  BY <1>5, <1>7 DEF Good
<1> QED BY <1>7, <1>8, <1>9 DEF Good

-----------------------------------------------------------------------------
(* Types, and what a save under way is. *)

Asks  == {Everything, <<"sessions">>, << >>}
JobT  == [by : {"none", "save", "autosave", "exit"}, calls : Seq(CallNames),
          todo : Seq(StepT), failed : BOOLEAN]
LeftT == [mem : MemT, saved : Asks]

Typed ==
  /\ mem \in MemT /\ disk \in DiskT /\ there \subseteq Files /\ torn \subseteq there
  /\ changed \in BOOLEAN /\ reason \in BOOLEAN /\ running \in BOOLEAN
  /\ job \in JobT /\ left \in LeftT /\ cuts \in Nat

\* Without a process there is no save, and while the program has not begun to end there is an
\* interface; what is to be written is a series, and belongs to what is loaded.
Planned ==
  /\ ~running => job = NoJob /\ mem = Nothing
  /\ job.by = "none" => job = NoJob
  /\ running /\ job.by # "exit" => mem.plugins \cap UI # {}
  /\ Series(job.todo) /\ Opened(job.todo) \subseteq torn
  /\ \A f \in Closing(job.todo) : \E c \in CallNames : f \in Named(mem, c)

Sound == Typed /\ Tidy(mem) /\ Planned

LEMMA NoJobFacts ==
  /\ NoJob \in JobT /\ NoJob.by = "none" /\ NoJob.calls = << >> /\ NoJob.todo = << >> /\ NoJob.failed = FALSE
  /\ Series(<< >>) /\ Opened(<< >>) = {} /\ Closing(<< >>) = {}
<1>1. Series(<< >>) /\ Opened(<< >>) = {} /\ Closing(<< >>) = {}
  BY NoSteps DEF Complete, Opened
<1>2. << >> \in Seq(CallNames) /\ << >> \in Seq(StepT)
  OBVIOUS
<1>3. NoJob \in JobT
  BY <1>2 DEF NoJob, JobT
<1>4. /\ NoJob.by = "none" /\ NoJob.calls = << >> /\ NoJob.todo = << >> /\ NoJob.failed = FALSE
  BY DEF NoJob
<1> QED BY <1>1, <1>3, <1>4

LEMMA JobFacts ==
  ASSUME NEW j \in JobT
  PROVE  /\ j.by \in {"none", "save", "autosave", "exit"} /\ j.calls \in Seq(CallNames)
         /\ j.todo \in Seq(StepT) /\ j.failed \in BOOLEAN
         /\ j = [by |-> j.by, calls |-> j.calls, todo |-> j.todo, failed |-> j.failed]
BY DEF JobT

\* The save k with other steps, calls and outcome.
WithTodo(k, t)        == [k EXCEPT !.todo = t]
WithCalls(k, t, cs)   == [k EXCEPT !.todo = t, !.calls = cs]
WithFailure(k, t, x)  == [k EXCEPT !.todo = t, !.failed = x]

LEMMA WithTodoFacts ==
  ASSUME NEW k \in JobT, NEW t \in Seq(StepT), NEW j, j = WithTodo(k, t)
  PROVE  j \in JobT /\ j.by = k.by /\ j.calls = k.calls /\ j.todo = t /\ j.failed = k.failed
<1>1. j = [by |-> k.by, calls |-> k.calls, todo |-> t, failed |-> k.failed]
  BY DEF JobT, WithTodo
<1> QED BY <1>1, JobFacts DEF JobT

LEMMA WithCallsFacts ==
  ASSUME NEW k \in JobT, NEW t \in Seq(StepT), NEW cs \in Seq(CallNames), NEW j, j = WithCalls(k, t, cs)
  PROVE  j \in JobT /\ j.by = k.by /\ j.calls = cs /\ j.todo = t /\ j.failed = k.failed
<1>1. j = [by |-> k.by, calls |-> cs, todo |-> t, failed |-> k.failed]
  BY DEF JobT, WithCalls
<1> QED BY <1>1, JobFacts DEF JobT

LEMMA WithFailureFacts ==
  ASSUME NEW k \in JobT, NEW t \in Seq(StepT), NEW x \in BOOLEAN, NEW j, j = WithFailure(k, t, x)
  PROVE  j \in JobT /\ j.by = k.by /\ j.calls = k.calls /\ j.todo = t /\ j.failed = x
<1>1. j = [by |-> k.by, calls |-> k.calls, todo |-> t, failed |-> x]
  BY DEF JobT, WithFailure
<1> QED BY <1>1, JobFacts DEF JobT

LEMMA RestGood ==
  ASSUME Sound, AtRest
  PROVE  Good(mem)
<1>1. job.by # "exit"
  BY NoJobFacts DEF AtRest
<1> QED BY <1>1 DEF Sound, Typed, Planned, AtRest, Good

\* A command of the user changes no file but rosters of what is loaded.
CommandStep ==
  /\ AtRest /\ job' = job /\ running' = running /\ left' = left /\ cuts' = cuts
  /\ Good(mem') /\ changed' \in BOOLEAN /\ reason' \in BOOLEAN
  /\ disk' \in DiskT /\ there \subseteq there' /\ there' \subseteq Files
  /\ torn' \subseteq torn /\ torn' \subseteq there'
  /\ \A f \in Files : /\ disk'[f] # disk[f] => \E s \in Sessions : f = Userlist(s) /\ Owner[s] \in mem.plugins
                      /\ f \in there' /\ f \notin there => f \in Rosters
                      /\ f \notin there' => disk'[f] = disk[f]

LEMMA EditStep ==
  ASSUME Sound, NEW m, Good(m), NEW flag \in BOOLEAN, Edit(m, flag)
  PROVE  CommandStep
<1>1. /\ AtRest /\ job' = job /\ running' = running /\ left' = left /\ cuts' = cuts
      /\ mem' = m /\ changed' = (changed \/ flag) /\ reason' = reason
      /\ disk' = disk /\ there' = there /\ torn' = torn
  BY DEF Edit, Command
<1>2. changed' \in BOOLEAN
  BY <1>1, Zenon DEF Sound, Typed
<1> QED BY <1>1, <1>2 DEF CommandStep, Sound, Typed

LEMMA WriteStep ==
  ASSUME Sound, Command, job' = job, Good(mem'), changed' \in BOOLEAN, reason' = reason,
         NEW m \in MemT, NEW fs, WriteNow(m, fs), fs \subseteq Rosters,
         \A s \in Sessions : Userlist(s) \in fs => Owner[s] \in mem.plugins \/ m.roster[s] = disk[Userlist(s)]
  PROVE  CommandStep
<1>1. /\ AtRest /\ running' = running /\ left' = left /\ cuts' = cuts
  BY DEF Command
<1>2. fs \subseteq Files
  BY RosterFacts
<1>3. /\ disk' \in DiskT /\ there \subseteq there' /\ there' \subseteq Files /\ fs \subseteq there'
      /\ torn' \subseteq torn /\ torn' \subseteq there' /\ there' = there \cup fs
      /\ \A f \in Files : disk'[f] = IF f \in fs THEN Content(m, f) ELSE disk[f]
  BY <1>2, WriteNowFacts DEF Sound, Typed
<1>4. ASSUME NEW f \in Files, disk'[f] # disk[f]
      PROVE  \E s \in Sessions : f = Userlist(s) /\ Owner[s] \in mem.plugins
  <2>1. f \in fs /\ disk'[f] = Content(m, f)
    BY <1>3, <1>4
  <2>2. PICK s \in Sessions : f = Userlist(s)
    BY <2>1 DEF Rosters
  <2>3. Content(m, f) = m.roster[s]
    BY <2>2, ContentFacts
  <2> QED BY <1>4, <2>1, <2>2, <2>3
<1>5. \A f \in Files : /\ f \in there' /\ f \notin there => f \in Rosters
                       /\ f \notin there' => disk'[f] = disk[f]
  BY <1>3
<1>6. reason' \in BOOLEAN
  BY DEF Sound, Typed
<1> QED BY <1>1, <1>3, <1>4, <1>5, <1>6 DEF CommandStep

LEMMA MissingFacts ==
  ASSUME disk \in DiskT, Good(mem)
  PROVE  /\ Missing \subseteq Plugins /\ Missing \cap mem.plugins = {}
         /\ WithMissing = Loaded(mem, Missing, disk) /\ Good(WithMissing)
         /\ WithMissing.plugins = mem.plugins \cup disk[PluginsFile]
         /\ WithMissing.lists = mem.lists /\ WithMissing.set = mem.set
         /\ \A p \in Plugins : WithMissing.var[p] = IF p \in Missing THEN Read(0, disk[ConfigOf(p)]) ELSE mem.var[p]
         /\ \A s \in Sessions :
              /\ WithMissing.session[s] = IF Owner[s] \in Missing THEN Line(disk, s) ELSE mem.session[s]
              /\ WithMissing.roster[s] = IF Owner[s] \notin Missing THEN mem.roster[s]
                                         ELSE IF Line(disk, s) = Absent THEN 0 ELSE disk[Userlist(s)]
<1>1. Missing \subseteq Plugins /\ Missing \cap mem.plugins = {}
  BY DiskFacts DEF Missing
<1>2. WithMissing = Loaded(mem, Missing, disk)
  BY Zenon DEF WithMissing, Loaded
<1>3. PICK ps, m, d, r : ps = Missing /\ m = mem /\ d = disk /\ r = Loaded(m, ps, d)
  OBVIOUS
<1>4. /\ Good(r) /\ r.plugins = m.plugins \cup ps
      /\ r.lists = m.lists /\ r.set = m.set
      /\ \A p \in Plugins : r.var[p] = IF p \in ps THEN Read(0, d[ConfigOf(p)]) ELSE m.var[p]
      /\ \A s \in Sessions :
           /\ r.session[s] = IF Owner[s] \in ps THEN Line(d, s) ELSE m.session[s]
           /\ r.roster[s] = IF Owner[s] \notin ps THEN m.roster[s]
                            ELSE IF Line(d, s) = Absent THEN 0 ELSE d[Userlist(s)]
  BY <1>1, <1>3, LoadedFacts
<1>5. r = WithMissing
  BY <1>2, <1>3
<1>6. mem.plugins \cup Missing = mem.plugins \cup disk[PluginsFile]
  BY DEF Missing
<1> QED BY <1>1, <1>2, <1>3, <1>4, <1>5, <1>6

\* What /reload makes of the memory when there is a configuration file.
LEMMA ReloadFacts ==
  ASSUME Sound, Good(mem), ReloadAll
  PROVE  /\ Good(mem') /\ mem'.plugins = WithMissing.plugins
         /\ mem'.lists = disk[ConfigFile].lists
         /\ disk[ConfigFile].set # Absent => mem'.set = disk[ConfigFile].set
         /\ \A p \in Plugins : IF p \in mem'.plugins
                              THEN disk[ConfigOf(p)] # Absent => mem'.var[p] = disk[ConfigOf(p)]
                              ELSE mem'.var[p] = 0
         /\ \A s \in Sessions :
              /\ mem'.session[s] = IF Owner[s] \in mem'.plugins THEN Line(disk', s) ELSE Absent
              /\ mem'.roster[s] = IF mem'.session[s] = Absent THEN 0 ELSE disk'[Userlist(s)]
<1>1. PICK g, n : g = WithMissing /\ n = Flushed(g)
  OBVIOUS
<1>2. PICK m : m = [n EXCEPT !.meta = 0]
  OBVIOUS
<1>3. PICK rc : rc = ReadConfig(m, disk)
  OBVIOUS
<1>4. PICK core : core = ReadVars(rc, g.plugins, disk)
  OBVIOUS
<1>5. PICK read : read = ReadSessions(core, g.plugins \cap Protocols, disk')
  OBVIOUS
<1>6. mem' = read \/ mem' = [read EXCEPT !.meta = disk[Metacontacts]]
  BY <1>1, <1>2, <1>3, <1>4, <1>5, Zenon DEF ReloadAll
<1>7. disk \in DiskT /\ disk' \in DiskT
  <2>1. WriteNow(g, Kept(g, Sessions))
    BY <1>1, Zenon DEF ReloadAll
  <2>2. Kept(g, Sessions) \subseteq Files /\ g \in MemT
    BY <1>1, KeptFacts, RosterFacts, MissingFacts DEF Good, Sound, Typed
  <2>3. PICK fs : fs = Kept(g, Sessions)
    OBVIOUS
  <2>4. disk' \in DiskT
    BY <2>1, <2>2, <2>3, WriteNowFacts DEF Sound, Typed
  <2> QED BY <2>4 DEF Sound, Typed
<1>8. Good(n) /\ n \in MemT /\ n.plugins \subseteq Plugins /\ n.plugins = g.plugins
  <2>1. Good(g)
    BY <1>1, MissingFacts DEF Sound, Typed
  <2>2. Good(n) /\ n.plugins = g.plugins
    BY <1>1, <2>1, FlushedFacts
  <2> QED BY <2>2, MemFacts DEF Good
<1>9. PICK x : x = 0 /\ x \in Bits
  BY DEF Bits
<1>10. m \in MemT /\ Alike(n, m) /\ m.set = n.set
  <2>1. m = [n EXCEPT !.meta = x]
    BY <1>2, <1>9
  <2> QED BY <1>8, <1>9, <2>1, MetaFacts
<1>11. /\ rc \in MemT /\ rc.lists = disk[ConfigFile].lists /\ rc.set = Read(m.set, disk[ConfigFile].set)
       /\ rc.plugins = m.plugins /\ rc.var = m.var /\ rc.session = m.session /\ rc.roster = m.roster
  <2>1. PICK d : d = disk
    OBVIOUS
  <2> QED BY <1>3, <1>7, <1>10, <2>1, ReadConfigFacts
<1>12. /\ core \in MemT
       /\ \A p \in Plugins : core.var[p] = IF p \in n.plugins THEN Read(rc.var[p], disk[ConfigOf(p)]) ELSE rc.var[p]
       /\ core.plugins = rc.plugins /\ core.lists = rc.lists /\ core.set = rc.set
       /\ core.session = rc.session /\ core.roster = rc.roster
  <2>1. PICK d, ps : d = disk /\ ps = n.plugins
    OBVIOUS
  <2> QED BY <1>4, <1>7, <1>8, <1>11, <2>1, ReadVarsFacts
<1>13. /\ read \in MemT
       /\ \A s \in Sessions :
            /\ read.session[s] = IF Owner[s] \in n.plugins \cap Protocols THEN Line(disk', s) ELSE core.session[s]
            /\ read.roster[s] = IF Owner[s] \notin n.plugins \cap Protocols THEN core.roster[s]
                                ELSE IF Line(disk', s) = Absent THEN 0 ELSE disk'[Userlist(s)]
       /\ read.plugins = core.plugins /\ read.lists = core.lists /\ read.set = core.set
       /\ read.var = core.var
  <2>1. PICK d, ps : d = disk' /\ ps = n.plugins \cap Protocols
    OBVIOUS
  <2> QED BY <1>5, <1>7, <1>8, <1>12, <2>1, ReadSessionsFacts
<1>14. mem' \in MemT /\ Alike(read, mem') /\ mem'.lists = read.lists /\ mem'.set = read.set
  <2>1. PICK y, r : y = disk[Metacontacts] /\ r = [read EXCEPT !.meta = y]
    OBVIOUS
  <2>2. y \in Bits
    BY <1>7, <2>1, DiskFacts
  <2>3. r \in MemT /\ Alike(read, r) /\ r.lists = read.lists /\ r.set = read.set
    BY <1>13, <2>1, <2>2, MetaFacts
  <2>4. read \in MemT /\ Alike(read, read)
    BY <1>13 DEF Alike
  <2>5. mem' = read \/ mem' = r
    BY <1>6, <2>1
  <2> QED BY <2>3, <2>4, <2>5
<1>15. /\ mem'.plugins = n.plugins /\ mem'.lists = disk[ConfigFile].lists
       /\ mem'.set = Read(n.set, disk[ConfigFile].set)
  BY <1>8, <1>10, <1>11, <1>12, <1>13, <1>14 DEF Alike
<1>16. ASSUME NEW p \in Plugins
       PROVE  mem'.var[p] = IF p \in n.plugins THEN Read(n.var[p], disk[ConfigOf(p)]) ELSE 0
  <2>1. mem'.var[p] = IF p \in n.plugins THEN Read(n.var[p], disk[ConfigOf(p)]) ELSE n.var[p]
    BY <1>10, <1>11, <1>12, <1>13, <1>14 DEF Alike
  <2>2. p \notin n.plugins => n.var[p] = 0
    BY <1>8 DEF Good, Tidy
  <2> QED BY <2>1, <2>2
<1>17. ASSUME NEW s \in Sessions
       PROVE  /\ mem'.session[s] = IF Owner[s] \in n.plugins THEN Line(disk', s) ELSE Absent
              /\ mem'.roster[s] = IF mem'.session[s] = Absent THEN 0 ELSE disk'[Userlist(s)]
  <2>1. Owner[s] \in Protocols
    BY ConstantFacts
  <2>2. Owner[s] \notin n.plugins => n.session[s] = Absent /\ n.roster[s] = 0
    BY <1>8 DEF Good, Tidy
  <2>3. mem'.session[s] = read.session[s] /\ mem'.roster[s] = read.roster[s]
    BY <1>14 DEF Alike
  <2>4. core.session[s] = n.session[s] /\ core.roster[s] = n.roster[s]
    BY <1>10, <1>11, <1>12 DEF Alike
  <2>5. CASE Owner[s] \in n.plugins
    BY <1>13, <2>1, <2>3, <2>5
  <2>6. CASE Owner[s] \notin n.plugins
    BY <1>13, <2>2, <2>3, <2>4, <2>6
  <2> QED BY <2>5, <2>6
<1>18. Tidy(mem')
  <2>1. \A p \in Plugins \ mem'.plugins : mem'.var[p] = 0
    BY <1>15, <1>16
  <2>2. \A s \in Sessions : /\ mem'.session[s] # Absent => Owner[s] \in mem'.plugins
                            /\ mem'.session[s] = Absent => mem'.roster[s] = 0
    BY <1>15, <1>17
  <2> QED BY <2>1, <2>2 DEF Tidy
<1>19. Good(mem')
  BY <1>8, <1>14, <1>15, <1>18 DEF Good
<1> QED BY <1>1, <1>8, <1>15, <1>16, <1>17, <1>19, ReadTyped

LEMMA ListStep ==
  ASSUME Sound, Good(mem), ChangeList
  PROVE  CommandStep
<1>1. PICK x, m : x = Other(mem.lists) /\ m = [mem EXCEPT !.lists = x]
  OBVIOUS
<1>2. x \in Bits
  BY <1>1, OtherBit, MemFacts DEF Good
<1>3. m \in MemT /\ Alike(mem, m)
  BY <1>1, <1>2, ListsFacts DEF Good
<1>4. Good(m) /\ TRUE \in BOOLEAN
  BY <1>3, AlikeGood
<1>5. Edit(m, TRUE)
  BY <1>1, Zenon DEF ChangeList
<1> QED BY <1>4, <1>5, EditStep

LEMMA SetStep ==
  ASSUME Sound, Good(mem), NEW flag \in BOOLEAN, Set(flag)
  PROVE  CommandStep
<1>1. PICK x, m : x = Other(mem.set) /\ m = [mem EXCEPT !.set = x]
  OBVIOUS
<1>2. x \in Bits
  BY <1>1, OtherBit, MemFacts DEF Good
<1>3. m \in MemT /\ Alike(mem, m)
  BY <1>1, <1>2, SetFacts DEF Good
<1>4. Good(m)
  BY <1>3, AlikeGood
<1>5. Edit(m, flag)
  BY <1>1, Zenon DEF Set
<1> QED BY <1>4, <1>5, EditStep

LEMMA WindowsStep ==
  ASSUME Sound, Good(mem), ChangeWindows
  PROVE  CommandStep /\ Alike(mem, mem') /\ mem'.lists = mem.lists /\ mem'.set = mem.set /\ disk' = disk
         /\ there' = there /\ reason' = reason
<1>1. PICK x, m : x = Other(mem.windows) /\ m = [mem EXCEPT !.windows = x]
  OBVIOUS
<1>2. x \in Bits
  BY <1>1, OtherBit, MemFacts DEF Good
<1>3. m \in MemT /\ Alike(mem, m) /\ m.lists = mem.lists /\ m.set = mem.set
  BY <1>1, <1>2, WindowsFacts DEF Good
<1>4. Good(m) /\ FALSE \in BOOLEAN
  BY <1>3, AlikeGood
<1>5. Edit(m, FALSE)
  BY <1>1, Zenon DEF ChangeWindows
<1>6. mem' = m /\ disk' = disk /\ there' = there /\ reason' = reason
  BY <1>5 DEF Edit
<1> QED BY <1>3, <1>4, <1>5, <1>6, EditStep

LEMMA MetaStep ==
  ASSUME Sound, Good(mem), NEW flag \in BOOLEAN, ChangeMeta(flag)
  PROVE  CommandStep /\ Alike(mem, mem') /\ mem'.lists = mem.lists /\ mem'.set = mem.set /\ disk' = disk
         /\ there' = there /\ reason' = reason
<1>1. PICK x, m : x = Other(mem.meta) /\ m = [mem EXCEPT !.meta = x]
  OBVIOUS
<1>2. x \in Bits
  BY <1>1, OtherBit, MemFacts DEF Good
<1>3. m \in MemT /\ Alike(mem, m) /\ m.lists = mem.lists /\ m.set = mem.set
  BY <1>1, <1>2, MetaFacts DEF Good
<1>4. Good(m)
  BY <1>3, AlikeGood
<1>5. Edit(m, flag)
  BY <1>1, Zenon DEF ChangeMeta
<1>6. mem' = m /\ disk' = disk /\ there' = there /\ reason' = reason
  BY <1>5 DEF Edit
<1> QED BY <1>3, <1>4, <1>5, <1>6, EditStep

LEMMA VarStep ==
  ASSUME Sound, Good(mem), NEW p \in Plugins, SetVar(p)
  PROVE  CommandStep
<1>1. PICK v : v = [mem.var EXCEPT ![p] = Other(mem.var[p])]
  OBVIOUS
<1>2. PICK m : m = [mem EXCEPT !.var = v]
  OBVIOUS
<1>3. v \in [Plugins -> Bits] /\ \A q \in Plugins : q # p => v[q] = mem.var[q]
  BY <1>1, MemFacts, OtherBit DEF Good
<1>4. /\ m \in MemT /\ m.plugins = mem.plugins /\ m.session = mem.session /\ m.roster = mem.roster
      /\ m.var = v
  BY <1>2, <1>3, VarFacts DEF Good
<1>5. p \in mem.plugins
  BY DEF SetVar
<1>6. Tidy(m)
  BY <1>3, <1>4, <1>5 DEF Tidy, Good
<1>7. Good(m) /\ TRUE \in BOOLEAN
  BY <1>4, <1>6 DEF Good
<1>8. Edit(m, TRUE)
  BY <1>1, <1>2, Zenon DEF SetVar
<1> QED BY <1>7, <1>8, EditStep

\* A session that is there changes, or a session of a plugin that is loaded appears.
SessionGood(m, r) ==
  /\ Good(r) /\ r.plugins = m.plugins /\ r.var = m.var /\ r.lists = m.lists /\ r.set = m.set

Appeared(m, s, x, y) == [m EXCEPT !.session[s] = x, !.roster[s] = y]

LEMMA SessionChanges ==
  ASSUME Good(mem), NEW s \in Sessions, NEW x \in Marks, NEW y \in Bits, x # Absent,
         Owner[s] \in mem.plugins
  PROVE  \E m : m = Appeared(mem, s, x, y) /\ SessionGood(mem, m)
<1>1. PICK n, v, w : n = mem /\ v = [mem.session EXCEPT ![s] = x] /\ w = [mem.roster EXCEPT ![s] = y]
  OBVIOUS
<1>2. /\ v \in [Sessions -> Marks] /\ \A q \in Sessions : v[q] = IF q = s THEN x ELSE mem.session[q]
      /\ w \in [Sessions -> Bits] /\ \A q \in Sessions : w[q] = IF q = s THEN y ELSE mem.roster[q]
  BY <1>1, MemFacts DEF Good
<1>3. PICK m : m = WithSessions(n, v, w)
  OBVIOUS
<1>4. /\ m \in MemT /\ m.plugins = n.plugins /\ m.var = n.var /\ m.lists = n.lists /\ m.set = n.set
      /\ m.session = v /\ m.roster = w
  <2>1. n \in MemT /\ v \in [Sessions -> Marks] /\ w \in [Sessions -> Bits]
    BY <1>1, <1>2, <1>3, Zenon DEF Good
  <2>2. m = WithSessions(n, v, w)
    BY <1>3, Zenon
  <2> QED BY <2>1, <2>2, SessionFacts
<1>5. Tidy(m)
  BY <1>1, <1>2, <1>4 DEF Good, Tidy
<1>6. SessionGood(mem, m)
  BY <1>1, <1>4, <1>5 DEF Good, SessionGood
<1>7. m = Appeared(mem, s, x, y)
  BY <1>1, <1>3 DEF Good, MemT, Appeared, WithSessions
<1> QED BY <1>6, <1>7

\* The session alone, or its roster.
LEMMA SessionAlone ==
  ASSUME Good(mem), NEW s \in Sessions, NEW x \in Marks, x # Absent, Owner[s] \in mem.plugins
  PROVE  \E m : m = [mem EXCEPT !.session[s] = x] /\ SessionGood(mem, m)
<1>1. PICK n, v : n = mem /\ v = [mem.session EXCEPT ![s] = x]
  OBVIOUS
<1>2. /\ v \in [Sessions -> Marks] /\ \A q \in Sessions : v[q] = IF q = s THEN x ELSE mem.session[q]
      /\ mem.roster \in [Sessions -> Bits]
  BY <1>1, MemFacts DEF Good
<1>3. PICK m, w : w = n.roster /\ m = WithSessions(n, v, w)
  OBVIOUS
<1>4. /\ m \in MemT /\ m.plugins = n.plugins /\ m.var = n.var /\ m.lists = n.lists /\ m.set = n.set
      /\ m.session = v /\ m.roster = w
  <2>1. n \in MemT /\ v \in [Sessions -> Marks] /\ w \in [Sessions -> Bits]
    BY <1>1, <1>2, <1>3, Zenon DEF Good
  <2>2. m = WithSessions(n, v, w)
    BY <1>3, Zenon
  <2> QED BY <2>1, <2>2, SessionFacts
<1>5. Tidy(m)
  BY <1>1, <1>2, <1>3, <1>4 DEF Good, Tidy
<1>6. SessionGood(mem, m)
  BY <1>1, <1>4, <1>5 DEF Good, SessionGood
<1>7. m = [mem EXCEPT !.session[s] = x]
  BY <1>1, <1>3 DEF Good, MemT, WithSessions
<1> QED BY <1>6, <1>7

LEMMA RosterAlone ==
  ASSUME Good(mem), NEW s \in Sessions, NEW y \in Bits, mem.session[s] # Absent
  PROVE  \E m : m = [mem EXCEPT !.roster[s] = y] /\ SessionGood(mem, m)
<1>1. PICK n, w : n = mem /\ w = [mem.roster EXCEPT ![s] = y]
  OBVIOUS
<1>2. /\ w \in [Sessions -> Bits] /\ \A q \in Sessions : w[q] = IF q = s THEN y ELSE mem.roster[q]
      /\ mem.session \in [Sessions -> Marks]
  BY <1>1, MemFacts DEF Good
<1>3. PICK m, v : v = n.session /\ m = WithSessions(n, v, w)
  OBVIOUS
<1>4. /\ m \in MemT /\ m.plugins = n.plugins /\ m.var = n.var /\ m.lists = n.lists /\ m.set = n.set
      /\ m.session = v /\ m.roster = w
  <2>1. n \in MemT /\ v \in [Sessions -> Marks] /\ w \in [Sessions -> Bits]
    BY <1>1, <1>2, <1>3, Zenon DEF Good
  <2>2. m = WithSessions(n, v, w)
    BY <1>3, Zenon
  <2> QED BY <2>1, <2>2, SessionFacts
<1>5. Tidy(m)
  BY <1>1, <1>2, <1>3, <1>4 DEF Good, Tidy
<1>6. SessionGood(mem, m)
  BY <1>1, <1>4, <1>5 DEF Good, SessionGood
<1>7. m = [mem EXCEPT !.roster[s] = y]
  BY <1>1, <1>3 DEF Good, MemT, WithSessions
<1> QED BY <1>6, <1>7

LEMMA AddStep ==
  ASSUME Sound, Good(mem), NEW s \in Sessions, SessionAdd(s)
  PROVE  CommandStep
<1>1. PICK x, y : x = 0 /\ y = disk[Userlist(s)]
  OBVIOUS
<1>2. x \in Marks /\ x # Absent /\ y \in Bits /\ Owner[s] \in mem.plugins
  BY <1>1, DiskFacts DEF Marks, Absent, Sound, Typed, SessionAdd
<1>3. PICK m : m = Appeared(mem, s, x, y) /\ SessionGood(mem, m)
  BY <1>2, SessionChanges
<1>4. Edit(m, TRUE)
  BY <1>1, <1>3, Zenon DEF SessionAdd, Appeared
<1>5. Good(m) /\ TRUE \in BOOLEAN
  BY <1>3 DEF SessionGood
<1> QED BY <1>4, <1>5, EditStep

\* The value that /session --set and /away give to session s.
LEMMA OtherValue ==
  ASSUME Good(mem), NEW s \in Sessions, mem.session[s] # Absent
  PROVE  /\ Other(mem.session[s]) \in Marks /\ Other(mem.session[s]) # Absent
         /\ mem.roster[s] \in Bits /\ Other(mem.roster[s]) \in Bits /\ mem.session[s] \in Marks
         /\ Owner[s] \in mem.plugins
<1>1. mem.session[s] \in Marks /\ mem.roster[s] \in Bits
  BY MemFacts DEF Good
<1>2. Owner[s] \in mem.plugins
  BY DEF Good, Tidy
<1> QED BY <1>1, <1>2 DEF Marks, Bits, Absent, Other

LEMMA ValueStep ==
  ASSUME Sound, Good(mem), NEW s \in Sessions, SessionSet(s)
  PROVE  CommandStep
<1>1. mem.session[s] # Absent
  BY DEF SessionSet
<1>2. PICK x : x = Other(mem.session[s])
  OBVIOUS
<1>3. x \in Marks /\ x # Absent /\ Owner[s] \in mem.plugins
  BY <1>1, <1>2, OtherValue
<1>4. PICK m : m = [mem EXCEPT !.session[s] = x] /\ SessionGood(mem, m)
  BY <1>3, SessionAlone
<1>5. Edit(m, TRUE)
  BY <1>2, <1>4, Zenon DEF SessionSet
<1>6. Good(m) /\ TRUE \in BOOLEAN
  BY <1>4 DEF SessionGood
<1> QED BY <1>5, <1>6, EditStep

LEMMA StatusStep ==
  ASSUME Sound, Good(mem), NEW s \in Sessions, ChangeStatus(s)
  PROVE  /\ CommandStep /\ mem'.plugins = mem.plugins /\ mem'.var = mem.var
         /\ mem'.lists = mem.lists /\ mem'.set = mem.set /\ disk' = disk /\ there' = there /\ reason'
<1>1. mem.session[s] # Absent
  BY DEF ChangeStatus
<1>2. PICK x : x = Other(mem.session[s])
  OBVIOUS
<1>3. x \in Marks /\ x # Absent /\ Owner[s] \in mem.plugins
  BY <1>1, <1>2, OtherValue
<1>4. PICK m : m = [mem EXCEPT !.session[s] = x] /\ SessionGood(mem, m)
  BY <1>3, SessionAlone
<1>5. /\ Command /\ mem' = m /\ reason' = TRUE /\ disk' = disk /\ there' = there /\ torn' = torn
      /\ changed' = changed /\ job' = job
  BY <1>2, <1>4, Zenon DEF ChangeStatus
<1>6. Good(m) /\ m.plugins = mem.plugins /\ m.var = mem.var /\ m.lists = mem.lists /\ m.set = mem.set
  BY <1>4 DEF SessionGood
<1>7. CommandStep
  BY <1>5, <1>6 DEF CommandStep, Command, Sound, Typed
<1> QED BY <1>5, <1>6, <1>7

LEMMA RosterStep ==
  ASSUME Sound, Good(mem), NEW s \in Sessions, ChangeRoster(s)
  PROVE  CommandStep
<1>1. mem.session[s] # Absent
  BY DEF ChangeRoster
<1>2. PICK y : y = Other(mem.roster[s])
  OBVIOUS
<1>3. y \in Bits
  BY <1>1, <1>2, OtherValue
<1>4. PICK m : m = [mem EXCEPT !.roster[s] = y] /\ SessionGood(mem, m)
  BY <1>1, <1>3, RosterAlone
<1>5. Edit(m, TRUE)
  BY <1>2, <1>4, Zenon DEF ChangeRoster
<1>6. Good(m) /\ TRUE \in BOOLEAN
  BY <1>4 DEF SessionGood
<1> QED BY <1>5, <1>6, EditStep

\* Rosters that are written belong to sessions that are there.
LEMMA KeptOwners ==
  ASSUME NEW m, Tidy(m), NEW ss \in SUBSET Sessions, NEW s \in Sessions, Userlist(s) \in Kept(m, ss)
  PROVE  Owner[s] \in m.plugins
BY KeptFacts DEF Tidy

LEMMA DelStep ==
  ASSUME Sound, Good(mem), NEW s \in Sessions, SessionDel(s)
  PROVE  CommandStep
<1>1. /\ Command /\ mem' = Without(mem, {s}) /\ changed' = TRUE /\ WriteNow(mem, Kept(mem, {s}))
      /\ reason' = reason /\ job' = job
  BY DEF SessionDel
<1>2. PICK fs, m : fs = Kept(mem, {s}) /\ m = Without(mem, {s})
  OBVIOUS
<1>3. Good(m)
  BY <1>2, GoneGood
<1>4. fs \subseteq Rosters /\ \A x \in Sessions : Userlist(x) \in fs => Owner[x] \in mem.plugins
  BY <1>2, KeptFacts, KeptOwners DEF Good
<1>5. WriteNow(mem, fs) /\ mem \in MemT /\ Good(mem') /\ changed' \in BOOLEAN
  BY <1>1, <1>2, <1>3 DEF Good
<1> QED BY <1>1, <1>4, <1>5, WriteStep

LEMMA UnloadStep ==
  ASSUME Sound, Good(mem), NEW p \in Plugins, PluginUnload(p)
  PROVE  CommandStep
<1>1. /\ Command /\ mem' = [Without(mem, Of(p)) EXCEPT !.plugins = @ \ {p}, !.var[p] = 0]
      /\ changed' = TRUE /\ WriteNow(mem, Kept(mem, Of(p)))
      /\ reason' = reason /\ job' = job /\ p \in mem.plugins
      /\ p \in UI => mem.plugins \cap UI # {p}
  BY DEF PluginUnload
<1>2. PICK m : m = [Without(mem, Of(p)) EXCEPT !.plugins = @ \ {p}, !.var[p] = 0]
  OBVIOUS
<1>3. Good(m)
  BY <1>1, <1>2, UnloadedGood
<1>4. PICK fs, ss : fs = Kept(mem, ss) /\ ss = Of(p) /\ ss \subseteq Sessions
  BY OfFacts
<1>5. fs \subseteq Rosters /\ \A x \in Sessions : Userlist(x) \in fs => Owner[x] \in mem.plugins
  BY <1>4, KeptFacts, KeptOwners DEF Good
<1>6. WriteNow(mem, fs) /\ mem \in MemT /\ Good(mem') /\ changed' \in BOOLEAN
  BY <1>1, <1>2, <1>3, <1>4 DEF Good
<1> QED BY <1>1, <1>5, <1>6, WriteStep

LEMMA LoadStep ==
  ASSUME Sound, Good(mem), NEW p \in Plugins, PluginLoad(p)
  PROVE  CommandStep
<1>1. PICK ps, m : ps = {p} /\ m = Loaded(mem, ps, disk)
  OBVIOUS
<1>2. p \notin mem.plugins /\ Edit(m, TRUE)
  BY <1>1, Zenon DEF PluginLoad, Loaded
<1>3. PICK n, d : n = mem /\ d = disk
  OBVIOUS
<1>4. ps \cap n.plugins = {} /\ ps \subseteq Plugins /\ d \in DiskT /\ Good(n) /\ m = Loaded(n, ps, d)
  BY <1>1, <1>2, <1>3 DEF Sound, Typed
<1>5. Good(m) /\ TRUE \in BOOLEAN
  BY <1>4, LoadedFacts
<1> QED BY <1>2, <1>5, EditStep

LEMMA NoConfigStep ==
  ASSUME Sound, Good(mem), ReloadNoConfig
  PROVE  /\ CommandStep /\ ConfigFile \notin there /\ disk' = disk /\ there' = there /\ reason' = reason
         /\ changed' = (changed \/ Missing # {})
         /\ mem'.plugins = WithMissing.plugins /\ mem'.lists = 0 /\ mem'.set \in {0, mem.set}
         /\ \A p \in Plugins : mem'.var[p] \in {0, WithMissing.var[p]}
         /\ mem'.session = WithMissing.session /\ mem'.roster = WithMissing.roster
<1>1. PICK n, m : n = WithMissing /\ m = Flushed(n)
  OBVIOUS
<1>2. Good(n) /\ n \in MemT /\ n.set = mem.set
  BY <1>1, MissingFacts DEF Good, Sound, Typed
<1>3. /\ Good(m) /\ m.plugins = n.plugins /\ m.lists = 0 /\ m.set \in {0, n.set}
      /\ \A p \in Plugins : m.var[p] \in {0, n.var[p]}
      /\ m.session = n.session /\ m.roster = n.roster
  BY <1>1, <1>2, FlushedFacts
<1>4. m \in MemT
  BY <1>3 DEF Good
<1>5. PICK flag \in BOOLEAN : flag = (Missing # {})
  OBVIOUS
<1>6. Edit(m, flag) /\ ConfigFile \notin there
  BY <1>1, <1>5, Zenon DEF ReloadNoConfig
<1>7. mem' = m /\ disk' = disk /\ there' = there /\ reason' = reason /\ changed' = (changed \/ flag)
  BY <1>6 DEF Edit
<1> QED BY <1>1, <1>2, <1>3, <1>4, <1>5, <1>6, <1>7, EditStep

LEMMA NoPluginsStep ==
  ASSUME Sound, Good(mem), ReloadNoPlugins
  PROVE  CommandStep /\ mem' = mem /\ disk' = disk /\ there' = there /\ reason' = reason
<1>1. Edit(mem, FALSE) /\ FALSE \in BOOLEAN
  BY DEF ReloadNoPlugins
<1> QED BY <1>1, EditStep DEF Edit

LEMMA ReloadStep ==
  ASSUME Sound, Good(mem), ReloadAll
  PROVE  CommandStep
<1>1. PICK n, fs : n = WithMissing /\ fs = Kept(n, Sessions)
  OBVIOUS
<1>2. Command /\ WriteNow(n, fs) /\ reason' = reason /\ job' = job
  BY <1>1, Zenon DEF ReloadAll
<1>3. Good(n) /\ n \in MemT /\ n.plugins = mem.plugins \cup disk[PluginsFile]
  BY <1>1, MissingFacts DEF Good, Sound, Typed
<1>4. ASSUME NEW s \in Sessions, Userlist(s) \in fs
      PROVE  Owner[s] \in mem.plugins \/ n.roster[s] = disk[Userlist(s)]
  <2>1. Owner[s] \in n.plugins /\ n.session[s] # Absent
    BY <1>1, <1>3, <1>4, KeptFacts, KeptOwners DEF Good
  <2>2. CASE Owner[s] \notin mem.plugins
    <3>1. Owner[s] \in Missing
      BY <1>3, <2>1, <2>2 DEF Missing
    <3>2. /\ n.session[s] = Line(disk, s)
          /\ n.roster[s] = IF Line(disk, s) = Absent THEN 0 ELSE disk[Userlist(s)]
      BY <1>1, <3>1, MissingFacts DEF Sound, Typed
    <3> QED BY <2>1, <3>2
  <2> QED BY <2>2
<1>5. Good(mem') /\ changed' \in BOOLEAN /\ fs \subseteq Rosters
  <2>1. changed' = FALSE \/ changed' = (changed \/ Missing # {})
    BY DEF ReloadAll
  <2>2. changed' \in BOOLEAN
    BY <2>1
  <2> QED BY <1>1, <2>2, ReloadFacts, KeptFacts
<1> QED BY <1>2, <1>3, <1>4, <1>5, WriteStep

LEMMA CommandSteps ==
  ASSUME Sound, EditNext \/ Reload
  PROVE  CommandStep
<1>1. AtRest
  BY DEF EditNext, Reload, ChangeList, ChangeWindows, SetVar, SessionAdd, SessionSet, SessionDel, ChangeStatus,
         ChangeRoster, ChangeMeta, Set, PluginLoad, PluginUnload, ReloadNoPlugins, ReloadNoConfig, ReloadAll,
         Edit, Command
<1>2. Good(mem)
  BY <1>1, RestGood
<1> QED BY <1>2, ListStep, SetStep, WindowsStep, MetaStep, VarStep, AddStep, ValueStep, StatusStep, RosterStep,
           DelStep, UnloadStep, LoadStep, NoConfigStep, NoPluginsStep, ReloadStep, Zenon DEF EditNext, Reload

-----------------------------------------------------------------------------
(* Steps of a save. *)

\* Files that were cut short by an earlier end of the program.
Closed == torn \ Opened(job.todo)

LEMMA CallsFacts ==
  ASSUME Sound
  PROVE  /\ Calls \in Seq(CallNames)
         /\ Calls # << >> => Calls = job.calls /\ Head(Calls) \in CallNames /\ Tail(Calls) \in Seq(CallNames)
         /\ Calls # << >> \/ job.todo # << >> => job.by # "none"
<1>1. job.calls \in Seq(CallNames)
  BY JobFacts DEF Sound, Typed
<1>2. << >> \in Seq(CallNames)
  OBVIOUS
<1>3. Calls \in Seq(CallNames) /\ (Calls # << >> => Calls = job.calls)
  BY <1>1, <1>2 DEF Calls
<1>4. Calls # << >> => Head(Calls) \in CallNames /\ Tail(Calls) \in Seq(CallNames)
  BY <1>3, HeadTailProperties
<1>5. job.by = "none" => Calls = << >> /\ job.todo = << >>
  BY <1>3, NoJobFacts DEF Sound, Planned
<1> QED BY <1>3, <1>4, <1>5

\* Begin() of a save.
LEMMA BeginFacts ==
  ASSUME NEW by \in {"save", "autosave", "exit"}, NEW calls \in Seq(CallNames), NEW j,
         j = [by |-> by, calls |-> calls, todo |-> << >>, failed |-> FALSE]
  PROVE  j \in JobT /\ j.by = by /\ j.calls = calls /\ j.todo = << >> /\ j.failed = FALSE
<1>1. << >> \in Seq(StepT)
  OBVIOUS
<1> QED BY <1>1 DEF JobT

LEMMA AskedSeqs ==
  /\ <<"sessions", "config", "meta", "scripts">> \in Seq(CallNames)
  /\ <<"config", "sessions">> \in Seq(CallNames)
  /\ \A x \in Asks : x \in Seq(CallNames)
BY DEF CallNames, Asks, Everything

LEMMA SaveStep ==
  ASSUME Sound, Save
  PROVE  /\ Sound' /\ Closed' \subseteq Closed /\ cuts' = cuts /\ disk' = disk /\ there' = there
         /\ Good(mem) /\ Good(mem') /\ Alike(mem, mem') /\ mem'.lists = mem.lists /\ mem'.set = mem.set
         /\ running /\ running' /\ job = NoJob /\ left' = left /\ changed' = changed /\ reason' = reason
         /\ job'.by = "save" /\ job'.todo = << >> /\ job'.calls = <<"sessions", "config", "meta", "scripts">>
<1>1. /\ AtRest /\ running' = running /\ left' = left /\ cuts' = cuts /\ disk' = disk /\ there' = there
      /\ torn' = torn /\ changed' = changed /\ reason' = reason
      /\ job' = [by |-> "save", calls |-> <<"sessions", "config", "meta", "scripts">>, todo |-> << >>, failed |-> FALSE]
  BY DEF Save, Command, Begin
<1>2. PICK cs, j : cs = <<"sessions", "config", "meta", "scripts">> /\ j = job'
  OBVIOUS
<1>3. j \in JobT /\ j.by = "save" /\ j.todo = << >> /\ j.calls = cs
  BY <1>1, <1>2, AskedSeqs, BeginFacts
<1>4. PICK x, m : x = mem.windows /\ m = [mem EXCEPT !.layout = x]
  OBVIOUS
<1>5. Good(mem) /\ x \in Bits
  BY <1>1, <1>4, RestGood, MemFacts DEF Sound, Typed
<1>6. m \in MemT /\ Alike(mem, m) /\ m.lists = mem.lists /\ m.set = mem.set /\ m.meta = mem.meta
  BY <1>4, <1>5, LayoutFacts DEF Good
<1>7. Good(m)
  BY <1>5, <1>6, AlikeGood
<1>8. mem' = m
  BY <1>4, Zenon DEF Save
<1>11. running /\ job = NoJob
  BY <1>1 DEF AtRest
<1>9. job.todo = << >> /\ Closed' = Closed
  BY <1>1, <1>2, <1>3, NoJobFacts DEF AtRest, Closed
<1>10. Typed' /\ Planned' /\ Tidy(mem')
  BY <1>1, <1>2, <1>3, <1>7, <1>8, NoJobFacts DEF Sound, Typed, Planned, Good, AtRest
<1> QED BY <1>1, <1>2, <1>3, <1>5, <1>6, <1>7, <1>8, <1>9, <1>10, <1>11 DEF Sound

LEMMA AutosaveStep ==
  ASSUME Sound, Autosave
  PROVE  /\ Sound' /\ Closed' \subseteq Closed /\ cuts' = cuts /\ disk' = disk /\ there' = there
         /\ running /\ job = NoJob /\ left' = left /\ changed' /\ mem' = mem
         /\ job'.by = "autosave" /\ job'.todo = << >> /\ job'.calls = <<"config", "sessions">>
<1>1. /\ AtRest /\ running' = running /\ left' = left /\ cuts' = cuts /\ disk' = disk /\ there' = there
      /\ torn' = torn /\ changed /\ changed' = changed /\ reason' = reason /\ mem' = mem
      /\ job' = [by |-> "autosave", calls |-> <<"config", "sessions">>, todo |-> << >>, failed |-> FALSE]
  BY DEF Autosave, Begin
<1>2. PICK cs, j : cs = <<"config", "sessions">> /\ j = job'
  OBVIOUS
<1>3. j \in JobT /\ j.by = "autosave" /\ j.todo = << >> /\ j.calls = cs
  BY <1>1, <1>2, AskedSeqs, BeginFacts
<1>4. Good(mem)
  BY <1>1, RestGood
<1>5. job.todo = << >> /\ Closed' = Closed
  BY <1>1, <1>2, <1>3, NoJobFacts DEF AtRest, Closed
<1>6. Typed' /\ Planned' /\ Tidy(mem')
  BY <1>1, <1>2, <1>3, <1>4, NoJobFacts DEF Sound, Typed, Planned, Good, AtRest
<1>7. running /\ job = NoJob
  BY <1>1 DEF AtRest
<1> QED BY <1>1, <1>2, <1>3, <1>5, <1>6, <1>7 DEF Sound

\* A step of a save that leaves the memory alone.
LEMMA SavingSound ==
  ASSUME Sound, running, job.by # "none", job' \in JobT, job'.by = job.by,
         running' = running, mem' = mem, changed' = changed, reason' = reason, left' = left, cuts' = cuts,
         disk' \in DiskT, there' \subseteq Files, torn' \subseteq there',
         Series(job'.todo), Opened(job'.todo) \subseteq torn',
         \A f \in Closing(job'.todo) : \E c \in CallNames : f \in Named(mem, c)
  PROVE  Sound'
BY DEF Sound, Typed, Planned

LEMMA CallStep ==
  ASSUME Sound, Call
  PROVE  /\ Sound' /\ Closed' \subseteq Closed /\ cuts' = cuts /\ disk' = disk
         /\ running /\ UNCHANGED <<mem, there, changed, reason, running, left>>
         /\ job.by # "none" /\ job'.by = job.by /\ job'.failed = job.failed
         /\ job.calls # << >> /\ Head(job.calls) \in CallNames /\ job'.calls = Tail(job.calls)
         /\ job.todo = << >> /\ job'.todo = Steps(Head(job.calls))
         /\ Opened(job'.todo) = {} /\ Closing(job'.todo) = Named(mem, Head(job.calls))
<1>1. /\ running /\ job.todo = << >> /\ Calls # << >>
      /\ job' = [job EXCEPT !.todo = Steps(Head(Calls)), !.calls = Tail(Calls)]
      /\ mem' = mem /\ disk' = disk /\ there' = there /\ changed' = changed /\ reason' = reason
      /\ running' = running /\ left' = left /\ torn' = torn /\ cuts' = cuts
  BY DEF Call
<1>2. PICK c, t, cs, j : c = Head(Calls) /\ t = Steps(c) /\ cs = Tail(Calls) /\ j = job'
  OBVIOUS
<1>3. c \in CallNames /\ cs \in Seq(CallNames) /\ job.by # "none" /\ Calls = job.calls
  BY <1>1, <1>2, CallsFacts
<1>4. Complete(t, Named(mem, c))
  BY <1>2, <1>3, StepsComplete DEF Sound, Typed
<1>5. Series(t) /\ t \in Seq(StepT) /\ Opened(t) = {} /\ Closing(t) = Named(mem, c)
  BY <1>4 DEF Complete, Series, Opened
<1>6. job \in JobT /\ j = WithCalls(job, t, cs)
  BY <1>1, <1>2, Zenon DEF Sound, Typed, WithCalls
<1>7. j \in JobT /\ j.by = job.by /\ j.todo = t /\ j.calls = cs /\ j.failed = job.failed
  BY <1>3, <1>5, <1>6, WithCallsFacts
<1>8. Sound'
  <2>1. disk' \in DiskT /\ there' \subseteq Files /\ torn' \subseteq there'
    BY <1>1 DEF Sound, Typed
  <2>2. /\ job' \in JobT /\ job'.by = job.by /\ Series(job'.todo) /\ Opened(job'.todo) \subseteq torn'
        /\ \A f \in Closing(job'.todo) : \E d \in CallNames : f \in Named(mem, d)
    BY <1>2, <1>3, <1>5, <1>7
  <2> QED BY <1>1, <1>3, <2>1, <2>2, SavingSound
<1>9. Closed' = Closed
  BY <1>1, <1>2, <1>5, <1>7, NoJobFacts DEF Closed
<1>10. running /\ UNCHANGED <<mem, there, changed, reason, running, left>>
  BY <1>1
<1>11. /\ job'.by = job.by /\ job'.failed = job.failed /\ job'.calls = Tail(job.calls)
       /\ job.calls # << >> /\ Head(job.calls) \in CallNames /\ job'.todo = Steps(Head(job.calls))
       /\ Opened(job'.todo) = {} /\ Closing(job'.todo) = Named(mem, Head(job.calls))
  BY <1>1, <1>2, <1>3, <1>5, <1>7
<1> QED BY <1>1, <1>3, <1>8, <1>9, <1>10, <1>11

\* What is left to do after the first step.
LEMMA TailFacts ==
  ASSUME Sound, job.todo # << >>, job' = [job EXCEPT !.todo = Tail(@)]
  PROVE  /\ job' \in JobT /\ job'.by = job.by /\ job'.calls = job.calls /\ job'.failed = job.failed
         /\ job'.todo = Tail(job.todo) /\ Series(job'.todo) /\ job.by # "none"
<1>1. PICK t, j : t = Tail(job.todo) /\ j = job'
  OBVIOUS
<1>2. t \in Seq(StepT) /\ Series(t)
  BY <1>1, TailSeries DEF Sound, Planned
<1>3. job \in JobT /\ j = WithTodo(job, t)
  BY <1>1, Zenon DEF Sound, Typed, WithTodo
<1>4. j \in JobT /\ j.by = job.by /\ j.calls = job.calls /\ j.failed = job.failed /\ j.todo = t
  BY <1>2, <1>3, WithTodoFacts
<1> QED BY <1>1, <1>2, <1>4, CallsFacts

LEMMA OpenStep ==
  ASSUME Sound, NEW f \in Files, running, job.todo # << >>, Head(job.todo) = Open(f),
         disk' = [disk EXCEPT ![f] = Empty(f)], there' = there \cup {f}, torn' = torn \cup {f},
         job' = [job EXCEPT !.todo = Tail(@)],
         UNCHANGED <<mem, changed, reason, running, left, cuts>>
  PROVE  /\ Sound' /\ Closed' \subseteq Closed /\ f \in Closing(job.todo)
         /\ \A g \in Files : disk'[g] = IF g = f THEN Empty(f) ELSE disk[g]
         /\ Opened(job'.todo) = Opened(job.todo) \cup {f} /\ Closing(job'.todo) = Closing(job.todo)
         /\ f \notin Opened(job.todo)
<1>1. PICK t, r : t = job.todo /\ r = job'.todo /\ r = Tail(t)
  BY TailFacts
<1>2. /\ Closing(r) = Closing(t) /\ f \in Closing(t) /\ Opening(r) = Opening(t) \ {f} /\ f \in Opening(t)
  BY <1>1, TailSeries DEF Sound, Planned
<1>3. Opened(r) = Opened(t) \cup {f} /\ f \notin Opened(t)
  BY <1>2 DEF Opened
<1>4. disk' \in DiskT /\ \A g \in Files : disk'[g] = IF g = f THEN Empty(f) ELSE disk[g]
  <2>1. PICK d, v, e : d = disk /\ v = Empty(f) /\ e = Put(d, f, v)
    OBVIOUS
  <2>2. d \in DiskT /\ v \in Lines(f)
    BY <2>1, EmptyTyped DEF Sound, Typed
  <2>3. e \in DiskT /\ e[f] = v /\ \A g \in Files : g # f => e[g] = d[g]
    BY <2>1, <2>2, DiskExcept
  <2>4. disk' = e
    BY <2>1, Zenon DEF Put
  <2> QED BY <2>1, <2>3, <2>4
<1>5. there' \subseteq Files /\ torn' \subseteq there' /\ Opened(job'.todo) \subseteq torn'
  BY <1>1, <1>3 DEF Sound, Typed, Planned
<1>6. \A g \in Closing(job'.todo) : \E c \in CallNames : g \in Named(mem, c)
  BY <1>1, <1>2 DEF Sound, Planned
<1>7. Sound'
  BY <1>4, <1>5, <1>6, TailFacts, SavingSound
<1>8. Closed' \subseteq Closed
  BY <1>1, <1>3 DEF Closed
<1> QED BY <1>1, <1>2, <1>3, <1>4, <1>7, <1>8

LEMMA CloseStep ==
  ASSUME Sound, NEW f \in Files, running, job.todo # << >>, Head(job.todo) = Close(f),
         disk' = [disk EXCEPT ![f] = Content(mem, f)] \/ disk' = disk, torn' = torn \ {f},
         job' = [job EXCEPT !.todo = Tail(@)],
         UNCHANGED <<there, mem, changed, reason, running, left, cuts>>
  PROVE  /\ Sound' /\ Closed' \subseteq Closed /\ f \in Closing(job.todo)
         /\ \A g \in Files : g # f => disk'[g] = disk[g]
         /\ disk' # disk => disk'[f] = Content(mem, f)
         /\ Opened(job'.todo) = Opened(job.todo) \ {f} /\ Closing(job'.todo) = Closing(job.todo) \ {f}
         /\ f \in Opened(job.todo)
<1>1. PICK t, r : t = job.todo /\ r = job'.todo /\ r = Tail(t)
  BY TailFacts
<1>2. /\ Closing(r) = Closing(t) \ {f} /\ f \in Closing(t) /\ Opening(r) = Opening(t) /\ f \notin Opening(t)
  BY <1>1, TailSeries DEF Sound, Planned
<1>3. Opened(r) = Opened(t) \ {f} /\ f \in Opened(t)
  BY <1>2 DEF Opened
<1>4. /\ disk' \in DiskT /\ (\A g \in Files : g # f => disk'[g] = disk[g])
      /\ disk' # disk => disk'[f] = Content(mem, f)
  <2>1. PICK d, v, e : d = disk /\ v = Content(mem, f) /\ e = Put(d, f, v)
    OBVIOUS
  <2>2. d \in DiskT /\ v \in Lines(f)
    BY <2>1, ContentTyped DEF Sound, Typed
  <2>3. e \in DiskT /\ e[f] = v /\ \A g \in Files : g # f => e[g] = d[g]
    BY <2>1, <2>2, DiskExcept
  <2>4. disk' = e \/ disk' = d
    BY <2>1, Zenon DEF Put
  <2> QED BY <2>1, <2>2, <2>3, <2>4
<1>5. there' \subseteq Files /\ torn' \subseteq there' /\ Opened(job'.todo) \subseteq torn'
  BY <1>1, <1>3 DEF Sound, Typed, Planned
<1>6. \A g \in Closing(job'.todo) : \E c \in CallNames : g \in Named(mem, c)
  BY <1>1, <1>2 DEF Sound, Planned
<1>7. Sound'
  BY <1>4, <1>5, <1>6, TailFacts, SavingSound
<1>8. Closed' \subseteq Closed
  BY <1>1, <1>3 DEF Closed
<1> QED BY <1>1, <1>2, <1>3, <1>4, <1>7, <1>8

LEMMA FailStep ==
  ASSUME Sound, NEW f \in Files, running, job.todo # << >>, Head(job.todo) = Open(f),
         job' = [job EXCEPT !.todo = AfterFailure(f), !.failed = @ \/ f[1] # "userlist"],
         UNCHANGED <<mem, disk, there, changed, reason, running, left, torn, cuts>>
  PROVE  /\ Sound' /\ Closed' = Closed
         /\ Opened(job'.todo) = Opened(job.todo) /\ Closing(job'.todo) \subseteq Closing(job.todo)
         /\ job'.by = job.by /\ job'.calls = job.calls /\ job'.failed = (job.failed \/ f[1] # "userlist")
         /\ Opening(job'.todo) \subseteq Opening(job.todo)
         /\ f[1] \notin {"sessions", "userlist"} => job'.todo = << >>
<1>1. PICK t, r, j, x : t = job.todo /\ r = AfterFailure(f) /\ j = job' /\ x = (job.failed \/ f[1] # "userlist")
  OBVIOUS
<1>2. /\ r \in Seq(StepT) /\ Series(r) /\ Opened(r) = Opened(t) /\ Closing(r) \subseteq Closing(t)
      /\ Opening(r) \subseteq Opening(t) /\ (f[1] \notin {"sessions", "userlist"} => r = << >>)
  <2>1. Series(t) /\ t # << >> /\ Head(t) = Open(f)
    BY <1>1 DEF Sound, Planned
  <2>2. CASE f[1] \in {"sessions", "userlist"}
    <3>1. r = SubSeq(t, Min({i \in 1..Len(t) : t[i] = Close(f)}) + 1, Len(t))
      BY <1>1, <2>2, Zenon DEF AfterFailure
    <3>2. LET j0 == Min({i \in 1..Len(t) : t[i] = Close(f)})
              r0 == SubSeq(t, j0 + 1, Len(t))
          IN  /\ Series(r0) /\ Opened(r0) = Opened(t) /\ Closing(r0) \subseteq Closing(t)
              /\ Opening(r0) \subseteq Opening(t)
      BY <2>1, <2>2, FailedSeries
    <3> QED BY <2>2, <3>1, <3>2 DEF Series
  <2>3. CASE f[1] \notin {"sessions", "userlist"}
    <3>1. r = << >>
      BY <1>1, <2>3, Zenon DEF AfterFailure
    <3>2. Opened(t) = {}
      BY <2>1, <2>3, FailedSeries
    <3>3. Opening(<< >>) = {}
      BY NoSteps DEF Complete
    <3> QED BY <3>1, <3>2, <3>3, NoJobFacts DEF Series
  <2> QED BY <2>2, <2>3
<1>3. x \in BOOLEAN
  <2>1. job.failed \in BOOLEAN
    BY JobFacts DEF Sound, Typed
  <2> QED BY <1>1, Zenon
<1>4. job \in JobT /\ j = WithFailure(job, r, x)
  BY <1>1, Zenon DEF Sound, Typed, WithFailure
<1>5. j \in JobT /\ j.by = job.by /\ j.calls = job.calls /\ j.todo = r /\ j.failed = x
  BY <1>2, <1>3, <1>4, WithFailureFacts
<1>6. job.by # "none"
  BY CallsFacts
<1>7. Sound'
  <2>1. disk' \in DiskT /\ there' \subseteq Files /\ torn' \subseteq there'
    BY DEF Sound, Typed
  <2>2. /\ job' \in JobT /\ job'.by = job.by /\ Series(job'.todo) /\ Opened(job'.todo) \subseteq torn'
        /\ \A g \in Closing(job'.todo) : \E d \in CallNames : g \in Named(mem, d)
    BY <1>1, <1>2, <1>5 DEF Sound, Planned
  <2> QED BY <1>6, <2>1, <2>2, SavingSound
<1>8. Closed' = Closed
  BY <1>1, <1>2, <1>5 DEF Closed
<1> QED BY <1>1, <1>2, <1>5, <1>7, <1>8

LEMMA EndStep ==
  ASSUME Sound, SaveEnd
  PROVE  /\ Sound' /\ Closed' = Closed /\ cuts' = cuts /\ disk' = disk /\ mem' = mem /\ there' = there
         /\ running /\ left' = left /\ job.by \in {"save", "autosave"} /\ job' = NoJob
         /\ job.todo = << >> /\ Calls = << >>
         /\ changed' = (changed /\ ~Cleared) /\ reason' = (reason /\ ~Cleared)
<1>1. /\ running /\ Calls = << >> /\ job.todo = << >> /\ job.by \in {"save", "autosave"}
      /\ changed' = (changed /\ ~Cleared) /\ reason' = (reason /\ ~Cleared) /\ job' = NoJob
      /\ mem' = mem /\ disk' = disk /\ there' = there /\ running' = running /\ left' = left
      /\ torn' = torn /\ cuts' = cuts
  BY DEF SaveEnd, Done
<1>2. changed' \in BOOLEAN /\ reason' \in BOOLEAN
  BY <1>1, Zenon DEF Sound, Typed
<1>3. Typed' /\ Planned' /\ Tidy(mem')
  BY <1>1, <1>2, NoJobFacts DEF Sound, Typed, Planned
<1>4. Closed' = Closed
  BY <1>1, NoJobFacts DEF Closed
<1> QED BY <1>1, <1>3, <1>4 DEF Sound

LEMMA AnswersAsk == \A quit : Answers(quit) \subseteq Asks
BY DEF Answers, Asks

LEMMA ExitFacts ==
  ASSUME Sound, running, Exit
  PROVE  /\ mem' = AtExit([mem EXCEPT !.layout = mem.windows]) /\ mem' \in MemT /\ Tidy(mem')
         /\ disk' \in DiskT /\ \A f \in Files : f # ConfigFile => disk'[f] = disk[f]
         /\ disk'[ConfigFile].lists = disk[ConfigFile].lists /\ disk'[ConfigFile].set = disk[ConfigFile].set
         /\ ConfigFile \notin there => disk' = disk
         /\ there' = there /\ torn' = torn /\ changed' = changed /\ reason' = reason /\ running' = running
         /\ job' \in JobT /\ job'.by = "exit" /\ job'.todo = << >> /\ job'.failed = FALSE
         /\ \E quit \in SaveQuit : job'.calls \in Answers(quit)
         /\ job'.calls \in Asks
         /\ left' = IF job'.calls = << >> THEN NotSaved ELSE [mem |-> mem, saved |-> job'.calls]
<1>0. PICK quit \in SaveQuit : \E calls \in Answers(quit) :
        /\ mem' = AtExit([mem EXCEPT !.layout = mem.windows])
        /\ (disk' = IF ConfigFile \in there THEN Partly(disk) ELSE disk) \/ (ConfigFile \in there /\ disk' = disk)
        /\ job' = [by |-> "exit", calls |-> calls, todo |-> << >>, failed |-> FALSE]
        /\ left' = IF calls = << >> THEN NotSaved ELSE [mem |-> mem, saved |-> calls]
        /\ there' = there /\ torn' = torn /\ changed' = changed /\ reason' = reason /\ running' = running
  BY Zenon DEF Exit, Begin
<1>1. PICK calls \in Answers(quit) :
        /\ mem' = AtExit([mem EXCEPT !.layout = mem.windows])
        /\ (disk' = IF ConfigFile \in there THEN Partly(disk) ELSE disk) \/ (ConfigFile \in there /\ disk' = disk)
        /\ job' = [by |-> "exit", calls |-> calls, todo |-> << >>, failed |-> FALSE]
        /\ left' = IF calls = << >> THEN NotSaved ELSE [mem |-> mem, saved |-> calls]
        /\ there' = there /\ torn' = torn /\ changed' = changed /\ reason' = reason /\ running' = running
  BY <1>0
<1>2. calls \in Asks /\ calls \in Seq(CallNames)
  BY AnswersAsk, AskedSeqs
<1>3. PICK j : j = job'
  OBVIOUS
<1>4. j \in JobT /\ j.by = "exit" /\ j.calls = calls /\ j.todo = << >> /\ j.failed = FALSE
  BY <1>1, <1>2, <1>3, BeginFacts
<1>5. PICK m : m = mem
  OBVIOUS
<1>6. m \in MemT /\ Tidy(m) /\ mem' = AtExit([m EXCEPT !.layout = m.windows])
  BY <1>1, <1>5 DEF Sound, Typed
<1>7. mem' \in MemT /\ Tidy(mem')
  BY <1>6, AtExitFacts, AtExitTidy
<1>8. /\ disk' \in DiskT /\ \A f \in Files : f # ConfigFile => disk'[f] = disk[f]
      /\ disk'[ConfigFile].lists = disk[ConfigFile].lists /\ disk'[ConfigFile].set = disk[ConfigFile].set
      /\ ConfigFile \notin there => disk' = disk
  <2>1. CASE disk' = disk
    BY <2>1 DEF Sound, Typed
  <2>2. CASE disk' = Partly(disk) /\ ConfigFile \in there
    BY <2>2, PartlyFacts DEF Sound, Typed
  <2> QED BY <1>1, <2>1, <2>2
<1> QED BY <1>1, <1>2, <1>3, <1>4, <1>7, <1>8

LEMMA ExitSound ==
  ASSUME Sound, running, Exit, cuts' \in Nat
  PROVE  Sound'
<1>1. left' \in LeftT
  <2>1. NotSaved \in LeftT
    BY NothingFacts DEF NotSaved, LeftT, Asks
  <2>2. \A x \in Asks : [mem |-> mem, saved |-> x] \in LeftT
    BY DEF LeftT, Sound, Typed
  <2> QED BY <2>1, <2>2, ExitFacts
<1>2. Typed'
  BY <1>1, ExitFacts DEF Sound, Typed
<1>3. Planned'
  BY ExitFacts, NoJobFacts DEF Planned
<1> QED BY <1>2, <1>3, ExitFacts DEF Sound

LEMMA QuitStep ==
  ASSUME Sound, Quit
  PROVE  Sound' /\ Closed' = Closed /\ cuts' = cuts /\ running /\ Exit
<1>1. running /\ Exit /\ cuts' = cuts /\ job = NoJob
  BY DEF Quit, AtRest
<1>2. Sound'
  BY <1>1, ExitSound DEF Sound, Typed
<1>3. Closed' = Closed
  BY <1>1, ExitFacts, NoJobFacts DEF Closed
<1> QED BY <1>1, <1>2, <1>3

LEMMA SignalStep ==
  ASSUME Sound, Signal
  PROVE  Sound' /\ Closed' \subseteq torn /\ cuts' = cuts + 1 /\ running /\ Exit
<1>1. running /\ Exit /\ cuts' = cuts + 1
  BY DEF Signal
<1>2. cuts' \in Nat
  BY <1>1 DEF Sound, Typed
<1>3. Sound'
  BY <1>1, <1>2, ExitSound
<1>4. Closed' \subseteq torn
  BY <1>1, ExitFacts DEF Closed
<1> QED BY <1>1, <1>3, <1>4

\* What is left when the process is gone.
LEMMA GoneSound ==
  ASSUME Sound, Gone, disk' \in DiskT, there' \subseteq Files, torn' \subseteq there', left' \in LeftT, cuts' \in Nat
  PROVE  Sound' /\ Closed' = torn'
<1>1. mem' = Nothing /\ running' = FALSE /\ job' = NoJob /\ changed' = FALSE /\ reason' = FALSE
  BY DEF Gone
<1>2. Tidy(Nothing) /\ Nothing \in MemT
  BY NothingFacts DEF Tidy
<1>3. Sound'
  BY <1>1, <1>2, NoJobFacts DEF Sound, Typed, Planned
<1>4. Closed' = torn'
  BY <1>1, NoJobFacts DEF Closed
<1> QED BY <1>3, <1>4

LEMMA ExitEndStep ==
  ASSUME Sound, ExitEnd
  PROVE  /\ Sound' /\ Closed' \subseteq Closed /\ cuts' = cuts
         /\ \A f \in Files : disk'[f] # disk[f] =>
              f = ScriptsVar \/ \E s \in Sessions : f = Userlist(s) /\ Owner[s] \in mem.plugins
         /\ \A f \in Files : f \in Kept(mem, Sessions) \cup {ScriptsVar} => disk'[f] = Content(mem, f)
         /\ \A f \in Files : f \notin Kept(mem, Sessions) \cup {ScriptsVar} => disk'[f] = disk[f]
<1>1. PICK fs : fs = Kept(mem, Sessions) \cup {ScriptsVar}
  OBVIOUS
<1>2. /\ WriteNow(mem, fs) /\ Gone /\ left' = (IF job.failed THEN NotSaved ELSE left) /\ cuts' = cuts
      /\ job.todo = << >>
  BY <1>1, Zenon DEF ExitEnd, Done
<1>3. fs \subseteq Files
  BY <1>1, KeptFacts, RosterFacts, FileFacts
<1>4. /\ disk' \in DiskT /\ there' \subseteq Files /\ torn' \subseteq torn /\ torn' \subseteq there'
      /\ \A f \in Files : disk'[f] = IF f \in fs THEN Content(mem, f) ELSE disk[f]
  BY <1>2, <1>3, WriteNowFacts DEF Sound, Typed
<1>5. left' \in LeftT /\ cuts' \in Nat
  <2>1. NotSaved \in LeftT
    BY NothingFacts DEF NotSaved, LeftT, Asks
  <2> QED BY <1>2, <2>1 DEF Sound, Typed
<1>6. Sound' /\ Closed' = torn'
  BY <1>2, <1>4, <1>5, GoneSound
<1>7. Closed' \subseteq Closed
  BY <1>2, <1>4, <1>6, NoJobFacts DEF Closed
<1>8. ASSUME NEW f \in Files, disk'[f] # disk[f]
      PROVE  f = ScriptsVar \/ \E s \in Sessions : f = Userlist(s) /\ Owner[s] \in mem.plugins
  <2>1. f \in Kept(mem, Sessions) \/ f = ScriptsVar
    BY <1>1, <1>4, <1>8
  <2>2. ASSUME f \in Kept(mem, Sessions) PROVE \E s \in Sessions : f = Userlist(s) /\ Owner[s] \in mem.plugins
    BY <2>2, KeptFacts, KeptOwners DEF Sound
  <2> QED BY <2>1, <2>2
<1> QED BY <1>1, <1>2, <1>4, <1>6, <1>7, <1>8

LEMMA CrashStep ==
  ASSUME Sound, Crash
  PROVE  /\ Sound' /\ disk' = disk /\ there' = there /\ torn' = torn /\ left' = NotSaved
         /\ cuts' \in Nat /\ cuts' = (IF job = NoJob THEN cuts ELSE cuts + 1) /\ Closed' = torn
<1>1. /\ Gone /\ left' = NotSaved /\ disk' = disk /\ there' = there /\ torn' = torn
      /\ cuts' = (IF job = NoJob THEN cuts ELSE cuts + 1)
  BY DEF Crash
<1>2. cuts' \in Nat
  BY <1>1 DEF Sound, Typed
<1>3. NotSaved \in LeftT
  BY NothingFacts DEF NotSaved, LeftT, Asks
<1>4. Sound' /\ Closed' = torn'
  BY <1>1, <1>2, <1>3, GoneSound DEF Sound, Typed
<1> QED BY <1>1, <1>2, <1>4

LEMMA StartStep ==
  ASSUME Sound, NEW front \in Frontends, Start(front)
  PROVE  /\ Sound' /\ Closed' = Closed /\ cuts' = cuts /\ disk' = disk /\ there' = there
         /\ mem' = Started(front) /\ ~running /\ running' /\ job = NoJob /\ job' = NoJob
         /\ left' = NotSaved /\ changed' = (front # {}) /\ reason' = reason /\ front \subseteq UI
<1>1. /\ ~running /\ mem' = Started(front) /\ running' = TRUE /\ changed' = (front # {}) /\ left' = NotSaved
      /\ disk' = disk /\ there' = there /\ reason' = reason /\ job' = job /\ torn' = torn /\ cuts' = cuts
  BY DEF Start
<1>2. front \in SUBSET UI
  BY ConstantFacts
<1>3. job = NoJob
  BY <1>1 DEF Sound, Planned
<1>4. Started(front) \in MemT /\ Tidy(Started(front)) /\ Started(front).plugins \cap UI # {}
  BY <1>2, StartedTidy DEF Sound, Typed
<1>5. NotSaved \in LeftT
  BY NothingFacts DEF NotSaved, LeftT, Asks
<1>6. Typed' /\ Planned' /\ Tidy(mem')
  BY <1>1, <1>3, <1>4, <1>5, NoJobFacts DEF Sound, Typed, Planned
<1>7. Closed' = Closed
  BY <1>1 DEF Closed
<1> QED BY <1>1, <1>2, <1>3, <1>6, <1>7 DEF Sound

LEMMA CommandSound ==
  ASSUME Sound, CommandStep
  PROVE  Sound' /\ Closed' \subseteq Closed /\ cuts' = cuts
<1>1. job = NoJob /\ job' = NoJob /\ job.todo = << >> /\ torn' \subseteq torn /\ cuts' = cuts
  BY NoJobFacts DEF CommandStep, AtRest
<1>2. Typed' /\ Planned' /\ Tidy(mem')
  BY <1>1, NoJobFacts DEF Sound, Typed, Planned, CommandStep, AtRest, Good
<1>3. Closed' \subseteq Closed
  BY <1>1 DEF Closed
<1> QED BY <1>1, <1>2, <1>3 DEF Sound

-----------------------------------------------------------------------------
(* Every step. *)

First ==
  [Nothing EXCEPT !.plugins = DefaultProtocols \cup {DefaultUI},
                  !.session = [s \in Sessions |-> IF Owner[s] \in DefaultProtocols THEN 0 ELSE Absent]]

LEMMA FirstFacts == First \in MemT
<1>1. PICK ps, v : /\ ps = DefaultProtocols \cup {DefaultUI}
                   /\ v = [s \in Sessions |-> IF Owner[s] \in DefaultProtocols THEN 0 ELSE Absent]
  OBVIOUS
<1>2. ps \in SUBSET Plugins /\ v \in [Sessions -> Marks]
  BY <1>1, ConstantFacts DEF Marks
<1>3. First = [Nothing EXCEPT !.plugins = ps, !.session = v]
  BY <1>1 DEF First
<1>4. First = [plugins |-> ps, lists |-> 0, set |-> 0, layout |-> 0, windows |-> 0,
               var |-> [p \in Plugins |-> 0], session |-> v, roster |-> [s \in Sessions |-> 0], meta |-> 0]
  BY <1>3 DEF Nothing
<1> QED BY <1>2, <1>4 DEF MemT, Bits

LEMMA InitFiles ==
  ASSUME NEW i \in InitialFiles
  PROVE  /\ i.there \subseteq Files /\ i.disk \in DiskT
         /\ \A f \in Files : f \notin i.there => i.disk[f] = Empty(f)
         /\ i.there # {} => ConfigFile \in i.there
<1>1. PICK fs : fs = {f \in Files : \/ f[2] \in First.plugins \cup {"core"}
                                    \/ f[2] \in UNION {Of(p) : p \in DefaultProtocols}}
  OBVIOUS
<1>2. PICK d, e : /\ d = [f \in Files |-> Empty(f)]
                  /\ e = [f \in Files |-> IF f \in fs THEN Content(First, f) ELSE Empty(f)]
  OBVIOUS
<1>3. i = [there |-> {}, disk |-> d] \/ i = [there |-> fs, disk |-> e]
  BY <1>1, <1>2, Zenon DEF InitialFiles, First
<1>4. d \in DiskT /\ \A f \in Files : d[f] = Empty(f)
  <2>1. \A f \in Files : d[f] = Empty(f) /\ d[f] \in Lines(f)
    BY <1>2, EmptyTyped
  <2> QED BY <1>2, <2>1, DiskIs
<1>5. e \in DiskT /\ \A f \in Files : f \notin fs => e[f] = Empty(f)
  <2>1. \A f \in Files : e[f] = IF f \in fs THEN Content(First, f) ELSE Empty(f)
    BY <1>2
  <2>2. \A f \in Files : e[f] \in Lines(f)
    BY <2>1, EmptyTyped, ContentTyped, FirstFacts
  <2>3. e = [f \in Files |-> e[f]]
    BY <1>2
  <2> QED BY <2>1, <2>2, <2>3, DiskIs
<1>6. fs \subseteq Files /\ ConfigFile \in fs
  <2>1. ConfigFile[2] = "core" /\ ConfigFile \in Files
    BY FileFacts DEF ConfigFile
  <2> QED BY <1>1, <2>1
<1>7. CASE i = [there |-> {}, disk |-> d]
  BY <1>4, <1>7
<1>8. CASE i = [there |-> fs, disk |-> e]
  BY <1>5, <1>6, <1>8
<1> QED BY <1>3, <1>7, <1>8

LEMMA InitSound ==
  ASSUME Init
  PROVE  Sound /\ Closed = {} /\ cuts = 0
<1>1. PICK i \in InitialFiles : disk = i.disk /\ there = i.there
  BY DEF Init
<1>2. disk \in DiskT /\ there \subseteq Files
  BY <1>1, InitFiles
<1>3. /\ mem = Nothing /\ changed = FALSE /\ reason = FALSE /\ running = FALSE /\ job = NoJob
      /\ left = NotSaved /\ torn = {} /\ cuts = 0
  BY DEF Init
<1>4. Tidy(Nothing) /\ Nothing \in MemT
  BY NothingFacts DEF Tidy
<1>5. NotSaved \in LeftT
  BY <1>4 DEF NotSaved, LeftT, Asks
<1>6. Typed /\ Planned
  BY <1>2, <1>3, <1>4, <1>5, NoJobFacts DEF Typed, Planned
<1> QED BY <1>3, <1>4, <1>6 DEF Sound, Closed

LEMMA OpenFileStep ==
  ASSUME Sound, OpenFile
  PROVE  /\ Sound' /\ Closed' \subseteq Closed /\ running /\ cuts' = cuts
         /\ UNCHANGED <<mem, changed, reason, running, left>>
         /\ job.by # "none" /\ job'.by = job.by /\ job'.calls = job.calls /\ job'.failed = job.failed
         /\ \E f \in Files :
              /\ f \in Closing(job.todo) /\ f \notin Opened(job.todo) /\ there' = there \cup {f} /\ torn' = torn \cup {f}
              /\ \A g \in Files : disk'[g] = IF g = f THEN Empty(f) ELSE disk[g]
              /\ Opened(job'.todo) = Opened(job.todo) \cup {f} /\ Closing(job'.todo) = Closing(job.todo)
<1>1. PICK f \in Files :
        /\ running /\ job.todo # << >> /\ Head(job.todo) = Open(f)
        /\ disk' = [disk EXCEPT ![f] = Empty(f)] /\ there' = there \cup {f} /\ torn' = torn \cup {f}
        /\ job' = [job EXCEPT !.todo = Tail(@)]
        /\ UNCHANGED <<mem, changed, reason, running, left, cuts>>
  BY Zenon DEF OpenFile
<1>2. /\ job.by # "none" /\ job'.by = job.by /\ job'.calls = job.calls /\ job'.failed = job.failed
  BY <1>1, TailFacts
<1>3. /\ Sound' /\ Closed' \subseteq Closed /\ f \in Closing(job.todo)
      /\ \A g \in Files : disk'[g] = IF g = f THEN Empty(f) ELSE disk[g]
      /\ Opened(job'.todo) = Opened(job.todo) \cup {f} /\ Closing(job'.todo) = Closing(job.todo)
      /\ f \notin Opened(job.todo)
  BY <1>1, OpenStep
<1>4. running /\ cuts' = cuts /\ there' = there \cup {f} /\ torn' = torn \cup {f} /\ UNCHANGED <<mem, changed, reason, running, left>>
  BY <1>1
<1> QED BY <1>2, <1>3, <1>4

LEMMA OpenFailsStep ==
  ASSUME Sound, OpenFails
  PROVE  /\ Sound' /\ Closed' \subseteq Closed /\ running /\ cuts' = cuts
         /\ UNCHANGED <<mem, disk, there, changed, reason, running, left>>
         /\ job.by # "none" /\ job'.by = job.by /\ job'.calls = job.calls
         /\ Opened(job'.todo) = Opened(job.todo) /\ Closing(job'.todo) \subseteq Closing(job.todo)
         /\ \E f \in Files : f[1] \in MayFail /\ job'.failed = (job.failed \/ f[1] # "userlist")
<1>1. PICK f \in Files :
        /\ running /\ job.todo # << >> /\ Head(job.todo) = Open(f) /\ f[1] \in MayFail
        /\ job' = [job EXCEPT !.todo = AfterFailure(f), !.failed = @ \/ f[1] # "userlist"]
        /\ UNCHANGED <<mem, disk, there, changed, reason, running, left, torn, cuts>>
  BY Zenon DEF OpenFails
<1>2. /\ Sound' /\ Closed' = Closed
      /\ Opened(job'.todo) = Opened(job.todo) /\ Closing(job'.todo) \subseteq Closing(job.todo)
      /\ job'.by = job.by /\ job'.calls = job.calls /\ job'.failed = (job.failed \/ f[1] # "userlist")
  BY <1>1, FailStep
<1>3. job.by # "none"
  BY <1>1, CallsFacts
<1>4. /\ running /\ cuts' = cuts /\ f[1] \in MayFail
      /\ UNCHANGED <<mem, disk, there, changed, reason, running, left>>
  BY <1>1
<1> QED BY <1>2, <1>3, <1>4

LEMMA CloseFileStep ==
  ASSUME Sound, CloseFile
  PROVE  /\ Sound' /\ Closed' \subseteq Closed /\ running /\ cuts' = cuts
         /\ UNCHANGED <<mem, there, changed, reason, running, left>>
         /\ job.by # "none" /\ job'.by = job.by /\ job'.calls = job.calls /\ job'.failed = job.failed
         /\ \E f \in Files :
              /\ f \in Closing(job.todo) /\ f \in Opened(job.todo) /\ torn' = torn \ {f}
              /\ \A g \in Files : g # f => disk'[g] = disk[g]
              /\ DiskFull \/ disk'[f] = Content(mem, f)
              /\ Opened(job'.todo) = Opened(job.todo) \ {f} /\ Closing(job'.todo) = Closing(job.todo) \ {f}
<1>1. PICK f \in Files :
        /\ running /\ job.todo # << >> /\ Head(job.todo) = Close(f)
        /\ disk' = [disk EXCEPT ![f] = Content(mem, f)] \/ (DiskFull /\ disk' = disk)
        /\ torn' = torn \ {f} /\ job' = [job EXCEPT !.todo = Tail(@)]
        /\ UNCHANGED <<there, mem, changed, reason, running, left, cuts>>
  BY Zenon DEF CloseFile
<1>2. /\ job.by # "none" /\ job'.by = job.by /\ job'.calls = job.calls /\ job'.failed = job.failed
  BY <1>1, TailFacts
<1>3. /\ Sound' /\ Closed' \subseteq Closed /\ f \in Closing(job.todo)
      /\ \A g \in Files : g # f => disk'[g] = disk[g]
      /\ Opened(job'.todo) = Opened(job.todo) \ {f} /\ Closing(job'.todo) = Closing(job.todo) \ {f}
      /\ f \in Opened(job.todo)
  BY <1>1, CloseStep
<1>4. disk' = [disk EXCEPT ![f] = Content(mem, f)] => disk'[f] = Content(mem, f)
  BY DEF Sound, Typed, DiskT
<1>5. running /\ cuts' = cuts /\ torn' = torn \ {f} /\ UNCHANGED <<mem, there, changed, reason, running, left>>
  BY <1>1
<1>6. DiskFull \/ disk'[f] = Content(mem, f)
  BY <1>1, <1>4
<1> QED BY <1>2, <1>3, <1>5, <1>6

LEMMA NextCases ==
  ASSUME Next
  PROVE  \/ EditNext \/ Reload \/ Save \/ Autosave \/ Call \/ OpenFile \/ OpenFails \/ CloseFile
         \/ SaveEnd \/ ExitEnd \/ Quit \/ Signal \/ Crash \/ \E front \in Frontends : Start(front)
BY Zenon DEF Next, Saving

LEMMA NextSound ==
  ASSUME Sound, [Next]_vars
  PROVE  Sound'
<1>1. CASE EditNext \/ Reload
  BY <1>1, CommandSteps, CommandSound
<1>2. CASE Save
  BY <1>2, SaveStep
<1>3. CASE Autosave
  BY <1>3, AutosaveStep
<1>4. CASE Call
  BY <1>4, CallStep
<1>5. CASE OpenFile
  BY <1>5, OpenFileStep
<1>6. CASE OpenFails
  BY <1>6, OpenFailsStep
<1>7. CASE CloseFile
  BY <1>7, CloseFileStep
<1>8. CASE SaveEnd
  BY <1>8, EndStep
<1>9. CASE ExitEnd
  BY <1>9, ExitEndStep
<1>10. CASE Quit
  BY <1>10, QuitStep
<1>11. CASE Signal
  BY <1>11, SignalStep
<1>12. CASE Crash
  BY <1>12, CrashStep
<1>13. CASE \E front \in Frontends : Start(front)
  BY <1>13, StartStep
<1>14. CASE UNCHANGED vars
  BY <1>14 DEF vars, Sound, Typed, Planned
<1> QED BY <1>1, <1>2, <1>3, <1>4, <1>5, <1>6, <1>7, <1>8, <1>9, <1>10, <1>11, <1>12, <1>13, <1>14, NextCases

\* What is known of every state, for all that may go wrong: the types; what is in memory belongs to
\* what is loaded; a save under way writes each file once, what is loaded and nothing else
\* (configfile.c:481-552, sessions.c:900-967).
THEOREM StateSound == Spec => []Sound
<1>1. Init => Sound
  BY InitSound
<1>2. Sound /\ [Next]_vars => Sound'
  BY NextSound
<1> QED BY <1>1, <1>2, PTL DEF Spec

-----------------------------------------------------------------------------
(* A save that is cut short. *)

\* Of the files that are open one is a roster, one is not.
LEMMA OpenedOnes ==
  ASSUME NEW t, Series(t)
  PROVE  /\ \E a : Opened(t) \ Rosters \subseteq {a}
         /\ \E b : Opened(t) \cap Rosters \subseteq {b}
<1>1. ASSUME NEW f \in Opened(t), NEW g \in Opened(t), f # g
      PROVE  (f \in Rosters) # (g \in Rosters)
  <2>1. /\ f \in Files /\ g \in Files /\ f \notin Opening(t) /\ g \notin Opening(t) /\ Len(t) \in Nat
        /\ \E j \in 1..Len(t) : t[j] = Close(f)
        /\ \E k \in 1..Len(t) : t[k] = Close(g)
    BY SeriesFacts DEF Opened, Closing
  <2>2. PICK j \in 1..Len(t) : t[j] = Close(f)
    BY <2>1
  <2>3. PICK k \in 1..Len(t) : t[k] = Close(g)
    BY <2>1
  <2>4. j # k
    BY <1>1, <2>2, <2>3, StepFacts
  <2>5. CASE j < k
    <3>1. j \in 1 .. k - 1 /\ Within(t, g, 1, k - 1)
      BY <2>1, <2>3, <2>5 DEF Series
    <3>2. g[1] = "sessions" /\ Close(f) \in RosterSteps
      BY <2>2, <3>1 DEF Within
    <3>3. f[1] = "userlist"
      BY <3>2, StepFacts
    <3> QED BY <2>1, <3>2, <3>3, RosterFacts
  <2>6. CASE k < j
    <3>1. k \in 1 .. j - 1 /\ Within(t, f, 1, j - 1)
      BY <2>1, <2>2, <2>6 DEF Series
    <3>2. f[1] = "sessions" /\ Close(g) \in RosterSteps
      BY <2>3, <3>1 DEF Within
    <3>3. g[1] = "userlist"
      BY <3>2, StepFacts
    <3> QED BY <2>1, <3>2, <3>3, RosterFacts
  <2> QED BY <2>1, <2>4, <2>5, <2>6
<1>2. \E a : Opened(t) \ Rosters \subseteq {a}
  BY <1>1
<1>3. \E b : Opened(t) \cap Rosters \subseteq {b}
  BY <1>1
<1> QED BY <1>2, <1>3

LEMMA OneMore ==
  ASSUME NEW S, NEW T, NEW U, NEW n \in Nat, IsFiniteSet(S), Cardinality(S) <= n,
         T \subseteq S \cup U, \E a : U \subseteq {a}
  PROVE  IsFiniteSet(T) /\ Cardinality(T) <= n + 1
<1>1. PICK a : U \subseteq {a}
  OBVIOUS
<1>2. T \in SUBSET (S \cup {a})
  BY <1>1
<1>3. IsFiniteSet(S \cup {a}) /\ Cardinality(S \cup {a}) <= n + 1 /\ Cardinality(S \cup {a}) \in Nat
  <2>1. Cardinality(S) \in Nat
    BY FS_CardinalityType
  <2> QED BY <2>1, FS_AddElement
<1>4. IsFiniteSet(T) /\ Cardinality(T) <= Cardinality(S \cup {a}) /\ Cardinality(T) \in Nat
  BY <1>2, <1>3, FS_Subset, FS_CardinalityType
<1> QED BY <1>3, <1>4

\* There are not more files left open by earlier runs than saves that were cut short.
Few ==
  /\ IsFiniteSet(Closed)
  /\ Cardinality(Closed \ Rosters) <= cuts
  /\ Cardinality(Closed \cap Rosters) <= cuts

LEMMA FewKept ==
  ASSUME Sound, Few, Closed' \subseteq Closed, cuts' = cuts
  PROVE  Few'
<1>1. PICK S, T : S = Closed /\ T = Closed'
  OBVIOUS
<1>2. \A X, Y : IsFiniteSet(X) /\ Y \subseteq X =>
           IsFiniteSet(Y) /\ Cardinality(Y) <= Cardinality(X) /\ Cardinality(Y) \in Nat /\ Cardinality(X) \in Nat
  BY FS_Subset, FS_CardinalityType
<1>3. IsFiniteSet(S) /\ T \subseteq S /\ cuts \in Nat
  BY <1>1 DEF Few, Sound, Typed
<1>4. IsFiniteSet(S \ Rosters) /\ IsFiniteSet(S \cap Rosters)
  BY <1>2, <1>3
<1>5. T \ Rosters \subseteq S \ Rosters /\ T \cap Rosters \subseteq S \cap Rosters
  BY <1>3
<1>6. /\ Cardinality(T \ Rosters) <= Cardinality(S \ Rosters)
      /\ Cardinality(T \ Rosters) \in Nat /\ Cardinality(S \ Rosters) \in Nat
  BY <1>2, <1>4, <1>5
<1>7. /\ Cardinality(T \cap Rosters) <= Cardinality(S \cap Rosters)
      /\ Cardinality(T \cap Rosters) \in Nat /\ Cardinality(S \cap Rosters) \in Nat
  BY <1>2, <1>4, <1>5
<1>8. IsFiniteSet(T)
  BY <1>2, <1>3
<1>9. Cardinality(T \ Rosters) <= cuts /\ Cardinality(T \cap Rosters) <= cuts
  BY <1>1, <1>3, <1>6, <1>7 DEF Few
<1> QED BY <1>1, <1>8, <1>9 DEF Few

LEMMA FewMore ==
  ASSUME Sound, Few, NEW T, T \subseteq torn
  PROVE  /\ IsFiniteSet(T)
         /\ Cardinality(T \ Rosters) <= cuts + 1 /\ Cardinality(T \cap Rosters) <= cuts + 1
<1>1. PICK S, t : S = Closed /\ t = job.todo
  OBVIOUS
<1>2. IsFiniteSet(S) /\ T \subseteq S \cup Opened(t) /\ cuts \in Nat /\ Series(t)
  BY <1>1 DEF Few, Closed, Sound, Typed, Planned
<1>3. /\ \E a : Opened(t) \ Rosters \subseteq {a}
      /\ \E b : Opened(t) \cap Rosters \subseteq {b}
  BY <1>2, OpenedOnes
<1>4. IsFiniteSet(S \ Rosters) /\ IsFiniteSet(S \cap Rosters)
  BY <1>2, FS_Subset
<1>5. Cardinality(S \ Rosters) <= cuts /\ Cardinality(S \cap Rosters) <= cuts
  BY <1>1 DEF Few
<1>6. /\ T \ Rosters \subseteq (S \ Rosters) \cup (Opened(t) \ Rosters)
      /\ T \cap Rosters \subseteq (S \cap Rosters) \cup (Opened(t) \cap Rosters)
  BY <1>2
<1>7. IsFiniteSet(T \ Rosters) /\ Cardinality(T \ Rosters) <= cuts + 1
  BY <1>2, <1>3, <1>4, <1>5, <1>6, OneMore
<1>8. IsFiniteSet(T \cap Rosters) /\ Cardinality(T \cap Rosters) <= cuts + 1
  BY <1>2, <1>3, <1>4, <1>5, <1>6, OneMore
<1>9. IsFiniteSet(T)
  <2>1. T = (T \ Rosters) \cup (T \cap Rosters)
    OBVIOUS
  <2> QED BY <1>7, <1>8, <2>1, FS_Union
<1> QED BY <1>7, <1>8, <1>9

LEMMA NextFew ==
  ASSUME Sound, Few, [Next]_vars
  PROVE  Few'
<1>1. CASE Closed' \subseteq Closed /\ cuts' = cuts
  BY <1>1, FewKept
<1>2. CASE Closed' \subseteq torn /\ cuts' = cuts + 1
  <2>1. PICK T : T = Closed'
    OBVIOUS
  <2>2. /\ IsFiniteSet(T)
        /\ Cardinality(T \ Rosters) <= cuts + 1 /\ Cardinality(T \cap Rosters) <= cuts + 1
    BY <1>2, <2>1, FewMore
  <2> QED BY <1>2, <2>1, <2>2 DEF Few
<1>3. CASE EditNext \/ Reload
  BY <1>1, <1>3, CommandSteps, CommandSound
<1>4. CASE Crash
  <2>1. CASE job = NoJob
    <3>1. Closed = torn
      BY <2>1, NoJobFacts DEF Closed
    <3> QED BY <1>1, <1>4, <2>1, <3>1, CrashStep
  <2>2. CASE job # NoJob
    BY <1>2, <1>4, <2>2, CrashStep
  <2> QED BY <2>1, <2>2
<1>5. CASE Signal
  BY <1>2, <1>5, SignalStep
<1>6. CASE UNCHANGED vars
  BY <1>1, <1>6 DEF vars, Closed
<1>7. CASE Save \/ Autosave \/ Call \/ OpenFile \/ OpenFails \/ CloseFile
  BY <1>1, <1>7, SaveStep, AutosaveStep, CallStep, OpenFileStep, OpenFailsStep, CloseFileStep
<1>8. CASE SaveEnd \/ ExitEnd \/ Quit \/ \E front \in Frontends : Start(front)
  BY <1>1, <1>8, EndStep, ExitEndStep, QuitStep, StartStep
<1> QED BY <1>3, <1>4, <1>5, <1>6, <1>7, <1>8, NextCases

LEMMA FewInit == Init => Few
<1> SUFFICES ASSUME Init PROVE Few
  OBVIOUS
<1>1. Closed = {} /\ cuts = 0
  BY InitSound
<1>2. Closed \ Rosters = {} /\ Closed \cap Rosters = {}
  BY <1>1
<1> QED BY <1>1, <1>2, FS_EmptySet DEF Few

LEMMA CutCosts ==
  ASSUME Sound, Few
  PROVE  CutCostsOne
<1>1. CASE job = NoJob
  <2>1. Closed = torn
    BY <1>1, NoJobFacts DEF Closed
  <2>2. cuts + 0 = cuts
    BY DEF Sound, Typed
  <2> QED BY <1>1, <2>1, <2>2 DEF CutCostsOne, Few, Rosters
<1>2. CASE job # NoJob
  <2>1. Cardinality(torn \ Rosters) <= cuts + 1 /\ Cardinality(torn \cap Rosters) <= cuts + 1
    BY FewMore
  <2> QED BY <1>2, <2>1 DEF CutCostsOne, Rosters
<1> QED BY <1>1, <1>2

\* CutCostsOne: however often the program is killed or stopped by a signal while it saves, whatever
\* fails, and for every number of plugins and sessions, each time costs at most one file of settings
\* and one roster: a file is closed before the next one is opened, rosters alone are written while
\* that of sessions is open (configfile.c:502-544, sessions.c:923-962, configfile.c:664).
THEOREM OneFilePerCut == Spec => []CutCostsOne
<1>1. Init => Sound /\ Few
  BY InitSound, FewInit
<1>2. Sound /\ Few /\ [Next]_vars => (Sound /\ Few)'
  BY NextSound, NextFew
<1>3. Sound /\ Few => CutCostsOne
  BY CutCosts
<1> QED BY <1>1, <1>2, <1>3, PTL DEF Spec

-----------------------------------------------------------------------------
(* Plugins that are not loaded. *)

\* What is not named by a call, nor written at once, when p is not loaded.
LEMMA Foreign ==
  ASSUME Sound, NEW p \in Plugins \ mem.plugins, NEW f \in FilesOf(p) \cap Files
  PROVE  /\ \A c \in CallNames : f \notin Named(mem, c)
         /\ f # ConfigFile /\ f # ScriptsVar
         /\ \A s \in Sessions : f = Userlist(s) => Owner[s] = p
<1>1. f = ConfigOf(p) \/ f = SessionsOf(p) \/ \E s \in Of(p) : f = Userlist(s)
  BY DEF FilesOf
<1>2. f # ConfigFile /\ f # ScriptsVar
  BY <1>1, KindFacts
<1>3. ASSUME NEW s \in Sessions, f = Userlist(s) PROVE Owner[s] = p
  BY <1>1, <1>3, KindFacts DEF Of
<1>4. f \notin Named(mem, "config")
  <2>1. f # PluginsFile /\ \A q \in mem.plugins : f # ConfigOf(q)
    BY <1>1, KindFacts
  <2> QED BY <1>2, <2>1, NamedFacts
<1>5. f \notin Named(mem, "sessions")
  <2>1. \A q \in mem.plugins : f # SessionsOf(q)
    BY <1>1, KindFacts
  <2>2. \A s \in Sessions : mem.session[s] # Absent => f # Userlist(s)
    BY <1>3 DEF Sound, Tidy
  <2> QED BY <2>1, <2>2, NamedFacts
<1>6. f \notin Named(mem, "meta") /\ f \notin Named(mem, "scripts")
  BY <1>1, KindFacts, NamedFacts
<1> QED BY <1>2, <1>3, <1>4, <1>5, <1>6 DEF CallNames

LEMMA NextForeign ==
  ASSUME Sound, [Next]_vars, NEW p \in Plugins \ mem.plugins, NEW f \in FilesOf(p) \cap Files
  PROVE  disk'[f] = disk[f]
<1>0. /\ f \in Files /\ p \notin mem.plugins
      /\ f \notin Closing(job.todo)
      /\ f # ConfigFile /\ f # ScriptsVar
      /\ \A s \in Sessions : f = Userlist(s) => Owner[s] = p
  BY Foreign DEF Sound, Planned
<1>1. CASE EditNext \/ Reload
  BY <1>0, <1>1, CommandSteps DEF CommandStep
<1>2. CASE Save \/ Autosave \/ Call
  BY <1>2, SaveStep, AutosaveStep, CallStep
<1>3. CASE OpenFile
  BY <1>0, <1>3, OpenFileStep
<1>4. CASE OpenFails
  BY <1>4, OpenFailsStep
<1>5. CASE CloseFile
  BY <1>0, <1>5, CloseFileStep
<1>6. CASE SaveEnd
  BY <1>6, EndStep
<1>7. CASE ExitEnd
  BY <1>0, <1>7, ExitEndStep
<1>8. CASE Quit \/ Signal
  <2>1. running /\ Exit
    BY <1>8, QuitStep, SignalStep
  <2> QED BY <1>0, <2>1, ExitFacts
<1>9. CASE Crash
  BY <1>9, CrashStep
<1>10. CASE \E front \in Frontends : Start(front)
  BY <1>10, StartStep
<1>11. CASE UNCHANGED vars
  BY <1>11 DEF vars
<1> QED BY <1>1, <1>2, <1>3, <1>4, <1>5, <1>6, <1>7, <1>8, <1>9, <1>10, <1>11, NextCases

\* UnloadedKept: no save, autosave, exit, /reload, command or crash touches the settings, the sessions
\* or the rosters of a plugin that is not loaded, whatever was lost before
\* (configfile.c:524, sessions.c:912).
THEOREM UnloadedStays == Spec => UnloadedKept
<1>1. Init => Sound
  BY InitSound
<1>2. Sound /\ [Next]_vars => Sound'
  BY NextSound
<1>3. Sound /\ [Next]_vars =>
        [\A p \in Plugins \ mem.plugins : \A f \in FilesOf(p) \cap Files : disk'[f] = disk[f]]_vars
  BY NextForeign
<1> QED BY <1>1, <1>2, <1>3, PTL DEF Spec, UnloadedKept

-----------------------------------------------------------------------------
(* Which commands leave the flags down. *)

\* Nothing is changed but what no start has to find again, windows and metacontacts.
Unseen ==
  /\ Alike(mem, mem') /\ mem'.lists = mem.lists /\ mem'.set = mem.set /\ disk' = disk /\ there' = there
  /\ reason' = reason

\* The status of a session is changed.
Told ==
  /\ mem'.plugins = mem.plugins /\ mem'.var = mem.var /\ mem'.lists = mem.lists /\ mem'.set = mem.set
  /\ disk' = disk /\ there' = there /\ reason'

LEMMA LoudSteps ==
  ASSUME ~QuietToo,
         \/ ChangeList \/ (\E p \in Plugins : SetVar(p) \/ PluginLoad(p) \/ PluginUnload(p))
         \/ (\E s \in Sessions : SessionAdd(s) \/ SessionSet(s) \/ SessionDel(s) \/ ChangeRoster(s))
         \/ \E flag \in BOOLEAN : Set(flag)
  PROVE  changed'
<1>1. \A m : Edit(m, TRUE) => changed'
  BY Zenon DEF Edit
<1>2. CASE ChangeList
  BY <1>1, <1>2, Zenon DEF ChangeList
<1>3. CASE \E p \in Plugins : SetVar(p) \/ PluginLoad(p) \/ PluginUnload(p)
  BY <1>1, <1>3, Zenon DEF SetVar, PluginLoad, PluginUnload
<1>4. CASE \E s \in Sessions : SessionAdd(s) \/ SessionSet(s) \/ SessionDel(s) \/ ChangeRoster(s)
  BY <1>1, <1>4, Zenon DEF SessionAdd, SessionSet, SessionDel, ChangeRoster
<1>5. CASE \E flag \in BOOLEAN : Set(flag)
  <2>1. PICK flag \in BOOLEAN : Set(flag)
    BY <1>5
  <2>2. flag = TRUE
    BY <2>1, Zenon DEF Set
  <2> QED BY <1>1, <2>1, <2>2, Zenon DEF Set
<1> QED BY <1>2, <1>3, <1>4, <1>5

LEMMA QuietSteps ==
  ASSUME Sound, EditNext \/ Reload, ~QuietToo, ~changed'
  PROVE  \/ ~changed /\ (Unseen \/ Told \/ ReloadNoConfig)
         \/ ReloadAll
<1>1. AtRest
  BY CommandSteps DEF CommandStep
<1>2. Good(mem)
  BY <1>1, RestGood
<1>3. \A m : \A flag \in BOOLEAN : Edit(m, flag) => ~changed
  BY Zenon DEF Edit
<1>4. CASE ChangeWindows
  <2>1. ~changed
    BY <1>3, <1>4, Zenon DEF ChangeWindows
  <2> QED BY <1>2, <1>4, <2>1, WindowsStep DEF Unseen
<1>5. CASE \E flag \in BOOLEAN : ChangeMeta(flag)
  <2>1. ~changed
    BY <1>3, <1>5, Zenon DEF ChangeMeta
  <2> QED BY <1>2, <1>5, <2>1, MetaStep DEF Unseen
<1>6. CASE \E s \in Sessions : ChangeStatus(s)
  <2>1. ~changed
    BY <1>6 DEF ChangeStatus
  <2> QED BY <1>2, <1>6, <2>1, StatusStep DEF Told
<1>7. CASE ReloadNoPlugins
  <2>1. ~changed
    BY <1>3, <1>7, Zenon DEF ReloadNoPlugins
  <2>2. mem' = mem /\ disk' = disk /\ there' = there /\ reason' = reason
    BY <1>2, <1>7, NoPluginsStep
  <2> QED BY <2>1, <2>2 DEF Unseen, Alike
<1>8. CASE ReloadNoConfig
  <2>1. (Missing # {}) \in BOOLEAN
    OBVIOUS
  <2>2. ~changed
    BY <1>3, <1>8, <2>1, Zenon DEF ReloadNoConfig
  <2> QED BY <1>8, <2>2
<1>9. CASE ReloadAll
  BY <1>9
<1> QED BY <1>4, <1>5, <1>6, <1>7, <1>8, <1>9, LoudSteps, Zenon DEF EditNext, Reload

-----------------------------------------------------------------------------
(* Files that do not exist. *)

\* A file that does not exist reads like an empty one; that of the core was there before those of
\* plugins.
FilesSound ==
  /\ \A f \in Files : f \notin there => disk[f] = Empty(f)
  /\ \A p \in Plugins : ConfigOf(p) \in there => ConfigFile \in there

\* The file of the core is opened before those of plugins.
Early(t) ==
  \E i \in 1..Len(t) :
    /\ t[i] = Open(ConfigFile)
    /\ \A k \in 1..i : \A f \in Files : t[k] = Open(f) => f \in {PluginsFile, ConfigFile}

Ordered == (\E p \in Plugins : ConfigOf(p) \in Opening(job.todo)) => ConfigFile \in there \/ Early(job.todo)

LEMMA EarlyTail ==
  ASSUME NEW t, Series(t), t # << >>, Early(t), Head(t) # Open(ConfigFile)
  PROVE  Early(Tail(t))
<1>1. PICK i \in 1..Len(t) : /\ t[i] = Open(ConfigFile)
                             /\ \A k \in 1..i : \A f \in Files : t[k] = Open(f) => f \in {PluginsFile, ConfigFile}
  BY DEF Early
<1>2. PICK r : r = Tail(t)
  OBVIOUS
<1>3. /\ Len(r) = Len(t) - 1 /\ Len(r) \in Nat /\ Head(t) = t[1] /\ Len(t) \in Nat
      /\ \A k \in 1..Len(r) : r[k] = t[1 + k] /\ 1 + k \in 1..Len(t)
  BY <1>2, TailSeries, SeriesFacts
<1>4. i # 1
  BY <1>1, <1>3
<1>5. i - 1 \in 1..Len(r) /\ 1 + (i - 1) = i
  BY <1>3, <1>4
<1>6. r[i - 1] = Open(ConfigFile)
  BY <1>1, <1>3, <1>5
<1>7. ASSUME NEW k \in 1 .. i - 1, NEW f \in Files, r[k] = Open(f) PROVE f \in {PluginsFile, ConfigFile}
  <2>1. k \in 1..Len(r) /\ 1 + k \in 1..i
    BY <1>5
  <2>2. t[1 + k] = Open(f)
    BY <1>3, <1>7, <2>1
  <2> QED BY <1>1, <2>1, <2>2
<1> QED BY <1>2, <1>5, <1>6, <1>7 DEF Early

LEMMA EarlySteps ==
  ASSUME mem \in MemT, Tidy(mem), NEW c \in CallNames, NEW p \in Plugins, ConfigOf(p) \in Opening(Steps(c))
  PROVE  Early(Steps(c))
<1>1. PICK t : t = Steps(c)
  OBVIOUS
<1>2. Complete(t, Named(mem, c))
  BY <1>1, StepsComplete
<1>3. ConfigOf(p) \in Named(mem, c)
  BY <1>1, <1>2 DEF Complete
<1>4. c = "config"
  BY <1>3, NamedFacts, KindFacts DEF CallNames
<1>5. PICK a, b, e : /\ a = Whole(PluginsFile) /\ b = Whole(ConfigFile)
                     /\ e = ForEach([q \in mem.plugins |-> Whole(ConfigOf(q))])
  OBVIOUS
<1>6. t = (a \o b) \o e
  BY <1>1, <1>4, <1>5 DEF Steps, ConfigWrite
<1>7. /\ a \in Seq(StepT) /\ b \in Seq(StepT) /\ Len(a) = 2 /\ Len(b) = 2
      /\ a[1] = Open(PluginsFile) /\ a[2] = Close(PluginsFile) /\ b[1] = Open(ConfigFile)
  <2>1. /\ Open(PluginsFile) \in StepT /\ Close(PluginsFile) \in StepT
        /\ Open(ConfigFile) \in StepT /\ Close(ConfigFile) \in StepT
    BY FileFacts, StepFacts
  <2> QED BY <1>5, <2>1 DEF Whole
<1>8. e \in Seq(StepT) /\ Len(e) \in Nat
  BY <1>5, VarsComplete, SeriesFacts DEF Complete
<1>9. /\ a \o b \in Seq(StepT) /\ Len(a \o b) = 4 /\ (a \o b)[1] = a[1] /\ (a \o b)[2] = a[2]
      /\ (a \o b)[3] = b[1]
  <2>1. 1 \in 1..Len(a) /\ 2 \in 1..Len(a) /\ 1 \in 1..Len(b) /\ Len(a) + 1 = 3 /\ Len(a) + Len(b) = 4
    BY <1>7
  <2>2. /\ a \o b \in Seq(StepT) /\ Len(a \o b) = Len(a) + Len(b)
        /\ \A i \in 1..Len(a) : (a \o b)[i] = a[i]
        /\ \A i \in 1..Len(b) : (a \o b)[Len(a) + i] = b[i]
    <3>1. a \in Seq(StepT) /\ b \in Seq(StepT)
      BY <1>7
    <3> QED BY <3>1, ConcatFacts
  <2>3. (a \o b)[Len(a) + 1] = b[1]
    BY <2>1, <2>2
  <2> QED BY <2>1, <2>2, <2>3
<1>10. /\ Len(t) = 4 + Len(e) /\ t[1] = a[1] /\ t[2] = a[2] /\ t[3] = b[1]
  <2>1. 1 \in 1..4 /\ 2 \in 1..4 /\ 3 \in 1..4
    OBVIOUS
  <2> QED BY <1>6, <1>8, <1>9, <2>1, ConcatFacts
<1>11. 3 \in 1..Len(t) /\ t[3] = Open(ConfigFile)
  BY <1>7, <1>8, <1>10
<1>12. ASSUME NEW k \in 1..3, NEW f \in Files, t[k] = Open(f) PROVE f \in {PluginsFile, ConfigFile}
  <2>1. k = 1 \/ k = 2 \/ k = 3
    OBVIOUS
  <2> QED BY <1>7, <1>10, <1>12, <2>1, StepFacts
<1> QED BY <1>1, <1>11, <1>12 DEF Early

LEMMA NoOrder ==
  ASSUME job.todo = << >>
  PROVE  Ordered
<1>1. Opening(<< >>) = {}
  BY NoSteps DEF Complete
<1> QED BY <1>1 DEF Ordered

LEMMA InitOrdered ==
  ASSUME Init
  PROVE  FilesSound /\ Ordered
<1>1. PICK i \in InitialFiles : disk = i.disk /\ there = i.there
  BY DEF Init
<1>2. FilesSound
  BY <1>1, InitFiles, FileFacts DEF FilesSound
<1>3. Ordered
  BY NoJobFacts, NoOrder DEF Init
<1> QED BY <1>2, <1>3

LEMMA FilesOpen ==
  ASSUME Sound, FilesSound, Ordered, OpenFile
  PROVE  FilesSound' /\ Ordered'
<1>1. PICK f \in Files :
        /\ running /\ job.todo # << >> /\ Head(job.todo) = Open(f)
        /\ disk' = [disk EXCEPT ![f] = Empty(f)] /\ there' = there \cup {f} /\ torn' = torn \cup {f}
        /\ job' = [job EXCEPT !.todo = Tail(@)]
        /\ UNCHANGED <<mem, changed, reason, running, left, cuts>>
  BY Zenon DEF OpenFile
<1>2. PICK t, r : t = job.todo /\ r = job'.todo /\ r = Tail(t)
  BY <1>1, TailFacts
<1>3. \A g \in Files : disk'[g] = IF g = f THEN Empty(f) ELSE disk[g]
  BY <1>1, OpenStep
<1>4. Series(t) /\ t # << >> /\ Head(t) = Open(f) /\ there' = there \cup {f}
  BY <1>1, <1>2 DEF Sound, Planned
<1>5. f \in Opening(t) /\ Opening(r) \subseteq Opening(t) /\ Head(t) = t[1]
  BY <1>2, <1>4, TailSeries
<1>6. Early(t) => f \in {PluginsFile, ConfigFile}
  <2> SUFFICES ASSUME Early(t) PROVE f \in {PluginsFile, ConfigFile}
    OBVIOUS
  <2>1. PICK i \in 1..Len(t) : \A k \in 1..i : \A g \in Files : t[k] = Open(g) => g \in {PluginsFile, ConfigFile}
    BY DEF Early
  <2>2. 1 \in 1..i
    BY <1>4, SeriesFacts
  <2> QED BY <1>4, <1>5, <2>1, <2>2
<1>7. FilesSound'
  <2>1. \A g \in Files : g \notin there' => disk'[g] = Empty(g)
    BY <1>3, <1>4 DEF FilesSound
  <2>2. ASSUME NEW p \in Plugins, ConfigOf(p) \in there' PROVE ConfigFile \in there'
    <3>1. CASE ConfigOf(p) \in there
      BY <1>4, <3>1 DEF FilesSound
    <3>2. CASE f = ConfigOf(p)
      <4>1. f \notin {PluginsFile, ConfigFile}
        BY <3>2, KindFacts
      <4>2. ConfigFile \in there
        BY <1>2, <1>5, <1>6, <3>2, <4>1 DEF Ordered
      <4> QED BY <1>4, <4>2
    <3> QED BY <1>4, <2>2, <3>1, <3>2
  <2> QED BY <2>1, <2>2 DEF FilesSound
<1>8. Ordered'
  <2> SUFFICES ASSUME NEW p \in Plugins, ConfigOf(p) \in Opening(r) PROVE ConfigFile \in there' \/ Early(r)
    BY <1>2 DEF Ordered
  <2>1. ConfigFile \in there \/ Early(t)
    BY <1>2, <1>5 DEF Ordered
  <2>2. CASE f = ConfigFile
    BY <1>4, <2>2
  <2>3. CASE f # ConfigFile
    <3>1. Head(t) # Open(ConfigFile)
      BY <1>4, <2>3, StepFacts
    <3> QED BY <1>2, <1>4, <2>1, <3>1, EarlyTail
  <2> QED BY <2>2, <2>3
<1> QED BY <1>7, <1>8

LEMMA FilesFail ==
  ASSUME Sound, FilesSound, Ordered, OpenFails
  PROVE  FilesSound' /\ Ordered'
<1>1. PICK f \in Files :
        /\ running /\ job.todo # << >> /\ Head(job.todo) = Open(f) /\ f[1] \in MayFail
        /\ job' = [job EXCEPT !.todo = AfterFailure(f), !.failed = @ \/ f[1] # "userlist"]
        /\ UNCHANGED <<mem, disk, there, changed, reason, running, left, torn, cuts>>
  BY Zenon DEF OpenFails
<1>2. PICK t, r : t = job.todo /\ r = job'.todo
  OBVIOUS
<1>3. Opening(r) \subseteq Opening(t) /\ (f[1] \notin {"sessions", "userlist"} => r = << >>)
  BY <1>1, <1>2, FailStep
<1>4. Series(t) /\ t # << >> /\ Head(t) = Open(f) /\ Head(t) = t[1] /\ disk' = disk /\ there' = there
  BY <1>1, <1>2, TailSeries DEF Sound, Planned
<1>5. FilesSound'
  BY <1>4 DEF FilesSound
<1>6. CASE r = << >>
  <2>1. Opening(<< >>) = {}
    BY NoSteps DEF Complete
  <2> QED BY <1>2, <1>5, <1>6, <2>1 DEF Ordered
<1>7. CASE f[1] \in {"sessions", "userlist"}
  <2>1. ~Early(t)
    <3> SUFFICES ASSUME Early(t) PROVE FALSE
      OBVIOUS
    <3>1. PICK i \in 1..Len(t) : \A k \in 1..i : \A g \in Files : t[k] = Open(g) => g \in {PluginsFile, ConfigFile}
      BY DEF Early
    <3>2. 1 \in 1..i
      BY <1>4, SeriesFacts
    <3>3. f \in {PluginsFile, ConfigFile}
      BY <1>4, <3>1, <3>2
    <3> QED BY <1>7, <3>3, KindFacts
  <2> QED BY <1>2, <1>3, <1>4, <1>5, <2>1 DEF Ordered
<1> QED BY <1>3, <1>6, <1>7

LEMMA FilesClose ==
  ASSUME Sound, FilesSound, Ordered, CloseFile
  PROVE  FilesSound' /\ Ordered'
<1>1. PICK f \in Files :
        /\ running /\ job.todo # << >> /\ Head(job.todo) = Close(f)
        /\ disk' = [disk EXCEPT ![f] = Content(mem, f)] \/ disk' = disk
        /\ torn' = torn \ {f} /\ job' = [job EXCEPT !.todo = Tail(@)]
        /\ UNCHANGED <<there, mem, changed, reason, running, left, cuts>>
  BY Zenon DEF CloseFile
<1>2. PICK t, r : t = job.todo /\ r = job'.todo /\ r = Tail(t)
  BY <1>1, TailFacts
<1>3. (\A g \in Files : g # f => disk'[g] = disk[g]) /\ f \in Opened(job.todo)
  BY <1>1, CloseStep
<1>4. Series(t) /\ t # << >> /\ Head(t) = Close(f) /\ there' = there /\ f \in there
  BY <1>1, <1>2, <1>3 DEF Sound, Planned, Typed
<1>5. Opening(r) = Opening(t)
  BY <1>2, <1>4, TailSeries
<1>6. FilesSound'
  BY <1>3, <1>4 DEF FilesSound
<1>7. Head(t) # Open(ConfigFile)
  BY <1>4, StepFacts
<1>8. Ordered'
  BY <1>2, <1>4, <1>5, <1>7, EarlyTail DEF Ordered
<1> QED BY <1>6, <1>8

LEMMA FilesNext ==
  ASSUME Sound, FilesSound, Ordered, [Next]_vars
  PROVE  FilesSound' /\ Ordered'
<1>1. CASE disk' = disk /\ there' = there /\ job'.todo = << >>
  <2>1. Ordered'
    BY <1>1, NoSteps DEF Ordered, Complete
  <2> QED BY <1>1, <2>1 DEF FilesSound
<1>2. CASE EditNext \/ Reload
  <2>1. CommandStep
    BY <1>2, CommandSteps
  <2>2. Ordered'
    BY <2>1, NoJobFacts, NoSteps DEF CommandStep, AtRest, Ordered, Complete
  <2>3. \A f \in Files : f \notin there' => disk'[f] = Empty(f)
    BY <2>1 DEF CommandStep, FilesSound
  <2>4. ASSUME NEW p \in Plugins, ConfigOf(p) \in there' PROVE ConfigFile \in there'
    <3>1. ConfigOf(p) \in Files /\ ConfigOf(p) \notin Rosters
      BY FileFacts, KindFacts, RosterFacts
    <3>2. ConfigOf(p) \in there
      BY <2>1, <2>4, <3>1 DEF CommandStep
    <3> QED BY <2>1, <3>2 DEF CommandStep, FilesSound
  <2> QED BY <2>2, <2>3, <2>4 DEF FilesSound
<1>3. CASE Save \/ Autosave
  BY <1>1, <1>3, SaveStep, AutosaveStep
<1>4. CASE Call
  <2>1. PICK c, m : c = Head(job.calls) /\ m = mem
    OBVIOUS
  <2>2. /\ c \in CallNames /\ job'.todo = Steps(c) /\ disk' = disk /\ there' = there
    BY <1>4, <2>1, CallStep
  <2>3. Ordered'
    BY <2>2, EarlySteps DEF Ordered, Sound, Typed
  <2> QED BY <2>2, <2>3 DEF FilesSound
<1>5. CASE OpenFile
  BY <1>5, FilesOpen
<1>6. CASE OpenFails
  BY <1>6, FilesFail
<1>7. CASE CloseFile
  BY <1>7, FilesClose
<1>8. CASE SaveEnd \/ Crash \/ \E front \in Frontends : Start(front)
  <2>1. job' = NoJob /\ disk' = disk /\ there' = there
    BY <1>8, EndStep, CrashStep, StartStep DEF Crash, Gone
  <2> QED BY <1>1, <2>1, NoJobFacts
<1>9. CASE ExitEnd
  <2>1. PICK fs : fs = Kept(mem, Sessions) \cup {ScriptsVar}
    OBVIOUS
  <2>2. WriteNow(mem, fs) /\ job' = NoJob
    BY <1>9, <2>1, Zenon DEF ExitEnd, Gone
  <2>3. fs \subseteq Files /\ \A f \in fs : f = ScriptsVar \/ f \in Rosters
    BY <2>1, KeptFacts, RosterFacts, FileFacts
  <2>4. /\ there' = there \cup fs
        /\ \A f \in Files : disk'[f] = IF f \in fs THEN Content(mem, f) ELSE disk[f]
    BY <2>2, <2>3, WriteNowFacts DEF Sound, Typed
  <2>5. \A p \in Plugins : ConfigOf(p) \notin fs
    BY <2>3, KindFacts, RosterFacts
  <2>6. FilesSound'
    BY <2>4, <2>5 DEF FilesSound
  <2>7. Ordered'
    BY <2>2, NoJobFacts, NoSteps DEF Ordered, Complete
  <2> QED BY <2>6, <2>7
<1>10. CASE Quit \/ Signal
  <2>1. running /\ Exit
    BY <1>10, QuitStep, SignalStep
  <2>2. /\ \A f \in Files : f # ConfigFile => disk'[f] = disk[f]
        /\ ConfigFile \notin there => disk' = disk
        /\ there' = there /\ job'.todo = << >>
    BY <2>1, ExitFacts
  <2>3. Ordered'
    BY <2>2, NoSteps DEF Ordered, Complete
  <2> QED BY <2>2, <2>3 DEF FilesSound
<1>11. CASE UNCHANGED vars
  BY <1>11 DEF vars, FilesSound, Ordered
<1> QED BY <1>2, <1>3, <1>4, <1>5, <1>6, <1>7, <1>8, <1>9, <1>10, <1>11, NextCases

-----------------------------------------------------------------------------
(* What has been written. *)

\* The calls that the save under way was begun for.
Asked(c) ==
  \/ job.by = "save" /\ c \in CallNames
  \/ job.by = "autosave" /\ c \in {"config", "sessions"}
  \/ job.by = "exit" /\ \E i \in 1..Len(left.saved) : left.saved[i] = c

\* File f is still to be written.
Ahead(j, m, f) == f \in Closing(j.todo) \/ \E i \in 1..Len(j.calls) : f \in Named(m, j.calls[i])

\* While nothing fails, every file that was asked for is written, or is to be.
Written ==
  ~job.failed => \A c \in CallNames : Asked(c) =>
    \A f \in Named(mem, c) : Ahead(job, mem, f) \/ disk[f] = Content(mem, f)

LEMMA WrittenBegin ==
  ASSUME NEW cs, job'.calls = cs, \A c \in CallNames : Asked(c)' => \E i \in 1..Len(cs) : cs[i] = c
  PROVE  Written'
BY DEF Written, Ahead

LEMMA WrittenNext ==
  ASSUME Sound, Written, ~DiskFull, "userlist" \notin MayFail, [Next]_vars
  PROVE  Written'
<1>1. CASE job' = NoJob
  <2>1. \A c : ~Asked(c)'
    BY <1>1, NoJobFacts DEF Asked
  <2> QED BY <2>1 DEF Written
<1>2. CASE EditNext \/ Reload
  BY <1>1, <1>2, CommandSteps DEF CommandStep, AtRest
<1>3. CASE Save
  <2>1. PICK cs : cs = <<"sessions", "config", "meta", "scripts">>
    OBVIOUS
  <2>2. \A c \in CallNames : \E i \in 1..Len(cs) : cs[i] = c
    <3>1. /\ Len(cs) = 4 /\ cs[1] = "sessions" /\ cs[2] = "config" /\ cs[3] = "meta" /\ cs[4] = "scripts"
          /\ 1 \in 1..4 /\ 2 \in 1..4 /\ 3 \in 1..4 /\ 4 \in 1..4
      BY <2>1
    <3> QED BY <3>1 DEF CallNames
  <2>3. job'.calls = cs
    BY <1>3, <2>1, SaveStep
  <2> QED BY <2>2, <2>3, WrittenBegin
<1>4. CASE Autosave
  <2>1. PICK cs : cs = <<"config", "sessions">>
    OBVIOUS
  <2>2. \A c \in {"config", "sessions"} : \E i \in 1..Len(cs) : cs[i] = c
    <3>1. Len(cs) = 2 /\ cs[1] = "config" /\ cs[2] = "sessions" /\ 1 \in 1..2 /\ 2 \in 1..2
      BY <2>1
    <3> QED BY <3>1
  <2>3. job'.calls = cs /\ job'.by = "autosave"
    BY <1>4, <2>1, AutosaveStep
  <2>4. \A c : Asked(c)' => c \in {"config", "sessions"}
    BY <2>3 DEF Asked
  <2> QED BY <2>2, <2>3, <2>4, WrittenBegin
<1>5. CASE Call
  <2>1. PICK cs, c, r : cs = job.calls /\ c = Head(cs) /\ r = Tail(cs)
    OBVIOUS
  <2>2. /\ cs # << >> /\ job'.calls = r /\ job'.by = job.by /\ job'.failed = job.failed
        /\ job.todo = << >> /\ Closing(job'.todo) = Named(mem, c)
        /\ mem' = mem /\ disk' = disk /\ left' = left /\ cs \in Seq(CallNames)
    BY <1>5, <2>1, CallStep, JobFacts DEF Sound, Typed
  <2>3. \A i \in 1..Len(cs) : cs[i] = c \/ \E k \in 1..Len(r) : r[k] = cs[i]
    <3>1. /\ Len(cs) \in Nat /\ Len(r) = Len(cs) - 1 /\ c = cs[1]
          /\ \A k \in 1..Len(r) : r[k] = cs[k + 1]
      BY <2>1, <2>2, HeadTailProperties, LenProperties
    <3> SUFFICES ASSUME NEW i \in 1..Len(cs), i # 1 PROVE \E k \in 1..Len(r) : r[k] = cs[i]
      BY <3>1
    <3>2. i - 1 \in 1..Len(r) /\ (i - 1) + 1 = i
      BY <3>1
    <3> QED BY <3>1, <3>2
  <2>4. \A f : Ahead(job, mem, f) => Ahead(job', mem', f)
    BY <2>1, <2>2, <2>3, NoJobFacts DEF Ahead
  <2>5. \A d : Asked(d)' => Asked(d)
    BY <2>2 DEF Asked
  <2> QED BY <2>2, <2>4, <2>5 DEF Written
<1>6. CASE OpenFile
  <2>1. PICK f \in Files :
          /\ f \in Closing(job.todo) /\ Closing(job'.todo) = Closing(job.todo)
          /\ \A g \in Files : disk'[g] = IF g = f THEN Empty(f) ELSE disk[g]
    BY <1>6, OpenFileStep
  <2>2. /\ job'.by = job.by /\ job'.calls = job.calls /\ job'.failed = job.failed
        /\ mem' = mem /\ left' = left
    BY <1>6, OpenFileStep
  <2>3. \A g : Ahead(job', mem', g) <=> Ahead(job, mem, g)
    BY <2>1, <2>2 DEF Ahead
  <2>4. Ahead(job, mem, f)
    BY <2>1 DEF Ahead
  <2>5. \A d : Asked(d)' => Asked(d)
    BY <2>2 DEF Asked
  <2>6. \A c \in CallNames : Named(mem, c) \subseteq Files
    BY NamedFacts, MemFacts DEF Sound, Typed
  <2> QED BY <2>1, <2>2, <2>3, <2>4, <2>5, <2>6 DEF Written
<1>7. CASE OpenFails
  <2>1. job'.failed
    BY <1>7, OpenFailsStep
  <2> QED BY <2>1 DEF Written
<1>8. CASE CloseFile
  <2>1. PICK f \in Files :
          /\ Closing(job'.todo) = Closing(job.todo) \ {f}
          /\ \A g \in Files : g # f => disk'[g] = disk[g]
          /\ disk'[f] = Content(mem, f)
    BY <1>8, CloseFileStep
  <2>2. /\ job'.by = job.by /\ job'.calls = job.calls /\ job'.failed = job.failed
        /\ mem' = mem /\ left' = left
    BY <1>8, CloseFileStep
  <2>3. \A g : g # f => (Ahead(job', mem', g) <=> Ahead(job, mem, g))
    BY <2>1, <2>2 DEF Ahead
  <2>4. \A d : Asked(d)' => Asked(d)
    BY <2>2 DEF Asked
  <2>5. \A c \in CallNames : Named(mem, c) \subseteq Files
    BY NamedFacts, MemFacts DEF Sound, Typed
  <2>6. ASSUME ~job'.failed, NEW c \in CallNames, Asked(c)', NEW g \in Named(mem, c)
        PROVE  Ahead(job', mem', g) \/ disk'[g] = Content(mem', g)
    <3>1. g \in Files /\ (Ahead(job, mem, g) \/ disk[g] = Content(mem, g))
      BY <2>2, <2>4, <2>5, <2>6 DEF Written
    <3>2. CASE g = f
      BY <2>1, <2>2, <3>2
    <3>3. CASE g # f
      BY <2>1, <2>2, <2>3, <3>1, <3>3
    <3> QED BY <3>2, <3>3
  <2> QED BY <2>2, <2>6 DEF Written
<1>9. CASE SaveEnd \/ ExitEnd \/ Crash
  BY <1>1, <1>9, EndStep DEF ExitEnd, Crash, Gone
<1>10. CASE \E front \in Frontends : Start(front)
  BY <1>1, <1>10, StartStep
<1>11. CASE Quit \/ Signal
  <2>1. running /\ Exit
    BY <1>11, QuitStep, SignalStep
  <2>2. PICK cs, l : cs = job'.calls /\ l = left'.saved
    OBVIOUS
  <2>3. job'.by = "exit" /\ l = IF cs = << >> THEN << >> ELSE cs
    BY <2>1, <2>2, ExitFacts DEF NotSaved
  <2>4. l = cs
    BY <2>3
  <2>5. \A c : Asked(c)' => \E i \in 1..Len(cs) : cs[i] = c
    BY <2>2, <2>3, <2>4 DEF Asked
  <2> QED BY <2>2, <2>5, WrittenBegin
<1>12. CASE UNCHANGED vars
  <2>1. \A c : Asked(c)' => Asked(c)
    BY <1>12 DEF vars, Asked
  <2> QED BY <1>12, <2>1 DEF vars, Written
<1> QED BY <1>2, <1>3, <1>4, <1>5, <1>6, <1>7, <1>8, <1>9, <1>10, <1>11, <1>12, NextCases

-----------------------------------------------------------------------------
(* What the files hold. *)

\* Reading the files that are not open gives what is in m of the core and of plugins, if a protocol
\* is loaded.
CoreHolds(m, d, th, open) ==
  m.plugins \cap Protocols # {} =>
    /\ PluginsFile \notin open => AllOf(d[PluginsFile]) = m.plugins
    /\ ConfigFile \notin open => d[ConfigFile].lists = m.lists /\ Read(0, d[ConfigFile].set) = m.set
    /\ \A p \in m.plugins : ConfigOf(p) \notin open =>
         m.var[p] = IF ConfigFile \in th THEN Read(0, d[ConfigOf(p)]) ELSE 0

\* The same of sessions and rosters.
SessionsHold(m, d, open) ==
  \A s \in Sessions :
    /\ Owner[s] \in m.plugins /\ SessionsOf(Owner[s]) \notin open => Line(d, s) = m.session[s]
    /\ m.session[s] # Absent /\ Userlist(s) \notin open => d[Userlist(s)] = m.roster[s]

\* While no flag is up, the files that are not open hold what is in memory.
Holds ==
  running /\ job.by # "exit" /\ ~changed =>
    /\ CoreHolds(mem, disk, there, Opened(job.todo))
    /\ ~reason => SessionsHold(mem, disk, Opened(job.todo))

\* What is written is what is read.
LEMMA ContentRead ==
  ASSUME NEW m \in MemT
  PROVE  /\ m.plugins \cap UI # {} /\ m.plugins \cap Protocols # {} => AllOf(Content(m, PluginsFile)) = m.plugins
         /\ Content(m, ConfigFile).lists = m.lists /\ Read(0, Content(m, ConfigFile).set) = m.set
         /\ Read(0, Content(m, ConfigFile).layout) = m.layout
         /\ \A p \in Plugins : Read(0, Content(m, ConfigOf(p))) = m.var[p]
         /\ \A s \in Sessions : /\ Content(m, SessionsOf(Owner[s]))[s] = m.session[s]
                                /\ Content(m, Userlist(s)) = m.roster[s]
<1>1. \A b \in Bits : b # Absent /\ Read(0, b) = b
  BY DEF Bits, Absent, Read
<1>2. Content(m, ConfigFile) = [lists |-> m.lists, set |-> m.set, layout |-> m.layout]
  BY ContentFacts
<1>3. /\ Content(m, ConfigFile).lists = m.lists /\ Content(m, ConfigFile).set = m.set
      /\ Content(m, ConfigFile).layout = m.layout
  BY <1>2
<1>4. m.set \in Bits /\ m.layout \in Bits /\ \A p \in Plugins : m.var[p] \in Bits
  BY MemFacts
<1>5. m.plugins \cap UI # {} /\ m.plugins \cap Protocols # {} => AllOf(Content(m, PluginsFile)) = m.plugins
  BY ContentFacts, MemFacts, AllOfFacts
<1>6. \A p \in Plugins : Read(0, Content(m, ConfigOf(p))) = m.var[p]
  BY <1>1, <1>4, ContentFacts
<1>7. ASSUME NEW s \in Sessions
      PROVE  Content(m, SessionsOf(Owner[s]))[s] = m.session[s] /\ Content(m, Userlist(s)) = m.roster[s]
  <2>1. PICK q : q = Owner[s]
    OBVIOUS
  <2>2. q \in Protocols /\ s \in Of(q)
    BY <2>1, ConstantFacts DEF Of
  <2>3. Content(m, SessionsOf(q)) = [x \in Of(q) |-> m.session[x]]
    BY <2>2, ContentFacts
  <2>4. Content(m, SessionsOf(q))[s] = m.session[s]
    BY <2>2, <2>3
  <2> QED BY <2>1, <2>4, ContentFacts
<1> QED BY <1>1, <1>3, <1>4, <1>5, <1>6, <1>7

LEMMA CoreSame ==
  ASSUME NEW m, NEW r, NEW d, NEW th, NEW open, CoreHolds(m, d, th, open),
         r.plugins = m.plugins, r.var = m.var, r.lists = m.lists, r.set = m.set
  PROVE  CoreHolds(r, d, th, open)
BY DEF CoreHolds

LEMMA SessionsSame ==
  ASSUME NEW m, NEW r, NEW d, NEW open, SessionsHold(m, d, open),
         r.plugins = m.plugins, r.session = m.session, r.roster = m.roster
  PROVE  SessionsHold(r, d, open)
BY DEF SessionsHold

\* File f is opened.
LEMMA CoreOpens ==
  ASSUME Sound, FilesSound, NEW open, NEW f \in Files, NEW d, \A g \in Files : g # f => d[g] = disk[g],
         NEW m, m.plugins \subseteq Plugins
  PROVE  /\ CoreHolds(m, disk, there, open) => CoreHolds(m, d, there \cup {f}, open \cup {f})
         /\ SessionsHold(m, disk, open) => SessionsHold(m, d, open \cup {f})
<1>1. ASSUME CoreHolds(m, disk, there, open)
      PROVE  CoreHolds(m, d, there \cup {f}, open \cup {f})
  <2> SUFFICES ASSUME m.plugins \cap Protocols # {}
               PROVE  /\ PluginsFile \notin open \cup {f} => AllOf(d[PluginsFile]) = m.plugins
                      /\ ConfigFile \notin open \cup {f} => /\ d[ConfigFile].lists = m.lists
                                                            /\ Read(0, d[ConfigFile].set) = m.set
                      /\ \A p \in m.plugins : ConfigOf(p) \notin open \cup {f} =>
                           m.var[p] = IF ConfigFile \in there \cup {f} THEN Read(0, d[ConfigOf(p)]) ELSE 0
    BY DEF CoreHolds
  <2>1. /\ PluginsFile \notin open \cup {f} => AllOf(d[PluginsFile]) = m.plugins
        /\ ConfigFile \notin open \cup {f} => /\ d[ConfigFile].lists = m.lists
                                              /\ Read(0, d[ConfigFile].set) = m.set
    BY <1>1, FileFacts DEF CoreHolds
  <2>2. ASSUME NEW p \in m.plugins, ConfigOf(p) \notin open \cup {f}
        PROVE  m.var[p] = IF ConfigFile \in there \cup {f} THEN Read(0, d[ConfigOf(p)]) ELSE 0
    <3>1. /\ m.var[p] = IF ConfigFile \in there THEN Read(0, disk[ConfigOf(p)]) ELSE 0
          /\ d[ConfigOf(p)] = disk[ConfigOf(p)] /\ p \in Plugins /\ ConfigOf(p) \in Files
      BY <1>1, <2>2, FileFacts DEF CoreHolds
    <3>2. CASE f = ConfigFile /\ ConfigFile \notin there
      <4>1. ConfigOf(p) \notin there
        BY <3>1, <3>2 DEF FilesSound
      <4>2. disk[ConfigOf(p)] = Absent
        BY <3>1, <4>1, EmptyFacts DEF FilesSound
      <4> QED BY <3>1, <3>2, <4>2, ReadTyped
    <3>3. CASE f # ConfigFile \/ ConfigFile \in there
      BY <3>1, <3>3
    <3> QED BY <3>2, <3>3
  <2> QED BY <2>1, <2>2
<1>2. ASSUME SessionsHold(m, disk, open), NEW s \in Sessions
      PROVE  /\ Owner[s] \in m.plugins /\ SessionsOf(Owner[s]) \notin open \cup {f} => Line(d, s) = m.session[s]
             /\ m.session[s] # Absent /\ Userlist(s) \notin open \cup {f} => d[Userlist(s)] = m.roster[s]
  <2>1. SessionsOf(Owner[s]) \in Files /\ Userlist(s) \in Files
    BY FileFacts, ConstantFacts
  <2> QED BY <1>2, <2>1 DEF SessionsHold, Line
<1>3. SessionsHold(m, disk, open) => SessionsHold(m, d, open \cup {f})
  BY <1>2 DEF SessionsHold
<1> QED BY <1>1, <1>3

\* File f is closed.
LEMMA CoreCloses ==
  ASSUME Sound, FilesSound, NEW open, NEW f \in open, open \subseteq there, open \subseteq Files,
         NEW d, \A g \in Files : g # f => d[g] = disk[g], d[f] = Content(mem, f), mem.plugins \cap UI # {}
  PROVE  /\ CoreHolds(mem, disk, there, open) => CoreHolds(mem, d, there, open \ {f})
         /\ SessionsHold(mem, disk, open) => SessionsHold(mem, d, open \ {f})
<1>1. mem \in MemT /\ mem.plugins \subseteq Plugins
  BY MemFacts DEF Sound, Typed
<1>2. ASSUME CoreHolds(mem, disk, there, open)
      PROVE  CoreHolds(mem, d, there, open \ {f})
  <2> SUFFICES ASSUME mem.plugins \cap Protocols # {}
               PROVE  /\ PluginsFile \notin open \ {f} => AllOf(d[PluginsFile]) = mem.plugins
                      /\ ConfigFile \notin open \ {f} => /\ d[ConfigFile].lists = mem.lists
                                                         /\ Read(0, d[ConfigFile].set) = mem.set
                      /\ \A p \in mem.plugins : ConfigOf(p) \notin open \ {f} =>
                           mem.var[p] = IF ConfigFile \in there THEN Read(0, d[ConfigOf(p)]) ELSE 0
    BY DEF CoreHolds
  <2>1. PluginsFile \notin open \ {f} => AllOf(d[PluginsFile]) = mem.plugins
    <3>1. CASE f = PluginsFile
      BY <1>1, <3>1, ContentRead
    <3>2. CASE f # PluginsFile
      BY <1>2, <3>2, FileFacts DEF CoreHolds
    <3> QED BY <3>1, <3>2
  <2>2. ConfigFile \notin open \ {f} => d[ConfigFile].lists = mem.lists /\ Read(0, d[ConfigFile].set) = mem.set
    <3>1. CASE f = ConfigFile
      BY <1>1, <3>1, ContentRead
    <3>2. CASE f # ConfigFile
      BY <1>2, <3>2, FileFacts DEF CoreHolds
    <3> QED BY <3>1, <3>2
  <2>3. ASSUME NEW p \in mem.plugins, ConfigOf(p) \notin open \ {f}
        PROVE  mem.var[p] = IF ConfigFile \in there THEN Read(0, d[ConfigOf(p)]) ELSE 0
    <3>1. p \in Plugins /\ ConfigOf(p) \in Files
      BY <1>1, FileFacts
    <3>2. CASE f = ConfigOf(p)
      <4>1. ConfigFile \in there
        BY <3>1, <3>2 DEF FilesSound
      <4> QED BY <1>1, <3>1, <3>2, <4>1, ContentRead
    <3>3. CASE f # ConfigOf(p)
      BY <1>2, <2>3, <3>1, <3>3 DEF CoreHolds
    <3> QED BY <3>2, <3>3
  <2> QED BY <2>1, <2>2, <2>3
<1>3. ASSUME SessionsHold(mem, disk, open), NEW s \in Sessions
      PROVE  /\ Owner[s] \in mem.plugins /\ SessionsOf(Owner[s]) \notin open \ {f} => Line(d, s) = mem.session[s]
             /\ mem.session[s] # Absent /\ Userlist(s) \notin open \ {f} => d[Userlist(s)] = mem.roster[s]
  <2>1. SessionsOf(Owner[s]) \in Files /\ Userlist(s) \in Files
    BY FileFacts, ConstantFacts
  <2>2. CASE f = SessionsOf(Owner[s])
    <3>1. f # Userlist(s) /\ Line(d, s) = mem.session[s]
      BY <1>1, <2>2, KindFacts, ContentRead DEF Line
    <3> QED BY <1>3, <2>1, <3>1 DEF SessionsHold
  <2>3. CASE f = Userlist(s)
    <3>1. f # SessionsOf(Owner[s]) /\ d[Userlist(s)] = mem.roster[s]
      BY <1>1, <2>3, KindFacts, ContentRead
    <3> QED BY <1>3, <2>1, <3>1 DEF SessionsHold, Line
  <2>4. CASE f # SessionsOf(Owner[s]) /\ f # Userlist(s)
    BY <1>3, <2>1, <2>4 DEF SessionsHold, Line
  <2> QED BY <2>2, <2>3, <2>4
<1>4. SessionsHold(mem, disk, open) => SessionsHold(mem, d, open \ {f})
  BY <1>3 DEF SessionsHold
<1> QED BY <1>2, <1>4

\* A start finds what the files hold.
LEMMA StartHolds ==
  ASSUME disk \in DiskT, NEW m, m = Started({})
  PROVE  CoreHolds(m, disk, there, {}) /\ SessionsHold(m, disk, {})
<1>1. PICK x : x = {}
  OBVIOUS
<1>2. /\ m \in MemT
      /\ m.plugins = AllOf(disk[PluginsFile] \cup x)
      /\ m.lists = disk[ConfigFile].lists
      /\ m.set = Read(0, disk[ConfigFile].set)
      /\ \A p \in Plugins : m.var[p] = IF p \in m.plugins /\ ConfigFile \in there
                                       THEN Read(0, disk[ConfigOf(p)]) ELSE 0
      /\ \A s \in Sessions :
           /\ m.session[s] = IF Owner[s] \in m.plugins THEN Line(disk, s) ELSE Absent
           /\ m.roster[s] = IF m.session[s] = Absent THEN 0 ELSE disk[Userlist(s)]
  <2>1. x \in SUBSET UI
    BY <1>1
  <2> QED BY <1>1, <2>1, StartedFacts
<1>3. m.plugins = AllOf(disk[PluginsFile]) /\ m.plugins \subseteq Plugins
  <2>1. disk[PluginsFile] \cup x = disk[PluginsFile]
    BY <1>1
  <2> QED BY <1>2, <2>1, MemFacts
<1>4. CoreHolds(m, disk, there, {})
  BY <1>2, <1>3 DEF CoreHolds
<1>5. SessionsHold(m, disk, {})
  BY <1>2 DEF SessionsHold
<1> QED BY <1>4, <1>5

\* /reload when the files hold a line of every variable of what is loaded.
LEMMA ReloadHolds ==
  ASSUME Sound, Good(mem), ReloadAll, ~ReloadAny
  PROVE  CoreHolds(mem', disk', there', {}) /\ SessionsHold(mem', disk', {})
<1>1. PICK m, d : m = mem' /\ d = disk'
  OBVIOUS
<1>2. PICK r : r = Started({})
  OBVIOUS
<1>3. /\ mem.plugins \cup disk[PluginsFile] = r.plugins
      /\ disk[ConfigFile].set # Absent
      /\ \A p \in r.plugins : disk[ConfigOf(p)] # Absent
      /\ ConfigFile \in there
  BY <1>2 DEF ReloadAll, FilesComplete
<1>4. r.plugins = AllOf(disk[PluginsFile])
  <2>1. PICK x : x = {}
    OBVIOUS
  <2>2. disk[PluginsFile] \cup x = disk[PluginsFile] /\ x \in SUBSET UI
    BY <2>1
  <2> QED BY <1>2, <2>1, <2>2, StartedFacts DEF Sound, Typed
<1>5. /\ Good(m) /\ m.plugins = WithMissing.plugins
      /\ m.lists = disk[ConfigFile].lists
      /\ disk[ConfigFile].set # Absent => m.set = disk[ConfigFile].set
      /\ \A p \in Plugins : IF p \in m.plugins
                           THEN disk[ConfigOf(p)] # Absent => m.var[p] = disk[ConfigOf(p)]
                           ELSE m.var[p] = 0
      /\ \A s \in Sessions :
           /\ m.session[s] = IF Owner[s] \in m.plugins THEN Line(d, s) ELSE Absent
           /\ m.roster[s] = IF m.session[s] = Absent THEN 0 ELSE d[Userlist(s)]
  BY <1>1, ReloadFacts
<1>6. m.plugins = r.plugins /\ m.plugins \subseteq Plugins
  <2>1. WithMissing.plugins = mem.plugins \cup disk[PluginsFile]
    BY MissingFacts DEF Sound, Typed
  <2> QED BY <1>3, <1>5, <2>1, MemFacts DEF Good
<1>7. CommandStep
  BY ReloadStep
<1>8. \A f \in Files : f \notin Rosters => d[f] = disk[f]
  BY <1>1, <1>7 DEF CommandStep, Rosters
<1>9. /\ d[PluginsFile] = disk[PluginsFile] /\ d[ConfigFile] = disk[ConfigFile]
      /\ \A p \in Plugins : d[ConfigOf(p)] = disk[ConfigOf(p)]
  BY <1>8, FileFacts, KindFacts, RosterFacts
<1>10. ConfigFile \in there'
  BY <1>3, <1>7 DEF CommandStep
<1>11. CoreHolds(m, d, there', {})
  <2>1. AllOf(d[PluginsFile]) = m.plugins
    BY <1>4, <1>6, <1>9
  <2>2. d[ConfigFile].lists = m.lists /\ Read(0, d[ConfigFile].set) = m.set
    BY <1>3, <1>5, <1>9, ReadTyped
  <2>3. \A p \in m.plugins : m.var[p] = Read(0, d[ConfigOf(p)])
    BY <1>3, <1>5, <1>6, <1>9, ReadTyped
  <2> QED BY <1>10, <2>1, <2>2, <2>3 DEF CoreHolds
<1>12. SessionsHold(m, d, {})
  BY <1>5 DEF SessionsHold
<1> QED BY <1>1, <1>11, <1>12

\* /reload when there is no configuration file.
LEMMA NoConfigHolds ==
  ASSUME Sound, Good(mem), FilesSound, ReloadNoConfig, ~changed'
  PROVE  /\ CoreHolds(mem, disk, there, {}) => CoreHolds(mem', disk', there', {})
         /\ SessionsHold(mem, disk, {}) => SessionsHold(mem', disk', {})
<1>1. /\ ConfigFile \notin there /\ disk' = disk /\ there' = there /\ changed' = (changed \/ Missing # {})
      /\ mem'.plugins = WithMissing.plugins /\ mem'.lists = 0 /\ mem'.set \in {0, mem.set}
      /\ \A p \in Plugins : mem'.var[p] \in {0, WithMissing.var[p]}
      /\ mem'.session = WithMissing.session /\ mem'.roster = WithMissing.roster
  BY NoConfigStep
<1>2. Missing = {}
  BY <1>1
<1>3. PICK n : n = WithMissing
  OBVIOUS
<1>4. /\ n.plugins = mem.plugins \cup disk[PluginsFile]
      /\ \A p \in Plugins : p \notin Missing => n.var[p] = mem.var[p]
      /\ \A s \in Sessions : Owner[s] \notin Missing => n.session[s] = mem.session[s] /\ n.roster[s] = mem.roster[s]
  BY <1>3, MissingFacts DEF Sound, Typed
<1>5. n.plugins = mem.plugins
  BY <1>2, <1>4 DEF Missing
<1>6. /\ \A p \in Plugins : n.var[p] = mem.var[p]
      /\ \A s \in Sessions : n.session[s] = mem.session[s] /\ n.roster[s] = mem.roster[s]
  BY <1>2, <1>4
<1>7. disk[ConfigFile].lists = 0 /\ Read(0, disk[ConfigFile].set) = 0
  <2>1. disk[ConfigFile] = [lists |-> 0, set |-> Absent, layout |-> Absent]
    BY <1>1, FileFacts, EmptyFacts DEF FilesSound
  <2> QED BY <2>1, ReadTyped
<1>8. /\ mem'.plugins = n.plugins /\ mem'.session = n.session /\ mem'.roster = n.roster
      /\ \A p \in Plugins : mem'.var[p] \in {0, n.var[p]}
  BY <1>1, <1>3
<1>9. mem.plugins \subseteq Plugins
  BY MemFacts DEF Good
<1>10. CoreHolds(mem, disk, there, {}) => CoreHolds(mem', disk', there', {})
  BY <1>1, <1>5, <1>6, <1>7, <1>8, <1>9 DEF CoreHolds
<1>11. SessionsHold(mem, disk, {}) => SessionsHold(mem', disk', {})
  BY <1>1, <1>5, <1>6, <1>8 DEF SessionsHold
<1> QED BY <1>10, <1>11

\* The end of a save that clears the flags.
LEMMA SaveHolds ==
  ASSUME Sound, FilesSound, Written, SaveEnd, Cleared
  PROVE  CoreHolds(mem, disk, there, {}) /\ SessionsHold(mem, disk, {})
<1>1. running /\ job.by \in {"save", "autosave"} /\ job.todo = << >> /\ Calls = << >> /\ ~job.failed
  BY EndStep DEF Cleared
<1>2. job.calls = << >>
  BY <1>1 DEF Calls
<1>3. \A f : ~Ahead(job, mem, f)
  <2>1. Closing(job.todo) = {} /\ Len(job.calls) = 0
    BY <1>1, <1>2, NoJobFacts
  <2> QED BY <2>1 DEF Ahead
<1>4. \A c \in {"config", "sessions"} : \A f \in Named(mem, c) : disk[f] = Content(mem, f)
  BY <1>1, <1>3 DEF Written, Asked, CallNames
<1>5. mem \in MemT /\ mem.plugins \subseteq Plugins /\ mem.plugins \cap UI # {}
  BY <1>1, MemFacts DEF Sound, Typed, Planned
<1>6. /\ disk[PluginsFile] = Content(mem, PluginsFile) /\ disk[ConfigFile] = Content(mem, ConfigFile)
      /\ \A p \in mem.plugins : disk[ConfigOf(p)] = Content(mem, ConfigOf(p))
  BY <1>4, NamedFacts
<1>7. ConfigFile \in there
  <2>1. mem.set # Absent
    BY <1>5, MemFacts DEF Bits, Absent
  <2>2. Content(mem, ConfigFile).set = mem.set /\ Empty(ConfigFile).set = Absent
    BY ContentFacts, EmptyFacts
  <2> QED BY <1>6, <2>1, <2>2, FileFacts DEF FilesSound
<1>8. CoreHolds(mem, disk, there, {})
  BY <1>5, <1>6, <1>7, ContentRead DEF CoreHolds
<1>9. SessionsHold(mem, disk, {})
  <2> SUFFICES ASSUME NEW s \in Sessions
               PROVE  /\ Owner[s] \in mem.plugins => Line(disk, s) = mem.session[s]
                      /\ mem.session[s] # Absent => disk[Userlist(s)] = mem.roster[s]
    BY DEF SessionsHold
  <2>1. Owner[s] \in mem.plugins => SessionsOf(Owner[s]) \in Named(mem, "sessions")
    BY ConstantFacts, NamedFacts
  <2>2. mem.session[s] # Absent => Userlist(s) \in Named(mem, "sessions")
    BY NamedFacts
  <2> QED BY <1>4, <1>5, <2>1, <2>2, ContentRead DEF Line
<1> QED BY <1>8, <1>9

LEMMA HoldsCommand ==
  ASSUME Sound, FilesSound, Holds, ~QuietToo, ~ReloadAny, EditNext \/ Reload
  PROVE  Holds'
<1>1. CommandStep
  BY CommandSteps
<1>2. /\ job = NoJob /\ job' = NoJob /\ running /\ running' /\ job.todo = << >> /\ job'.todo = << >>
      /\ job.by # "exit" /\ Good(mem)
  BY <1>1, NoJobFacts, RestGood DEF CommandStep, AtRest
<1>3. Opened(job.todo) = {} /\ Opened(job'.todo) = {}
  BY <1>2, NoJobFacts
<1> SUFFICES ASSUME ~changed'
             PROVE  CoreHolds(mem', disk', there', {}) /\ (~reason' => SessionsHold(mem', disk', {}))
  BY <1>3 DEF Holds
<1>4. CASE ReloadAll
  BY <1>2, <1>4, ReloadHolds
<1>5. CASE ~changed /\ (Unseen \/ Told \/ ReloadNoConfig)
  <2>1. CoreHolds(mem, disk, there, {}) /\ (~reason => SessionsHold(mem, disk, {}))
    BY <1>2, <1>3, <1>5 DEF Holds
  <2>2. CASE Unseen
    BY <2>1, <2>2, CoreSame, SessionsSame DEF Unseen, Alike
  <2>3. CASE Told
    BY <2>1, <2>3, CoreSame DEF Told
  <2>4. CASE ReloadNoConfig
    <3>1. reason' = reason
      BY <2>4, Zenon DEF ReloadNoConfig, Edit
    <3> QED BY <1>2, <2>1, <2>4, <3>1, NoConfigHolds
  <2> QED BY <1>5, <2>2, <2>3, <2>4
<1> QED BY <1>4, <1>5, QuietSteps

LEMMA HoldsOpen ==
  ASSUME Sound, FilesSound, Holds, OpenFile
  PROVE  Holds'
<1>1. /\ job'.by = job.by /\ mem' = mem /\ changed' = changed /\ reason' = reason /\ running' = running
  BY OpenFileStep
<1>2. PICK f \in Files :
        /\ there' = there \cup {f} /\ \A g \in Files : disk'[g] = IF g = f THEN Empty(f) ELSE disk[g]
        /\ Opened(job'.todo) = Opened(job.todo) \cup {f}
  BY OpenFileStep
<1>3. PICK d, open : d = disk' /\ open = Opened(job.todo)
  OBVIOUS
<1>4. \A g \in Files : g # f => d[g] = disk[g]
  BY <1>2, <1>3
<1>5. mem.plugins \subseteq Plugins
  BY MemFacts DEF Sound, Typed
<1>6. /\ CoreHolds(mem, disk, there, open) => CoreHolds(mem, d, there \cup {f}, open \cup {f})
      /\ SessionsHold(mem, disk, open) => SessionsHold(mem, d, open \cup {f})
  BY <1>4, <1>5, CoreOpens
<1> QED BY <1>1, <1>2, <1>3, <1>6 DEF Holds

LEMMA HoldsClose ==
  ASSUME Sound, FilesSound, Holds, ~DiskFull, CloseFile
  PROVE  Holds'
<1>1. /\ job'.by = job.by /\ mem' = mem /\ changed' = changed /\ reason' = reason /\ running' = running
      /\ there' = there /\ running
  BY CloseFileStep
<1>2. PICK f \in Files :
        /\ f \in Opened(job.todo) /\ disk'[f] = Content(mem, f) /\ \A g \in Files : g # f => disk'[g] = disk[g]
        /\ Opened(job'.todo) = Opened(job.todo) \ {f}
  BY CloseFileStep
<1>3. PICK d, open : d = disk' /\ open = Opened(job.todo)
  OBVIOUS
<1>4. (\A g \in Files : g # f => d[g] = disk[g]) /\ d[f] = Content(mem, f) /\ f \in open
  BY <1>2, <1>3
<1>5. open \subseteq there /\ open \subseteq Files
  BY <1>3 DEF Sound, Typed, Planned
<1> SUFFICES ASSUME job.by # "exit" PROVE Holds'
  BY <1>1 DEF Holds
<1>6. mem.plugins \cap UI # {}
  BY <1>1 DEF Sound, Planned
<1>7. /\ CoreHolds(mem, disk, there, open) => CoreHolds(mem, d, there, open \ {f})
      /\ SessionsHold(mem, disk, open) => SessionsHold(mem, d, open \ {f})
  BY <1>4, <1>5, <1>6, CoreCloses
<1> QED BY <1>1, <1>2, <1>3, <1>7 DEF Holds

LEMMA HoldsNext ==
  ASSUME Sound, FilesSound, Written, Holds, ~QuietToo, ~ReloadAny, ~DiskFull, [Next]_vars
  PROVE  Holds'
<1>1. CASE EditNext \/ Reload
  BY <1>1, HoldsCommand
<1>2. CASE Save
  <2>1. /\ mem'.plugins = mem.plugins /\ mem'.var = mem.var /\ mem'.lists = mem.lists /\ mem'.set = mem.set
        /\ mem'.session = mem.session /\ mem'.roster = mem.roster
        /\ disk' = disk /\ there' = there /\ running /\ job = NoJob /\ changed' = changed /\ reason' = reason
        /\ job'.todo = << >>
    BY <1>2, SaveStep DEF Alike
  <2>2. Opened(job.todo) = {} /\ Opened(job'.todo) = {} /\ job.by # "exit"
    BY <2>1, NoJobFacts
  <2>3. CoreHolds(mem, disk, there, {}) => CoreHolds(mem', disk', there', {})
    BY <2>1, CoreSame
  <2>4. SessionsHold(mem, disk, {}) => SessionsHold(mem', disk', {})
    BY <2>1, SessionsSame
  <2> QED BY <2>1, <2>2, <2>3, <2>4 DEF Holds
<1>3. CASE Autosave
  BY <1>3, AutosaveStep DEF Holds
<1>4. CASE Call
  <2>1. /\ UNCHANGED <<mem, disk, there, changed, reason, running>> /\ job'.by = job.by /\ job.todo = << >>
        /\ Opened(job'.todo) = {}
    BY <1>4, CallStep
  <2>2. Opened(job.todo) = {}
    BY <2>1, NoJobFacts
  <2> QED BY <2>1, <2>2 DEF Holds
<1>5. CASE OpenFile
  BY <1>5, HoldsOpen
<1>6. CASE OpenFails
  <2>1. /\ UNCHANGED <<mem, disk, there, changed, reason, running>> /\ job'.by = job.by
        /\ Opened(job'.todo) = Opened(job.todo)
    BY <1>6, OpenFailsStep
  <2> QED BY <2>1 DEF Holds
<1>7. CASE CloseFile
  BY <1>7, HoldsClose
<1>8. CASE SaveEnd
  <2>1. /\ mem' = mem /\ disk' = disk /\ there' = there /\ job' = NoJob /\ job.todo = << >> /\ running
        /\ job.by # "exit" /\ changed' = (changed /\ ~Cleared) /\ reason' = (reason /\ ~Cleared)
    BY <1>8, EndStep
  <2>2. Opened(job.todo) = {} /\ Opened(job'.todo) = {}
    BY <2>1, NoJobFacts
  <2>3. CASE Cleared
    <3>1. CoreHolds(mem, disk, there, {}) /\ SessionsHold(mem, disk, {})
      BY <1>8, <2>3, SaveHolds
    <3> QED BY <2>1, <2>2, <3>1 DEF Holds
  <2>4. CASE ~Cleared
    BY <2>1, <2>2, <2>4 DEF Holds
  <2> QED BY <2>3, <2>4
<1>9. CASE ExitEnd \/ Crash
  BY <1>9 DEF ExitEnd, Crash, Gone, Holds
<1>10. CASE \E front \in Frontends : Start(front)
  <2>1. PICK front \in Frontends : Start(front)
    BY <1>10
  <2>2. /\ mem' = Started(front) /\ disk' = disk /\ there' = there /\ changed' = (front # {}) /\ job' = NoJob
    BY <2>1, StartStep
  <2> SUFFICES ASSUME ~changed' PROVE Holds'
    BY DEF Holds
  <2>3. mem' = Started({})
    BY <2>2
  <2>4. CoreHolds(Started({}), disk, there, {}) /\ SessionsHold(Started({}), disk, {})
    BY StartHolds DEF Sound, Typed
  <2>5. Opened(job'.todo) = {}
    BY <2>2, NoJobFacts
  <2> QED BY <2>2, <2>3, <2>4, <2>5 DEF Holds
<1>11. CASE Quit \/ Signal
  <2>1. running /\ Exit
    BY <1>11, QuitStep, SignalStep
  <2>2. job'.by = "exit"
    BY <2>1, ExitFacts
  <2> QED BY <2>2 DEF Holds
<1>12. CASE UNCHANGED vars
  BY <1>12 DEF vars, Holds
<1> QED BY <1>1, <1>2, <1>3, <1>4, <1>5, <1>6, <1>7, <1>8, <1>9, <1>10, <1>11, <1>12, NextCases

\* What holds is what the next start finds.
LEMMA HoldsAgree ==
  ASSUME Sound, FilesSound, Holds
  PROVE  NothingForgotten
<1> SUFFICES ASSUME AtRest, ~changed, ~reason, mem.plugins \cap Protocols # {}, NEW r, r = Started({})
             PROVE  /\ mem.plugins \cap Plugins = r.plugins \cap Plugins
                    /\ mem.lists = r.lists /\ mem.set = r.set
                    /\ \A p \in Plugins : mem.var[p] = r.var[p]
                    /\ mem.session = r.session /\ mem.roster = r.roster
  BY DEF NothingForgotten, Agree
<1>1. Good(mem)
  BY RestGood
<1>2. CoreHolds(mem, disk, there, {}) /\ SessionsHold(mem, disk, {})
  <2>1. job = NoJob /\ running
    BY DEF AtRest
  <2> QED BY <2>1, NoJobFacts DEF Holds
<1>3. PICK x : x = {}
  OBVIOUS
<1>4. /\ r \in MemT
      /\ r.plugins = AllOf(disk[PluginsFile] \cup x)
      /\ r.lists = disk[ConfigFile].lists
      /\ r.set = Read(0, disk[ConfigFile].set)
      /\ \A p \in Plugins : r.var[p] = IF p \in r.plugins /\ ConfigFile \in there
                                       THEN Read(0, disk[ConfigOf(p)]) ELSE 0
      /\ \A s \in Sessions :
           /\ r.session[s] = IF Owner[s] \in r.plugins THEN Line(disk, s) ELSE Absent
           /\ r.roster[s] = IF r.session[s] = Absent THEN 0 ELSE disk[Userlist(s)]
  <2>1. x \in SUBSET UI /\ r = Started(x)
    BY <1>3
  <2>2. disk \in DiskT
    BY DEF Sound, Typed
  <2> QED BY <2>1, <2>2, StartedFacts
<1>5. mem.plugins = r.plugins
  <2>1. disk[PluginsFile] \cup x = disk[PluginsFile]
    BY <1>3
  <2> QED BY <1>2, <1>4, <2>1 DEF CoreHolds
<1>6. mem.lists = r.lists /\ mem.set = r.set
  BY <1>2, <1>4 DEF CoreHolds
<1>7. ASSUME NEW p \in Plugins PROVE mem.var[p] = r.var[p]
  <2>1. r.var[p] = IF p \in mem.plugins /\ ConfigFile \in there THEN Read(0, disk[ConfigOf(p)]) ELSE 0
    BY <1>4, <1>5
  <2>2. CASE p \in mem.plugins
    BY <1>2, <2>1, <2>2 DEF CoreHolds
  <2>3. CASE p \notin mem.plugins
    BY <1>1, <2>1, <2>3 DEF Good, Tidy
  <2> QED BY <2>2, <2>3
<1>8. ASSUME NEW s \in Sessions PROVE mem.session[s] = r.session[s] /\ mem.roster[s] = r.roster[s]
  <2>1. mem.session[s] = r.session[s]
    BY <1>1, <1>2, <1>4, <1>5 DEF SessionsHold, Good, Tidy
  <2> QED BY <1>1, <1>2, <1>4, <2>1 DEF SessionsHold, Good, Tidy
<1>9. mem.session = r.session /\ mem.roster = r.roster
  BY <1>1, <1>4, <1>8, MemFacts DEF Good
<1> QED BY <1>5, <1>6, <1>7, <1>9

\* The inductive invariant of what follows.
Secure == Sound /\ FilesSound /\ Ordered /\ Written /\ Holds

LEMMA InitKept ==
  ASSUME Init
  PROVE  Secure
<1>1. job = NoJob /\ ~running
  BY DEF Init
<1>2. Written
  BY <1>1, NoJobFacts DEF Written, Asked
<1>3. Holds
  BY <1>1 DEF Holds
<1> QED BY <1>2, <1>3, InitSound, InitOrdered DEF Secure

\* While both flags are down the files hold everything that is set (commands.c:1646-1659,
\* ekg.c:226-231, commands.c:2431-2453).  Assumed is that a file can be written to its end, that
\* rosters can be opened, whose failure no caller asks for, that /set --quiet is not given, which
\* raises no flag, and that /reload comes when the files name all that is loaded and hold a line of
\* every variable: the code loses changes otherwise.
THEOREM NothingIsForgotten ==
  ASSUME ~DiskFull, ~QuietToo, ~ReloadAny, "userlist" \notin MayFail
  PROVE  Spec => []NothingForgotten
<1>1. Init => Secure
  BY InitKept
<1>2. Secure /\ [Next]_vars => Secure'
  BY NextSound, FilesNext, WrittenNext, HoldsNext DEF Secure
<1>3. Secure => NothingForgotten
  BY HoldsAgree DEF Secure
<1> QED BY <1>1, <1>2, <1>3, PTL DEF Spec

-----------------------------------------------------------------------------
(* What an exit leaves behind. *)

AtExitOf(m) == AtExit([m EXCEPT !.layout = m.windows])

Saved(c) == \E i \in 1..Len(left.saved) : left.saved[i] = c

\* Only sessions and rosters are still to be written.
OnlySessions ==
  /\ \A f \in Closing(job.todo) : f[1] \in {"sessions", "userlist"}
  /\ \A i \in 1..Len(job.calls) : job.calls[i] = "sessions"

\* An exit that saves works on what was in memory; when it is over the files hold that, and when
\* only sessions are saved, the other files held it before.
Leaves ==
  left.saved # << >> =>
    /\ Good(left.mem)
    /\ running => job.by = "exit" /\ mem = AtExitOf(left.mem)
    /\ ~running => \A c \in CallNames : Saved(c) =>
         \A f \in Named(AtExitOf(left.mem), c) : disk[f] = Content(AtExitOf(left.mem), f)
    /\ left.saved = <<"sessions">> =>
         CoreHolds(left.mem, disk, there, torn) /\ (running => OnlySessions)

CoreFiles == {PluginsFile, ConfigFile} \cup {ConfigOf(p) : p \in Plugins}

LEMMA CoreFilesFacts ==
  /\ CoreFiles \subseteq Files /\ \A f \in CoreFiles : f[1] \in {"plugins", "config"}
  /\ PluginsFile \in CoreFiles /\ ConfigFile \in CoreFiles /\ \A p \in Plugins : ConfigOf(p) \in CoreFiles
BY FileFacts, KindFacts DEF CoreFiles

\* What is done to other files, and to the layout in the configuration file, is not asked for.
LEMMA CoreKept ==
  ASSUME NEW m, m.plugins \subseteq Plugins, NEW d, NEW th, NEW open, CoreHolds(m, d, th, open),
         NEW e, NEW tt, NEW wider, \A f \in CoreFiles : f # ConfigFile => e[f] = d[f],
         e[ConfigFile].lists = d[ConfigFile].lists, e[ConfigFile].set = d[ConfigFile].set,
         ConfigFile \in tt <=> ConfigFile \in th, \A f \in CoreFiles : f \in open => f \in wider
  PROVE  CoreHolds(m, e, tt, wider)
<1> SUFFICES ASSUME m.plugins \cap Protocols # {}
             PROVE  /\ PluginsFile \notin wider => AllOf(e[PluginsFile]) = m.plugins
                    /\ ConfigFile \notin wider => e[ConfigFile].lists = m.lists /\ Read(0, e[ConfigFile].set) = m.set
                    /\ \A p \in m.plugins : ConfigOf(p) \notin wider =>
                         m.var[p] = IF ConfigFile \in tt THEN Read(0, e[ConfigOf(p)]) ELSE 0
  BY DEF CoreHolds
<1>1. PluginsFile \notin wider => AllOf(e[PluginsFile]) = m.plugins
  BY CoreFilesFacts, KindFacts DEF CoreHolds
<1>2. ConfigFile \notin wider => e[ConfigFile].lists = m.lists /\ Read(0, e[ConfigFile].set) = m.set
  BY CoreFilesFacts DEF CoreHolds
<1>3. ASSUME NEW p \in m.plugins, ConfigOf(p) \notin wider
      PROVE  m.var[p] = IF ConfigFile \in tt THEN Read(0, e[ConfigOf(p)]) ELSE 0
  <2>1. ConfigOf(p) \in CoreFiles /\ ConfigOf(p) # ConfigFile
    BY CoreFilesFacts, KindFacts
  <2>2. ConfigOf(p) \notin open /\ e[ConfigOf(p)] = d[ConfigOf(p)]
    BY <1>3, <2>1
  <2> QED BY <2>2 DEF CoreHolds
<1> QED BY <1>1, <1>2, <1>3

LEMMA NothingLeft ==
  ASSUME Leaves, running, job.by # "exit"
  PROVE  left.saved = << >>
BY DEF Leaves

\* A step of saving.
LEMMA LeavesGoesOn ==
  ASSUME Leaves, running, running' = running, left' = left, mem' = mem, job'.by = job.by,
         left.saved = <<"sessions">> => CoreHolds(left.mem, disk', there', torn') /\ OnlySessions'
  PROVE  Leaves'
BY DEF Leaves

LEMMA LeavesCall ==
  ASSUME Sound, Leaves, Call
  PROVE  Leaves'
<1>1. /\ running /\ running' = running /\ left' = left /\ mem' = mem /\ job'.by = job.by /\ disk' = disk
      /\ there' = there /\ job.calls # << >> /\ Closing(job'.todo) = Named(mem, Head(job.calls))
      /\ job'.calls = Tail(job.calls) /\ job.calls \in Seq(CallNames)
  BY CallStep, JobFacts DEF Sound, Typed
<1>2. torn' = torn
  BY Zenon DEF Call
<1>3. ASSUME left.saved = <<"sessions">>
      PROVE  CoreHolds(left.mem, disk', there', torn') /\ OnlySessions'
  <2>1. left.saved # << >>
    BY <1>3
  <2>2. CoreHolds(left.mem, disk, there, torn) /\ OnlySessions
    BY <1>1, <1>3, <2>1 DEF Leaves
  <2>3. PICK cs, r, c : cs = job.calls /\ r = Tail(cs) /\ c = Head(cs)
    OBVIOUS
  <2>4. cs # << >> /\ cs \in Seq(CallNames) /\ \A i \in 1..Len(cs) : cs[i] = "sessions"
    BY <1>1, <2>2, <2>3 DEF OnlySessions
  <2>5. c = cs[1] /\ Len(cs) \in Nat /\ Len(cs) # 0 /\ Len(r) = Len(cs) - 1 /\ \A k \in 1..Len(r) : r[k] = cs[k + 1]
    BY <2>3, <2>4, HeadTailProperties, LenProperties
  <2>6. c = "sessions"
    <3>1. 1 \in 1..Len(cs)
      BY <2>5
    <3> QED BY <2>4, <2>5, <3>1
  <2>7. \A k \in 1..Len(r) : r[k] = "sessions"
    BY <2>4, <2>5
  <2>8. \A f \in Named(mem, "sessions") : f[1] \in {"sessions", "userlist"}
    BY NamedFacts, KindFacts
  <2>9. OnlySessions'
    BY <1>1, <2>3, <2>6, <2>7, <2>8 DEF OnlySessions
  <2> QED BY <1>1, <1>2, <2>2, <2>9
<1> QED BY <1>1, <1>3, LeavesGoesOn

LEMMA LeavesOpen ==
  ASSUME Sound, Leaves, OpenFile
  PROVE  Leaves'
<1>1. /\ running /\ running' = running /\ left' = left /\ mem' = mem /\ job'.by = job.by /\ job'.calls = job.calls
  BY OpenFileStep
<1>2. PICK f \in Files :
        /\ f \in Closing(job.todo) /\ there' = there \cup {f} /\ torn' = torn \cup {f}
        /\ \A g \in Files : disk'[g] = IF g = f THEN Empty(f) ELSE disk[g]
        /\ Closing(job'.todo) = Closing(job.todo)
  BY OpenFileStep
<1>3. ASSUME left.saved = <<"sessions">>
      PROVE  CoreHolds(left.mem, disk', there', torn') /\ OnlySessions'
  <2>1. left.saved # << >>
    BY <1>3
  <2>2. CoreHolds(left.mem, disk, there, torn) /\ OnlySessions /\ Good(left.mem)
    BY <1>1, <1>3, <2>1 DEF Leaves
  <2>3. f[1] \in {"sessions", "userlist"} /\ OnlySessions'
    BY <1>1, <1>2, <2>2 DEF OnlySessions
  <2>4. f \notin CoreFiles
    BY <2>3, CoreFilesFacts
  <2>5. PICK d, tt, o, m : d = disk' /\ tt = there' /\ o = torn' /\ m = left.mem
    OBVIOUS
  <2>6. \A g \in CoreFiles : d[g] = disk[g]
    BY <1>2, <2>4, <2>5, CoreFilesFacts
  <2>7. /\ ConfigFile \in CoreFiles /\ (ConfigFile \in tt <=> ConfigFile \in there)
        /\ \A g \in CoreFiles : g \in torn => g \in o
    BY <1>2, <2>4, <2>5, CoreFilesFacts
  <2>8. m.plugins \subseteq Plugins
    BY <2>2, <2>5, MemFacts DEF Good
  <2>9. CoreHolds(m, d, tt, o)
    BY <2>2, <2>5, <2>6, <2>7, <2>8, CoreKept
  <2> QED BY <2>3, <2>5, <2>9
<1> QED BY <1>1, <1>3, LeavesGoesOn

LEMMA LeavesClose ==
  ASSUME Sound, Leaves, CloseFile
  PROVE  Leaves'
<1>1. /\ running /\ running' = running /\ left' = left /\ mem' = mem /\ job'.by = job.by /\ job'.calls = job.calls
      /\ there' = there
  BY CloseFileStep
<1>2. PICK f \in Files :
        /\ f \in Closing(job.todo) /\ torn' = torn \ {f}
        /\ \A g \in Files : g # f => disk'[g] = disk[g]
        /\ Closing(job'.todo) = Closing(job.todo) \ {f}
  BY CloseFileStep
<1>3. ASSUME left.saved = <<"sessions">>
      PROVE  CoreHolds(left.mem, disk', there', torn') /\ OnlySessions'
  <2>1. left.saved # << >>
    BY <1>3
  <2>2. CoreHolds(left.mem, disk, there, torn) /\ OnlySessions /\ Good(left.mem)
    BY <1>1, <1>3, <2>1 DEF Leaves
  <2>3. f[1] \in {"sessions", "userlist"} /\ OnlySessions'
    BY <1>1, <1>2, <2>2 DEF OnlySessions
  <2>4. f \notin CoreFiles
    BY <2>3, CoreFilesFacts
  <2>5. PICK d, o, m : d = disk' /\ o = torn' /\ m = left.mem
    OBVIOUS
  <2>6. \A g \in CoreFiles : d[g] = disk[g]
    BY <1>2, <2>4, <2>5, CoreFilesFacts
  <2>7. ConfigFile \in CoreFiles /\ \A g \in CoreFiles : g \in torn => g \in o
    BY <1>2, <2>4, <2>5, CoreFilesFacts
  <2>8. m.plugins \subseteq Plugins
    BY <2>2, <2>5, MemFacts DEF Good
  <2>9. CoreHolds(m, d, there, o)
    BY <2>2, <2>5, <2>6, <2>7, <2>8, CoreKept
  <2> QED BY <1>1, <2>3, <2>5, <2>9
<1> QED BY <1>1, <1>3, LeavesGoesOn

LEMMA LeavesFail ==
  ASSUME Sound, Leaves, OpenFails
  PROVE  Leaves'
<1>1. /\ running /\ running' = running /\ left' = left /\ mem' = mem /\ job'.by = job.by /\ job'.calls = job.calls
      /\ there' = there /\ disk' = disk /\ Closing(job'.todo) \subseteq Closing(job.todo)
  BY OpenFailsStep
<1>2. torn' = torn
  BY Zenon DEF OpenFails
<1>3. ASSUME left.saved = <<"sessions">>
      PROVE  CoreHolds(left.mem, disk', there', torn') /\ OnlySessions'
  <2>1. left.saved # << >>
    BY <1>3
  <2> QED BY <1>1, <1>2, <1>3, <2>1 DEF Leaves, OnlySessions
<1> QED BY <1>1, <1>3, LeavesGoesOn

\* The program begins to end.
LEMMA LeavesExit ==
  ASSUME Sound, Holds, running, job.by # "exit", Exit
  PROVE  Leaves'
<1>1. PICK cs, m : cs = job'.calls /\ m = mem
  OBVIOUS
<1>2. /\ mem' = AtExitOf(m) /\ running' = running /\ job'.by = "exit" /\ job'.todo = << >> /\ torn' = torn
      /\ left' = (IF cs = << >> THEN NotSaved ELSE [mem |-> m, saved |-> cs])
      /\ \E quit \in SaveQuit : cs \in Answers(quit)
      /\ there' = there /\ (ConfigFile \notin there => disk' = disk)
      /\ \A f \in Files : f # ConfigFile => disk'[f] = disk[f]
      /\ disk'[ConfigFile].lists = disk[ConfigFile].lists /\ disk'[ConfigFile].set = disk[ConfigFile].set
  <2>1. /\ mem' = AtExit([mem EXCEPT !.layout = mem.windows]) /\ running' = running
        /\ job'.by = "exit" /\ job'.todo = << >> /\ torn' = torn
        /\ left' = (IF cs = << >> THEN NotSaved ELSE [mem |-> mem, saved |-> cs])
        /\ \E quit \in SaveQuit : cs \in Answers(quit)
        /\ there' = there /\ (ConfigFile \notin there => disk' = disk)
        /\ \A f \in Files : f # ConfigFile => disk'[f] = disk[f]
        /\ disk'[ConfigFile].lists = disk[ConfigFile].lists /\ disk'[ConfigFile].set = disk[ConfigFile].set
    BY <1>1, ExitFacts
  <2> QED BY <1>1, <2>1, Zenon DEF AtExitOf
<1>3. CASE cs = << >>
  <2>1. left'.saved = << >>
    BY <1>2, <1>3 DEF NotSaved
  <2> QED BY <2>1 DEF Leaves
<1>4. CASE cs # << >>
  <2>1. left'.mem = m /\ left'.saved = cs
    BY <1>2, <1>4
  <2>2. Good(m)
    BY <1>1 DEF Sound, Typed, Planned, Good
  <2>3. ASSUME cs = <<"sessions">>
        PROVE  CoreHolds(m, disk', there', torn') /\ OnlySessions'
    <3>1. ~changed
      <4>1. PICK quit \in SaveQuit : cs \in Answers(quit)
        BY <1>2
      <4>2. cs # Everything
        <5>1. Len(<<"sessions">>) = 1 /\ Len(Everything) = 4
          BY DEF Everything
        <5> QED BY <2>3, <5>1
      <4> QED BY <1>4, <4>1, <4>2 DEF Answers
    <3>2. PICK open : open = Opened(job.todo)
      OBVIOUS
    <3>3. CoreHolds(m, disk, there, open) /\ open \subseteq torn
      BY <1>1, <3>1, <3>2 DEF Holds, Sound, Planned
    <3>4. PICK d : d = disk'
      OBVIOUS
    <3>5. /\ \A f \in CoreFiles : f # ConfigFile => d[f] = disk[f]
          /\ d[ConfigFile].lists = disk[ConfigFile].lists /\ d[ConfigFile].set = disk[ConfigFile].set
      BY <1>2, <3>4, CoreFilesFacts
    <3>6. m.plugins \subseteq Plugins
      BY <2>2, MemFacts DEF Good
    <3>7. CoreHolds(m, d, there, torn)
      BY <3>3, <3>5, <3>6, CoreKept
    <3>8. Closing(job'.todo) = {}
      BY <1>2, NoJobFacts
    <3>9. \A i \in 1..Len(cs) : cs[i] = "sessions"
      BY <2>3
    <3>10. OnlySessions'
      BY <1>1, <3>8, <3>9 DEF OnlySessions
    <3> QED BY <1>2, <3>4, <3>7, <3>10
  <2> QED BY <1>2, <2>1, <2>2, <2>3 DEF Leaves
<1> QED BY <1>3, <1>4

\* The program has ended.
LEMMA LeavesEnd ==
  ASSUME Sound, Written, Leaves, ExitEnd
  PROVE  Leaves'
<1>1. PICK fs : fs = Kept(mem, Sessions) \cup {ScriptsVar}
  OBVIOUS
<1>2. /\ running /\ job.by = "exit" /\ job.todo = << >> /\ Calls = << >> /\ ~running'
      /\ WriteNow(mem, fs) /\ left' = (IF job.failed THEN NotSaved ELSE left)
  BY <1>1, Zenon DEF ExitEnd, Done, Gone
<1>3. fs \subseteq Files /\ fs \cap CoreFiles = {}
  <2>1. \A f \in fs : f \in Files /\ (f[1] = "userlist" \/ f = ScriptsVar)
    BY <1>1, KeptFacts, RosterFacts, FileFacts
  <2> QED BY <2>1, CoreFilesFacts, KindFacts
<1>4. /\ torn' = torn \ fs /\ there' = there \cup fs
      /\ \A f \in Files : disk'[f] = IF f \in fs THEN Content(mem, f) ELSE disk[f]
  BY <1>2, <1>3, WriteNowFacts DEF Sound, Typed
<1>5. CASE job.failed
  <2>1. left'.saved = << >>
    BY <1>2, <1>5 DEF NotSaved
  <2> QED BY <2>1 DEF Leaves
<1>6. CASE ~job.failed
  <2>1. left' = left
    BY <1>2, <1>6
  <2> SUFFICES ASSUME left.saved # << >> PROVE Leaves'
    BY <2>1 DEF Leaves
  <2>2. PICK m, x : m = left.mem /\ x = AtExitOf(m)
    OBVIOUS
  <2>3. Good(m) /\ mem = x /\ (left.saved = <<"sessions">> => CoreHolds(m, disk, there, torn))
    BY <1>2, <2>2 DEF Leaves
  <2>4. mem.plugins \subseteq Plugins /\ m.plugins \subseteq Plugins
    BY <2>3, MemFacts DEF Good, Sound, Typed
  <2>5. job.calls = << >>
    BY <1>2, <1>6 DEF Calls
  <2>6. \A f : ~Ahead(job, mem, f)
    <3>1. Closing(job.todo) = {} /\ Len(job.calls) = 0
      BY <1>2, <2>5, NoJobFacts
    <3> QED BY <3>1 DEF Ahead
  <2>7. \A c \in CallNames : Saved(c) => \A f \in Named(x, c) : disk[f] = Content(x, f)
    BY <1>2, <1>6, <2>3, <2>6 DEF Written, Asked, Saved
  <2>8. \A c \in CallNames : Saved(c) => \A f \in Named(x, c) : disk'[f] = Content(x, f)
    <3>1. \A c \in CallNames : Named(x, c) \subseteq Files
      BY <2>3, <2>4, NamedFacts
    <3> QED BY <1>4, <2>3, <2>7, <3>1
  <2>9. CoreHolds(m, disk, there, torn) => CoreHolds(m, disk', there', torn')
    <3>1. PICK d, tt, o : d = disk' /\ tt = there' /\ o = torn'
      OBVIOUS
    <3>2. /\ \A f \in CoreFiles : d[f] = disk[f] /\ (f \in torn => f \in o)
          /\ ConfigFile \in CoreFiles /\ (ConfigFile \in tt <=> ConfigFile \in there)
      BY <1>3, <1>4, <3>1, CoreFilesFacts
    <3>3. CoreHolds(m, disk, there, torn) => CoreHolds(m, d, tt, o)
      BY <2>4, <3>2, CoreKept
    <3> QED BY <3>1, <3>3
  <2> QED BY <1>2, <2>1, <2>2, <2>3, <2>8, <2>9 DEF Leaves, Saved
<1> QED BY <1>5, <1>6

LEMMA LeavesNext ==
  ASSUME Sound, Written, Holds, Leaves, [Next]_vars
  PROVE  Leaves'
<1>1. CASE left' = left /\ left.saved = << >>
  BY <1>1 DEF Leaves
<1>2. CASE left' = NotSaved
  <2>1. left'.saved = << >>
    BY <1>2 DEF NotSaved
  <2> QED BY <2>1 DEF Leaves
<1>3. CASE EditNext \/ Reload
  <2>1. left' = left /\ running /\ job.by # "exit"
    BY <1>3, CommandSteps, NoJobFacts DEF CommandStep, AtRest
  <2> QED BY <1>1, <2>1, NothingLeft
<1>4. CASE Save \/ Autosave \/ SaveEnd
  <2>1. left' = left /\ running /\ job.by # "exit"
    BY <1>4, SaveStep, AutosaveStep, EndStep, NoJobFacts
  <2> QED BY <1>1, <2>1, NothingLeft
<1>5. CASE Quit \/ Signal
  <2>1. running /\ Exit /\ job.by # "exit"
    BY <1>5, QuitStep, SignalStep, NoJobFacts DEF Quit, AtRest, Signal
  <2> QED BY <2>1, LeavesExit
<1>6. CASE Crash \/ \E front \in Frontends : Start(front)
  BY <1>2, <1>6, CrashStep, StartStep
<1>7. CASE UNCHANGED vars
  BY <1>7 DEF vars, Leaves, Saved, OnlySessions
<1> QED BY <1>3, <1>4, <1>5, <1>6, <1>7, LeavesCall, LeavesOpen, LeavesFail, LeavesClose, LeavesEnd, NextCases

\* What a start finds that agrees with m, interfaces excepted.
LEMMA AgreeFacts ==
  ASSUME Sound, NEW m, Good(m), NEW r, r = Started({}), SessionsHold(m, disk, {}),
         m.plugins \cap Protocols # {} =>
           /\ r.plugins \ UI = m.plugins \ UI
           /\ disk[ConfigFile].lists = m.lists /\ Read(0, disk[ConfigFile].set) = m.set
           /\ \A p \in m.plugins \ UI : m.var[p] = IF ConfigFile \in there THEN Read(0, disk[ConfigOf(p)]) ELSE 0
  PROVE  Agree(m, Plugins \ UI)
<1> SUFFICES ASSUME m.plugins \cap Protocols # {}
             PROVE  /\ m.plugins \cap (Plugins \ UI) = r.plugins \cap (Plugins \ UI)
                    /\ m.lists = r.lists /\ m.set = r.set
                    /\ \A p \in Plugins \ UI : m.var[p] = r.var[p]
                    /\ m.session = r.session /\ m.roster = r.roster
  BY DEF Agree
<1>1. PICK x : x = {}
  OBVIOUS
<1>2. /\ r \in MemT
      /\ r.plugins = AllOf(disk[PluginsFile] \cup x)
      /\ r.lists = disk[ConfigFile].lists
      /\ r.set = Read(0, disk[ConfigFile].set)
      /\ \A p \in Plugins : r.var[p] = IF p \in r.plugins /\ ConfigFile \in there
                                       THEN Read(0, disk[ConfigOf(p)]) ELSE 0
      /\ \A s \in Sessions :
           /\ r.session[s] = IF Owner[s] \in r.plugins THEN Line(disk, s) ELSE Absent
           /\ r.roster[s] = IF r.session[s] = Absent THEN 0 ELSE disk[Userlist(s)]
  <2>1. x \in SUBSET UI
    BY <1>1
  <2>2. disk \in DiskT
    BY DEF Sound, Typed
  <2>3. r = Started(x)
    BY <1>1
  <2> QED BY <2>1, <2>2, <2>3, StartedFacts
<1>3. \A p \in Plugins \ UI : p \in m.plugins <=> p \in r.plugins
  OBVIOUS
<1>4. ASSUME NEW p \in Plugins \ UI PROVE m.var[p] = r.var[p]
  <2>1. r.var[p] = IF p \in m.plugins /\ ConfigFile \in there THEN Read(0, disk[ConfigOf(p)]) ELSE 0
    BY <1>2, <1>3
  <2>2. CASE p \in m.plugins
    BY <2>1, <2>2
  <2>3. CASE p \notin m.plugins
    BY <2>1, <2>3 DEF Good, Tidy
  <2> QED BY <2>2, <2>3
<1>5. ASSUME NEW s \in Sessions PROVE m.session[s] = r.session[s] /\ m.roster[s] = r.roster[s]
  <2>1. Owner[s] \in m.plugins <=> Owner[s] \in r.plugins
    BY <1>3, ConstantFacts
  <2>2. m.session[s] = r.session[s]
    BY <1>2, <2>1 DEF SessionsHold, Good, Tidy
  <2> QED BY <1>2, <2>2 DEF SessionsHold, Good, Tidy
<1>6. m.session = r.session /\ m.roster = r.roster
  BY <1>2, <1>5, MemFacts DEF Good
<1> QED BY <1>2, <1>3, <1>4, <1>6

LEMMA AtExitOfFacts ==
  ASSUME NEW m \in MemT, NEW r, r = AtExitOf(m)
  PROVE  /\ r \in MemT
         /\ r.plugins = m.plugins \ UI /\ r.layout = m.windows
         /\ \A p \in Plugins : r.var[p] = IF p \in UI THEN 0 ELSE m.var[p]
         /\ r.lists = m.lists /\ r.set = m.set /\ r.windows = m.windows
         /\ r.session = m.session /\ r.roster = m.roster /\ r.meta = m.meta
<1>1. r = AtExit([m EXCEPT !.layout = m.windows])
  BY Zenon DEF AtExitOf
<1> QED BY <1>1, AtExitFacts, Zenon

\* What was in memory at an exit that saved sessions is what the files hold of sessions.
LEMMA LeftSessions ==
  ASSUME NEW m, Good(m), \A f \in Named(AtExitOf(m), "sessions") : disk[f] = Content(AtExitOf(m), f)
  PROVE  SessionsHold(m, disk, {})
<1>1. PICK x : x = AtExitOf(m)
  OBVIOUS
<1>2. x \in MemT /\ x.plugins = m.plugins \ UI /\ x.session = m.session /\ x.roster = m.roster
  BY <1>1, AtExitOfFacts DEF Good
<1> SUFFICES ASSUME NEW s \in Sessions
             PROVE  /\ Owner[s] \in m.plugins => Line(disk, s) = m.session[s]
                    /\ m.session[s] # Absent => disk[Userlist(s)] = m.roster[s]
  BY DEF SessionsHold
<1>3. Owner[s] \in Protocols /\ Owner[s] \notin UI
  BY ConstantFacts
<1>4. Owner[s] \in m.plugins => SessionsOf(Owner[s]) \in Named(x, "sessions")
  BY <1>2, <1>3, NamedFacts
<1>5. m.session[s] # Absent => Userlist(s) \in Named(x, "sessions")
  BY <1>2, NamedFacts
<1>6. Content(x, SessionsOf(Owner[s]))[s] = m.session[s] /\ Content(x, Userlist(s)) = m.roster[s]
  BY <1>2, ContentRead
<1> QED BY <1>1, <1>4, <1>5, <1>6 DEF Line

\* The same of the other files.
LEMMA LeftAll ==
  ASSUME Sound, FilesSound, NEW m, Good(m), NEW r, r = Started({}),
         \A c \in CallNames : \A f \in Named(AtExitOf(m), c) : disk[f] = Content(AtExitOf(m), f)
  PROVE  /\ Agree(m, Plugins \ UI)
         /\ r.meta = m.meta /\ r.windows = m.windows
<1>1. PICK x : x = AtExitOf(m)
  OBVIOUS
<1>2. /\ x \in MemT /\ x.plugins = m.plugins \ UI /\ x.layout = m.windows
      /\ \A p \in Plugins : x.var[p] = IF p \in UI THEN 0 ELSE m.var[p]
      /\ x.lists = m.lists /\ x.set = m.set /\ x.meta = m.meta
  BY <1>1, AtExitOfFacts DEF Good
<1>3. \A f \in Named(x, "config") \cup Named(x, "meta") : disk[f] = Content(x, f)
  BY <1>1 DEF CallNames
<1>4. /\ disk[PluginsFile] = x.plugins /\ disk[ConfigFile] = Content(x, ConfigFile) /\ disk[Metacontacts] = x.meta
      /\ \A p \in x.plugins : disk[ConfigOf(p)] = Content(x, ConfigOf(p))
  BY <1>3, NamedFacts, ContentFacts
<1>5. /\ disk[ConfigFile].lists = m.lists /\ Read(0, disk[ConfigFile].set) = m.set
      /\ Read(0, disk[ConfigFile].layout) = m.windows
  BY <1>2, <1>4, ContentRead
<1>6. ConfigFile \in there
  <2>1. x.set # Absent
    BY <1>2, MemFacts DEF Bits, Absent
  <2>2. Content(x, ConfigFile).set = x.set /\ Empty(ConfigFile).set = Absent
    BY ContentFacts, EmptyFacts
  <2> QED BY <1>4, <2>1, <2>2, FileFacts DEF FilesSound
<1>7. PICK y : y = {}
  OBVIOUS
<1>8. /\ r.plugins = AllOf(disk[PluginsFile] \cup y) /\ r.layout = Read(0, disk[ConfigFile].layout)
      /\ r.windows = r.layout /\ r.meta = disk[Metacontacts]
  <2>1. y \in SUBSET UI
    BY <1>7
  <2>2. disk \in DiskT
    BY DEF Sound, Typed
  <2>3. r = Started(y)
    BY <1>7
  <2> QED BY <2>1, <2>2, <2>3, StartedFacts
<1>9. ASSUME m.plugins \cap Protocols # {} PROVE r.plugins \ UI = m.plugins \ UI
  <2>1. disk[PluginsFile] \cup y = m.plugins \ UI
    BY <1>2, <1>4, <1>7
  <2>2. (m.plugins \ UI) \cap UI = {} /\ (m.plugins \ UI) \cap Protocols # {}
    BY <1>9, ConstantFacts
  <2>3. AllOf(m.plugins \ UI) = (m.plugins \ UI) \cup {DefaultUI}
    BY <2>2 DEF AllOf
  <2>4. r.plugins = (m.plugins \ UI) \cup {DefaultUI}
    BY <1>8, <2>1, <2>3
  <2>5. DefaultUI \in UI
    BY ConstantFacts
  <2> QED BY <2>4, <2>5
<1>10. \A p \in m.plugins \ UI : m.var[p] = Read(0, disk[ConfigOf(p)])
  <2>1. m.plugins \subseteq Plugins
    BY MemFacts DEF Good
  <2> QED BY <1>2, <1>4, <2>1, ContentRead
<1>11. SessionsHold(m, disk, {})
  BY LeftSessions DEF CallNames
<1>12. Agree(m, Plugins \ UI)
  BY <1>5, <1>6, <1>9, <1>10, <1>11, AgreeFacts
<1> QED BY <1>2, <1>4, <1>5, <1>8, <1>12

LEMMA LeavesQuitSaves ==
  ASSUME Sound, FilesSound, Leaves
  PROVE  QuitSaves
<1> SUFFICES ASSUME ~running
             PROVE  /\ left.saved = Everything =>
                         /\ Agree(left.mem, Plugins \ UI)
                         /\ Started({}).meta = left.mem.meta
                         /\ Started({}).windows = left.mem.windows
                    /\ left.saved = <<"sessions">> /\ torn = {} => Agree(left.mem, Plugins \ UI)
  BY DEF QuitSaves
<1>1. PICK m, r : m = left.mem /\ r = Started({})
  OBVIOUS
<1>2. ASSUME left.saved = Everything
      PROVE  Agree(m, Plugins \ UI) /\ r.meta = m.meta /\ r.windows = m.windows
  <2>1. /\ Len(left.saved) = 4 /\ left.saved[1] = "config" /\ left.saved[2] = "sessions"
        /\ left.saved[3] = "meta" /\ left.saved[4] = "scripts"
    BY <1>2 DEF Everything
  <2>2. \A c \in CallNames : Saved(c)
    <3>1. 1 \in 1..4 /\ 2 \in 1..4 /\ 3 \in 1..4 /\ 4 \in 1..4
      OBVIOUS
    <3> QED BY <2>1, <3>1 DEF Saved, CallNames
  <2>3. left.saved # << >>
    BY <2>1
  <2>4. Good(m) /\ \A c \in CallNames : \A f \in Named(AtExitOf(m), c) : disk[f] = Content(AtExitOf(m), f)
    BY <1>1, <2>2, <2>3 DEF Leaves
  <2> QED BY <1>1, <2>4, LeftAll
<1>3. ASSUME left.saved = <<"sessions">>, torn = {}
      PROVE  Agree(m, Plugins \ UI)
  <2>1. Len(left.saved) = 1 /\ left.saved[1] = "sessions" /\ left.saved # << >>
    BY <1>3
  <2>2. Saved("sessions")
    <3>1. 1 \in 1..1
      OBVIOUS
    <3> QED BY <2>1, <3>1 DEF Saved
  <2>3. /\ Good(m) /\ CoreHolds(m, disk, there, torn)
        /\ \A f \in Named(AtExitOf(m), "sessions") : disk[f] = Content(AtExitOf(m), f)
    BY <1>1, <1>3, <2>1, <2>2 DEF Leaves, CallNames
  <2>4. SessionsHold(m, disk, {})
    BY <2>3, LeftSessions
  <2>5. PICK x : x = {}
    OBVIOUS
  <2>6. r.plugins = AllOf(disk[PluginsFile])
    <3>1. x \in SUBSET UI /\ r = Started(x) /\ disk[PluginsFile] \cup x = disk[PluginsFile]
      BY <1>1, <2>5
    <3>2. disk \in DiskT
      BY DEF Sound, Typed
    <3>3. r.plugins = AllOf(disk[PluginsFile] \cup x)
      BY <3>1, <3>2, StartedFacts
    <3> QED BY <3>1, <3>3
  <2>7. m.plugins \cap Protocols # {} =>
          /\ r.plugins \ UI = m.plugins \ UI
          /\ disk[ConfigFile].lists = m.lists /\ Read(0, disk[ConfigFile].set) = m.set
          /\ \A p \in m.plugins \ UI : m.var[p] = IF ConfigFile \in there THEN Read(0, disk[ConfigOf(p)]) ELSE 0
    BY <1>3, <2>3, <2>6 DEF CoreHolds
  <2> QED BY <1>1, <2>3, <2>4, <2>7, AgreeFacts
<1> QED BY <1>1, <1>2, <1>3

\* When ekg_exit() has saved what the user agreed to save and nothing failed, the next start finds
\* everything as it was left, what belongs to interfaces excepted; when only sessions were to be
\* saved, the rest had been (ekg.c:1080-1137).  The assumptions are those of NothingIsForgotten,
\* on which the second part rests.
THEOREM ExitSaves ==
  ASSUME ~DiskFull, ~QuietToo, ~ReloadAny, "userlist" \notin MayFail
  PROVE  Spec => []QuitSaves
<1>1. Init => Secure /\ Leaves
  <2>1. ASSUME Init PROVE left.saved = << >>
    BY <2>1 DEF Init, NotSaved
  <2> QED BY <2>1, InitKept DEF Leaves
<1>2. (Secure /\ Leaves) /\ [Next]_vars => (Secure /\ Leaves)'
  BY NextSound, FilesNext, WrittenNext, HoldsNext, LeavesNext DEF Secure
<1>3. Secure /\ Leaves => QuitSaves
  BY LeavesQuitSaves DEF Secure
<1> QED BY <1>1, <1>2, <1>3, PTL DEF Spec
=============================================================================
