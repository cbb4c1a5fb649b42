---------------------------- MODULE LuaGCProofs ----------------------------
(***************************************************************************)
(* Safety theorems of LuaGC, for any objects, any program and any order of *)
(* its steps and those of the collector: the invariant Inv of LuaGCInv and *)
(* with it that nothing in use is freed, that garbage is freed, and that   *)
(* finalizers are called once.                                             *)
(***************************************************************************)
EXTENDS LuaGCInv, Induction

-----------------------------------------------------------------------------
(* What is reachable *)

\* There are finitely many places in memory.
LEMMA ObjectFinite == IsFiniteSet(Object)
  <1>1. Order \in [1 .. Len(Order) -> Object] /\ Len(Order) \in Nat
    BY GCAssumption
  <1>2. \A o \in Object : \E i \in 1 .. Len(Order) : Order[i] = o
    BY GCAssumption, <1>1 DEF ToSet
  <1>3. Order \in Surjection(1 .. Len(Order), Object)
    BY <1>1, <1>2 DEF Surjection
  <1>4. IsFiniteSet(1 .. Len(Order))
    BY <1>1, FS_Interval
  <1> QED
    BY <1>3, <1>4, FS_Surjection

\* What a traversal marks is kept, and what is kept is among the contents.
LEMMA KeptContents ==
    \A o \in Object : Strong[o] \subseteq Kept[o] /\ Kept[o] \subseteq Contents[o]
  <1> SUFFICES ASSUME NEW o \in Object
               PROVE  Strong[o] \subseteq Kept[o] /\ Kept[o] \subseteq Contents[o]
    OBVIOUS
  <1>1. Kind[o] \in {"thread", "table", "function", "upval", "udata", "string"}
    BY GCAssumption
  <1>2. CASE Kind[o] = "table"
    BY <1>2 DEF Strong, Kept, Contents, Refers, Held
  <1>3. CASE Kind[o] # "table"
    <2>1. Strong[o] = Contents[o] /\ Kept[o] = Contents[o]
      BY <1>1, <1>3 DEF Strong, Kept, Contents, Refers
    <2> QED
      BY <2>1
  <1> QED
    BY <1>2, <1>3

\* A set with what it refers to
Spread(T) == T \cup UNION {Refers(o) : o \in T}

\* f adds to S what it refers to, and what that refers to, n times.
IsClosing(S, n, f) == f = [k \in 0 .. n |-> IF k = 0 THEN S ELSE Spread(f[k - 1])]

\* The recursive function of Closure exists.
LEMMA ClosingExists ==
    ASSUME NEW D \in SUBSET Object, \A o \in D : Refers(o) \subseteq D, NEW S \in SUBSET D, NEW n \in Nat
    PROVE  \E f : IsClosing(S, n, f)
  <1> DEFINE step == [T \in SUBSET D |-> Spread(T)]
  <1>1. step \in [SUBSET D -> SUBSET D]
    <2>1. \A T \in SUBSET D : Spread(T) \in SUBSET D
      BY DEF Spread
    <2> QED
      BY <2>1
  <1>2. PICK r : r \in [Nat -> SUBSET D] /\ r[0] = S /\ \A k \in Nat : r[k + 1] = step[r[k]]
    <2> HIDE DEF step
    <2>1. S \in SUBSET D
      OBVIOUS
    <2>2. \E r : IsOrbit(SUBSET D, S, step, r)
      BY <1>1, <2>1, Iteration
    <2> QED
      BY <2>2 DEF IsOrbit
  <1> DEFINE f == [k \in 0 .. n |-> r[k]]
  <1>3. ASSUME NEW k \in 0 .. n
        PROVE  f[k] = IF k = 0 THEN S ELSE Spread(f[k - 1])
    <2>1. CASE k = 0
      BY <1>2, <2>1
    <2>2. CASE k # 0
      <3>1. k - 1 \in Nat /\ k - 1 + 1 = k /\ k - 1 \in 0 .. n
        BY <2>2
      <3>2. r[k] = step[r[k - 1]] /\ r[k - 1] \in SUBSET D
        BY <1>2, <3>1
      <3>3. r[k] = Spread(r[k - 1])
        BY <3>2
      <3>4. f[k] = r[k] /\ f[k - 1] = r[k - 1]
        BY <3>1
      <3> HIDE DEF f
      <3> QED
        BY <2>2, <3>3, <3>4
    <2> QED
      BY <2>1, <2>2
  <1>4. f = [k \in 0 .. n |-> IF k = 0 THEN S ELSE Spread(f[k - 1])]
    <2>1. f = [k \in 0 .. n |-> f[k]]
      OBVIOUS
    <2> HIDE DEF f
    <2> QED
      BY <1>3, <2>1
  <1> HIDE DEF f
  <1> QED
    BY <1>4 DEF IsClosing

\* It is closed when it has been repeated as often as there are objects.
LEMMA ClosureIsClosed ==
    ASSUME heap \subseteq Object, NEW D \in SUBSET heap, \A o \in D : Refers(o) \subseteq D,
           NEW S \in SUBSET D
    PROVE  /\ S \subseteq Closure(S) /\ Closure(S) \subseteq D
           /\ \A o \in Closure(S) : Refers(o) \subseteq Closure(S)
           /\ \A C \in SUBSET D :
                 S \subseteq C /\ (\A o \in C : Refers(o) \subseteq C) => Closure(S) \subseteq C
  <1> DEFINE n == Cardinality(heap)
             Closed(T) == \A o \in T : Refers(o) \subseteq T
  <1>1. IsFiniteSet(heap) /\ n \in Nat
    BY ObjectFinite, FS_Subset, FS_CardinalityType
  <1>2. \E f : IsClosing(S, n, f)
    <2> HIDE DEF n
    <2> QED
      BY <1>1, ClosingExists
  <1>3. PICK f : IsClosing(S, n, f) /\ Closure(S) = f[n]
    BY <1>2 DEF IsClosing, Closure, Spread
  <1> HIDE DEF n
  <1>4. f[0] = S /\ \A k \in Nat : k + 1 \in 0 .. n => f[k + 1] = Spread(f[k])
    <2>1. f[0] = S
      BY <1>1, <1>3 DEF IsClosing
    <2>2. ASSUME NEW k \in Nat, k + 1 \in 0 .. n
          PROVE  f[k + 1] = Spread(f[k])
      <3>1. k + 1 # 0 /\ k + 1 - 1 = k
        OBVIOUS
      <3>2. \A j \in 0 .. n : f[j] = IF j = 0 THEN S ELSE Spread(f[j - 1])
        BY <1>3, Zenon DEF IsClosing
      <3> QED
        BY <2>2, <3>1, <3>2
    <2> QED
      BY <2>1, <2>2
  <1>5. \A C \in SUBSET D : S \subseteq C /\ Closed(C) => \A k \in 0 .. n : f[k] \subseteq C
    <2> SUFFICES ASSUME NEW C \in SUBSET D, S \subseteq C, Closed(C), NEW k \in 0 .. n
                 PROVE  f[k] \subseteq C
      OBVIOUS
    <2> DEFINE U == {j \in Nat : j \in 0 .. n => f[j] \subseteq C}
    <2>1. 0 \in U
      BY <1>4
    <2>2. ASSUME NEW j \in Nat, j \in U PROVE j + 1 \in U
      <3>1. CASE j + 1 \in 0 .. n
        <4>1. f[j] \subseteq C
          BY <1>1, <2>2, <3>1
        <4>2. Spread(f[j]) \subseteq C
          BY <4>1 DEF Spread
        <4> QED
          BY <1>4, <3>1, <4>2
      <3> QED
        BY <3>1
    <2>3. Nat \subseteq U
      <3> HIDE DEF U
      <3> QED
        BY <2>1, <2>2, NatSetInduction
    <2> QED
      BY <2>3
  <1>6. \A k \in 0 .. n : f[k] \subseteq D
    BY <1>5
  <1>7. \A k \in 0 .. n : S \subseteq f[k] /\ (Closed(f[k]) \/ k <= Cardinality(f[k]))
    <2> DEFINE U == {j \in Nat : j \in 0 .. n => S \subseteq f[j] /\ (Closed(f[j]) \/ j <= Cardinality(f[j]))}
    <2>0. \A j \in 0 .. n : f[j] \subseteq heap /\ IsFiniteSet(f[j]) /\ Cardinality(f[j]) \in Nat
      BY <1>1, <1>6, FS_Subset, FS_CardinalityType
    <2>1. 0 \in U
      <3>1. S \subseteq f[0] /\ (0 \in 0 .. n => 0 <= Cardinality(f[0]))
        BY <1>4, <2>0
      <3> HIDE DEF Closed
      <3> QED
        BY <3>1
    <2>2. ASSUME NEW j \in Nat, j \in U PROVE j + 1 \in U
      <3> SUFFICES ASSUME j + 1 \in 0 .. n
                   PROVE  S \subseteq f[j + 1] /\ (Closed(f[j + 1]) \/ j + 1 <= Cardinality(f[j + 1]))
        OBVIOUS
      <3>1. f[j + 1] = Spread(f[j]) /\ j \in 0 .. n
        BY <1>1, <1>4
      <3>2. S \subseteq f[j] /\ (Closed(f[j]) \/ j <= Cardinality(f[j]))
        BY <2>2, <3>1
      <3>3. CASE Closed(f[j])
        <4>1. Spread(f[j]) = f[j]
          BY <3>3 DEF Spread
        <4>2. f[j + 1] = f[j]
          BY <3>1, <4>1
        <4> HIDE DEF Closed
        <4> QED
          BY <3>2, <3>3, <4>2
      <3>4. CASE ~ Closed(f[j])
        <4>1. f[j] \subseteq f[j + 1] /\ f[j] # f[j + 1]
          BY <3>1, <3>4 DEF Spread
        <4>2. Cardinality(f[j]) <= Cardinality(f[j + 1]) /\ Cardinality(f[j]) # Cardinality(f[j + 1])
          BY <2>0, <4>1, FS_Subset
        <4>3. j + 1 <= Cardinality(f[j + 1])
          BY <2>0, <3>1, <3>2, <3>4, <4>2
        <4> QED
          BY <3>2, <4>1, <4>3
      <3> QED
        BY <3>3, <3>4
    <2>3. Nat \subseteq U
      <3> HIDE DEF U
      <3> QED
        BY <2>1, <2>2, NatSetInduction
    <2> QED
      BY <2>3
  <1>8. Closed(f[n])
    <2>1. CASE n <= Cardinality(f[n])
      <3>1. f[n] \subseteq D /\ f[n] \subseteq heap /\ n \in 0 .. n
        BY <1>1, <1>6
      <3>2. Cardinality(f[n]) = Cardinality(heap) /\ f[n] = heap
        BY <1>1, <2>1, <3>1, FS_Subset, FS_CardinalityType DEF n
      <3> QED
        BY <3>1, <3>2
    <2> QED
      BY <1>1, <1>7, <2>1
  <1>9. n \in 0 .. n
    BY <1>1
  <1> QED
    BY <1>3, <1>5, <1>6, <1>7, <1>8, <1>9

\* The least set that has what the program starts from and is closed
ReachableOK ==
    TypeOK /\ LiveOK =>
        /\ {Main, Global, running} \cup tmudata \subseteq Reachable /\ Reachable \subseteq Live
        /\ \A o \in Reachable : Kept[o] \subseteq Reachable
        /\ \A C \in SUBSET Live :
              /\ {Main, Global, running} \cup tmudata \subseteq C
              /\ \A o \in C : Kept[o] \subseteq C
              => Reachable \subseteq C

\* The program reaches what is alive and all that this refers to.
LEMMA ReachableIsClosed == ReachableOK
  <1> SUFFICES ASSUME TypeOK, LiveOK
               PROVE  /\ {Main, Global, running} \cup tmudata \subseteq Reachable /\ Reachable \subseteq Live
                      /\ \A o \in Reachable : Kept[o] \subseteq Reachable
                      /\ \A C \in SUBSET Live :
                            /\ {Main, Global, running} \cup tmudata \subseteq C
                            /\ \A o \in C : Kept[o] \subseteq C
                            => Reachable \subseteq C
    BY DEF ReachableOK
  <1> DEFINE S == {Main, Global, running} \cup tmudata
  <1>1. heap \subseteq Object /\ Live \subseteq heap /\ S \subseteq Live
    BY DEF TypeOK, HeapOK, Live, LiveOK
  <1>2. \A o \in Object : Kept[o] = Refers(o)
    BY DEF Kept
  <1>3. \A o \in Live : Refers(o) \subseteq Live
    BY <1>1, <1>2, KeptContents DEF LiveOK
  <1> HIDE DEF S
  <1>4. /\ S \subseteq Closure(S) /\ Closure(S) \subseteq Live
        /\ \A o \in Closure(S) : Refers(o) \subseteq Closure(S)
        /\ \A C \in SUBSET Live :
              S \subseteq C /\ (\A o \in C : Refers(o) \subseteq C) => Closure(S) \subseteq C
    BY <1>1, <1>3, ClosureIsClosed
  <1>5. Reachable = Closure(S)
    BY DEF Reachable, S
  <1>6. \A C \in SUBSET Live : \A o \in C : Kept[o] = Refers(o)
    BY <1>1, <1>2
  <1>7. \A o \in Closure(S) : Kept[o] = Refers(o)
    BY <1>1, <1>2, <1>4
  <1> HIDE DEF Closure
  <1>8. S \subseteq Reachable /\ Reachable \subseteq Live
    BY <1>4, <1>5
  <1>9. \A o \in Reachable : Kept[o] \subseteq Reachable
    BY <1>4, <1>5, <1>7
  <1>10. ASSUME NEW C \in SUBSET Live, S \subseteq C, \A o \in C : Kept[o] \subseteq C
         PROVE  Reachable \subseteq C
    <2>1. \A o \in C : Refers(o) \subseteq C
      BY <1>6, <1>10
    <2> QED
      BY <1>4, <1>5, <1>10, <2>1
  <1> QED
    BY <1>8, <1>9, <1>10 DEF S
-----------------------------------------------------------------------------
(* Marking *)

\* What the contents of an object of each kind are, and can be
LEMMA ContentKinds ==
    FieldsOK /\ StackOK /\ OpensOK =>
        \A o \in Object :
            /\ Contents[o] \subseteq Object
            /\ Kind[o] = "table" => Contents[o] = Values(o) \cup Keys(fields[o]) /\ Contents[o] \subseteq Value
            /\ Kind[o] = "thread" => Contents[o] = ToSet(stack[o]) /\ Contents[o] \subseteq Value
            /\ Kind[o] = "upval" => Contents[o] = UpValue(o) /\ Contents[o] \subseteq Value
            /\ Kind[o] = "udata" => Contents[o] = Values(o) /\ Contents[o] \subseteq Of("table")
            /\ Kind[o] = "function" => Contents[o] = Values(o) /\ Contents[o] \subseteq Of("upval")
            /\ Kind[o] = "string" => Contents[o] = {}
  <1> SUFFICES ASSUME FieldsOK, StackOK, OpensOK, NEW o \in Object
      PROVE /\ Contents[o] \subseteq Object
            /\ Kind[o] = "table" => Contents[o] = Values(o) \cup Keys(fields[o]) /\ Contents[o] \subseteq Value
            /\ Kind[o] = "thread" => Contents[o] = ToSet(stack[o]) /\ Contents[o] \subseteq Value
            /\ Kind[o] = "upval" => Contents[o] = UpValue(o) /\ Contents[o] \subseteq Value
            /\ Kind[o] = "udata" => Contents[o] = Values(o) /\ Contents[o] \subseteq Of("table")
            /\ Kind[o] = "function" => Contents[o] = Values(o) /\ Contents[o] \subseteq Of("upval")
            /\ Kind[o] = "string" => Contents[o] = {}
    OBVIOUS
  <1>1. \A e \in fields[o] : EntryOK(o, e) /\ e \in (Object \cup {Scalar}) \X Object
    BY DEF FieldsOK
  <1>2. Value \subseteq Object /\ Of("table") \subseteq Object /\ Of("upval") \subseteq Object
    BY DEF Value, Of
  <1>3. CASE Kind[o] = "table"
    <2>1. Contents[o] = Values(o) \cup Keys(fields[o])
      BY <1>3 DEF Contents
    <2>2. Values(o) \subseteq Value /\ Keys(fields[o]) \subseteq Value
      BY <1>1, <1>3 DEF Values, Keys, EntryOK
    <2> QED
      BY <1>2, <1>3, <2>1, <2>2
  <1>4. CASE Kind[o] = "thread"
    <2>1. Contents[o] = ToSet(stack[o])
      BY <1>4 DEF Contents
    <2>2. stack[o] \in Seq(Value)
      BY <1>4 DEF StackOK, Of
    <2>3. ToSet(stack[o]) \subseteq Value
      BY <2>2 DEF ToSet
    <2> QED
      BY <1>2, <1>4, <2>1, <2>3
  <1>5. CASE Kind[o] = "upval"
    <2>1. Contents[o] = UpValue(o)
      BY <1>5 DEF Contents
    <2>2. CASE opens[o] = << >>
      BY <1>1, <1>2, <1>5, <2>1, <2>2 DEF UpValue, Values, EntryOK
    <2>3. CASE opens[o] # << >>
      <3>1. opens[o] \in Of("thread") \X (Nat \ {0}) /\ opens[o][2] <= Len(stack[opens[o][1]])
        BY <2>3 DEF OpensOK
      <3>2. stack[opens[o][1]] \in Seq(Value)
        BY <3>1 DEF StackOK
      <3>3. stack[opens[o][1]][opens[o][2]] \in Value
        BY <3>1, <3>2
      <3> QED
        BY <1>2, <1>5, <2>1, <2>3, <3>3 DEF UpValue
    <2> QED
      BY <2>2, <2>3
  <1>6. CASE Kind[o] \notin {"table", "thread", "upval"}
    <2>1. Contents[o] = Values(o)
      BY <1>6 DEF Contents
    <2> QED
      BY <1>1, <1>2, <1>6, <2>1 DEF Values, EntryOK
  <1> QED
    BY <1>3, <1>4, <1>5, <1>6

\* The marks as a record
Marks == [color : [Object -> {"white", "dead", "gray", "black"}], gray : SUBSET Object,
          grayagain : SUBSET Object, weak : SUBSET Object]

\* What the heap has to be for the mark phase: everything in it refers to things in it.
GraphOK ==
    /\ FieldsOK /\ StackOK /\ OpensOK
    /\ heap \subseteq Object /\ {Main, Global, running} \subseteq heap
    /\ \A o \in heap : Contents[o] \subseteq heap

\* Those whose contents are marked with them
Transparent == Of("udata") \cup Of("upval")

\* Those that are black when they are marked
BlackAtOnce == {o \in Object : Kind[o] = "udata" \/ (Kind[o] = "upval" /\ opens[o] = << >>)}

\* n are the marks m after the objects of all were marked.
IsMarked(m, all, n) ==
    /\ all \subseteq Whites(m) /\ n \in Marks
    /\ \A o \in Object : n.color[o] = IF o \notin all THEN m.color[o]
                                      ELSE IF o \in BlackAtOnce THEN "black" ELSE "gray"
    /\ n.gray = m.gray \cup {o \in all : Kind[o] \in {"table", "function", "thread"}}
    /\ n.grayagain = m.grayagain /\ n.weak = m.weak
    /\ \A o \in all \cap Transparent : Contents[o] \subseteq all \cup NonWhite(m)

\* Painting changes colors only.
LEMMA Painted ==
    ASSUME NEW m \in Marks, NEW S, NEW c \in {"white", "dead", "gray", "black"}
    PROVE  /\ Paint(m, S, c) \in Marks
           /\ \A o \in Object : Paint(m, S, c).color[o] = IF o \in S THEN c ELSE m.color[o]
           /\ Paint(m, S, c).gray = m.gray /\ Paint(m, S, c).grayagain = m.grayagain
           /\ Paint(m, S, c).weak = m.weak
  <1> DEFINE p == [o \in Object |-> IF o \in S THEN c ELSE m.color[o]]
  <1>1. p \in [Object -> {"white", "dead", "gray", "black"}]
    BY DEF Marks
  <1>2. Paint(m, S, c) = [m EXCEPT !.color = p]
    BY DEF Paint
  <1>3. \A o \in Object : p[o] = IF o \in S THEN c ELSE m.color[o]
    OBVIOUS
  <1> HIDE DEF p
  <1>4. Paint(m, S, c).color = p
    BY <1>2 DEF Marks
  <1> QED
    BY <1>1, <1>2, <1>3, <1>4 DEF Marks

\* Through adds what transparent objects refer to.
LEMMA ThroughIs ==
    ASSUME GraphOK, NEW m \in Marks, NEW S \in SUBSET heap
    PROVE  /\ Through(m, S) \subseteq Whites(m)
           /\ \A x \in Whites(m) :
                 x \in Through(m, S) <=>
                    \/ x \in S
                    \/ \E o \in S \cap Whites(m) \cap Transparent : x \in Contents[o]
  <1> DEFINE F == White(m, S)
             U == White(m, UNION {Values(u) : u \in F \cap Of("udata")})
             V == White(m, UNION {UpValue(uv) : uv \in F \cap Of("upval")})
  <1>1. Through(m, S) = F \cup U \cup V
    BY DEF Through
  <1>2. F = S \cap Whites(m)
    BY DEF White, Whites
  <1>3. /\ \A u \in F \cap Of("udata") : Values(u) = Contents[u] /\ Contents[u] \subseteq heap
        /\ \A uv \in F \cap Of("upval") : UpValue(uv) = Contents[uv] /\ Contents[uv] \subseteq heap
    <2>1. F \subseteq heap /\ heap \subseteq Object
      BY <1>2 DEF GraphOK
    <2> QED
      BY <2>1, ContentKinds DEF GraphOK, Of
  <1>4. U = {x \in Whites(m) : \E u \in F \cap Of("udata") : x \in Contents[u]}
    BY <1>3 DEF White, Whites
  <1>5. V = {x \in Whites(m) : \E uv \in F \cap Of("upval") : x \in Contents[uv]}
    BY <1>3 DEF White, Whites
  <1> HIDE DEF F, U, V
  <1> QED
    BY <1>1, <1>2, <1>4, <1>5 DEF Transparent

\* Mark marks what is white in S, and with it what is white behind it; nothing else.
LEMMA MarkMarks ==
    ASSUME GraphOK, NEW m \in Marks, NEW S \in SUBSET heap
    PROVE  \E all : /\ IsMarked(m, all, Mark(m, S)) /\ S \subseteq all \cup NonWhite(m)
                    /\ \A K \in SUBSET Object :
                          /\ S \subseteq K /\ \A o \in K \cap Transparent : Contents[o] \subseteq K
                          => all \subseteq K
  <1> DEFINE once == Through(m, S)
             all == Through(m, once)
             done == {o \in all : Kind[o] = "udata" \/ (Kind[o] = "upval" /\ opens[o] = << >>)}
             n == [Paint(Paint(m, all, "gray"), done, "black")
                     EXCEPT !.gray = @ \cup {o \in all : Kind[o] \in {"table", "function", "thread"}}]
  <1>0. heap \subseteq Object /\ \A o \in heap : m.color[o] \in {"white", "dead", "gray", "black"}
    BY DEF GraphOK, Marks
  <1>1. Whites(m) \subseteq heap /\ \A o \in heap : o \in Whites(m) <=> o \notin NonWhite(m)
    BY <1>0 DEF Whites, NonWhite
  <1>2. /\ once \subseteq Whites(m)
        /\ \A x \in Whites(m) :
              x \in once <=> (x \in S \/ \E o \in S \cap Whites(m) \cap Transparent : x \in Contents[o])
    BY ThroughIs
  <1>3. /\ all \subseteq Whites(m)
        /\ \A x \in Whites(m) :
              x \in all <=> (x \in once \/ \E o \in once \cap Whites(m) \cap Transparent : x \in Contents[o])
    <2> HIDE DEF once
    <2>1. once \in SUBSET heap
      BY <1>1, <1>2
    <2> QED
      BY <2>1, ThroughIs
  <1>4. Mark(m, S) = n
    BY DEF Mark
  <1>5. /\ n \in Marks
        /\ \A o \in Object : n.color[o] = IF o \notin all THEN m.color[o]
                                          ELSE IF o \in BlackAtOnce THEN "black" ELSE "gray"
        /\ n.gray = m.gray \cup {o \in all : Kind[o] \in {"table", "function", "thread"}}
        /\ n.grayagain = m.grayagain /\ n.weak = m.weak
    <2> HIDE DEF all
    <2> DEFINE a == Paint(m, all, "gray")
               b == Paint(a, done, "black")
    <2>1. /\ a \in Marks /\ a.gray = m.gray /\ a.grayagain = m.grayagain /\ a.weak = m.weak
          /\ \A o \in Object : a.color[o] = IF o \in all THEN "gray" ELSE m.color[o]
      BY Painted
    <2> HIDE DEF a, done
    <2>2. /\ b \in Marks /\ b.gray = a.gray /\ b.grayagain = a.grayagain /\ b.weak = a.weak
          /\ \A o \in Object : b.color[o] = IF o \in done THEN "black" ELSE a.color[o]
      BY <2>1, Painted
    <2>3. n = [b EXCEPT !.gray = @ \cup {o \in all : Kind[o] \in {"table", "function", "thread"}}]
      BY DEF a, b
    <2> HIDE DEF b, n
    <2>4. n.color = b.color /\ n.grayagain = b.grayagain /\ n.weak = b.weak
          /\ n.gray = b.gray \cup {o \in all : Kind[o] \in {"table", "function", "thread"}}
      BY <2>2, <2>3 DEF Marks
    <2>5. all \subseteq Object
      BY <1>0, <1>1, <1>3
    <2>6. n \in Marks
      BY <2>2, <2>3, <2>5 DEF Marks
    <2>7. \A o \in Object : o \in done <=> o \in all \cap BlackAtOnce
      BY DEF done, BlackAtOnce
    <2> QED
      BY <2>1, <2>2, <2>4, <2>6, <2>7
  <1> HIDE DEF n, all, once
  <1>6. S \subseteq all \cup NonWhite(m)
    BY <1>1, <1>2, <1>3
  <1>7. ASSUME NEW o \in all \cap Transparent, NEW x \in Contents[o], x \in Whites(m) PROVE x \in all
    <2>0. o \in Whites(m) /\ o \in heap /\ o \in Object
      BY <1>0, <1>1, <1>3
    <2>1. CASE o \in once
      BY <1>3, <1>7, <2>0, <2>1
    <2>2. CASE o \notin once
      <3>1. PICK p \in once \cap Transparent : o \in Contents[p]
        BY <1>3, <2>0, <2>2
      <3>2. p \in Object /\ p \in Whites(m)
        BY <1>0, <1>1, <1>2
      <3>3. p \notin S
        BY <1>2, <2>0, <2>2, <3>1, <3>2
      <3>4. PICK q \in S \cap Whites(m) \cap Transparent : p \in Contents[q]
        BY <1>2, <3>1, <3>2, <3>3
      <3>5. q \in Object
        BY <1>0
      <3>6. /\ Contents[p] \subseteq Of("table") \cup Value /\ Contents[q] \subseteq Of("table") \cup Value
            /\ p \in Of("udata") => Contents[p] \subseteq Of("table")
            /\ q \in Of("udata") => Contents[q] \subseteq Of("table")
        BY <3>2, <3>5, <3>1, <3>4, ContentKinds DEF GraphOK, Transparent, Of
      <3>7. Kind[p] = "udata" \/ Kind[p] = "upval"
        BY <3>1 DEF Transparent, Of
      <3>8. Kind[p] # "upval"
        BY <3>2, <3>4, <3>6 DEF Value, Of
      <3>9. Kind[o] = "table"
        BY <3>1, <3>2, <3>6, <3>7, <3>8 DEF Of
      <3> QED
        BY <1>7, <3>9 DEF Transparent, Of
    <2> QED
      BY <2>1, <2>2
  <1>8. \A o \in all \cap Transparent : Contents[o] \subseteq all \cup NonWhite(m)
    <2>1. \A o \in all : Contents[o] \subseteq heap
      BY <1>1, <1>3 DEF GraphOK
    <2> QED
      BY <1>1, <1>7, <2>1
  <1>9. ASSUME NEW K \in SUBSET Object, S \subseteq K, \A o \in K \cap Transparent : Contents[o] \subseteq K
        PROVE  all \subseteq K
    <2>1. once \subseteq K
      BY <1>2, <1>9
    <2> QED
      BY <1>3, <1>9, <2>1
  <1>10. IsMarked(m, all, Mark(m, S))
    BY <1>3, <1>4, <1>5, <1>8 DEF IsMarked
  <1> QED
    BY <1>6, <1>9, <1>10

\* What is not white and neither gray nor in E was traversed.
Done(m, E) == \A o \in NonWhite(m) \ (m.gray \cup E) : Strong[o] \subseteq NonWhite(m)

\* K has with an object what is kept because of it.
IsClosed(K) == K \subseteq Object /\ \A o \in K : Kept[o] \subseteq K

\* What the marks are while nothing but the collector runs: nothing outside K is marked.
Marking(m, E, K) == m \in Marks /\ TriColour(m) /\ Done(m, E) /\ NonWhite(m) \subseteq K

\* The same, but what is in S is still to be marked.
MarkingBut(m, S, E, K) ==
    /\ m \in Marks /\ ListsOK(m) /\ ColoursOK(m) /\ NonWhite(m) \subseteq K
    /\ \A o \in heap : m.color[o] = "black" => Contents[o] \subseteq NonWhite(m) \cup S
    /\ \A o \in NonWhite(m) \ (m.gray \cup E) : Strong[o] \subseteq NonWhite(m) \cup S

\* n has at least the marks of m, and not more that is gray or white.
Further(m, n) ==
    /\ NonWhite(m) \subseteq NonWhite(n)
    /\ n.gray \cup Whites(n) \subseteq m.gray \cup Whites(m)

\* When S is marked nothing is missing.
LEMMA MarkMarking ==
    ASSUME GraphOK, NEW m, NEW S \in SUBSET heap, NEW E, NEW K, IsClosed(K), S \subseteq K,
           MarkingBut(m, S, E, K)
    PROVE  /\ Marking(Mark(m, S), E, K) /\ Further(m, Mark(m, S)) /\ S \subseteq NonWhite(Mark(m, S))
           /\ Mark(m, S).grayagain = m.grayagain /\ Mark(m, S).weak = m.weak
           /\ m.gray \subseteq Mark(m, S).gray
  <1>0. m \in Marks /\ heap \subseteq Object
    BY DEF MarkingBut, GraphOK
  <1>1. PICK all : /\ IsMarked(m, all, Mark(m, S)) /\ S \subseteq all \cup NonWhite(m)
                   /\ \A C \in SUBSET Object :
                         /\ S \subseteq C /\ \A o \in C \cap Transparent : Contents[o] \subseteq C
                         => all \subseteq C
    BY <1>0, MarkMarks
  <1> DEFINE n == Mark(m, S)
  <1> HIDE DEF n
  <1>2. IsMarked(m, all, n)
    BY <1>1 DEF n
  <1>3. all \subseteq K
    <2>1. \A o \in Object \cap Transparent : Strong[o] = Contents[o]
      BY DEF Strong, Transparent, Of
    <2>2. \A o \in K \cap Transparent : Contents[o] \subseteq K
      BY <2>1, KeptContents DEF IsClosed
    <2> QED
      BY <1>1, <2>2 DEF IsClosed
  <1>4. all \subseteq heap /\ all \subseteq Whites(m) /\ all \subseteq Object /\ n \in Marks
    BY <1>0, <1>2 DEF IsMarked, Whites
  <1>5. \A o \in heap : n.color[o] = IF o \notin all THEN m.color[o]
                                      ELSE IF o \in BlackAtOnce THEN "black" ELSE "gray"
    BY <1>0, <1>2 DEF IsMarked
  <1>6. NonWhite(n) = NonWhite(m) \cup all
    BY <1>4, <1>5 DEF NonWhite
  <1>7. Whites(n) \subseteq Whites(m) \ all
    BY <1>4, <1>5 DEF Whites
  <1>8. /\ n.gray = m.gray \cup {o \in all : Kind[o] \in {"table", "function", "thread"}}
        /\ n.grayagain = m.grayagain /\ n.weak = m.weak
        /\ \A o \in all \cap Transparent : Contents[o] \subseteq NonWhite(n)
    BY <1>2, <1>6 DEF IsMarked
  <1>9. \A o \in all : Kind[o] \in {"thread", "table", "function", "upval", "udata", "string"}
    BY <1>4, GCAssumption
  <1>10. Further(m, n)
    BY <1>4, <1>6, <1>7, <1>8 DEF Further
  <1>11. ListsOK(n)
    BY <1>4, <1>8 DEF MarkingBut, ListsOK, Of
  <1>12. S \subseteq NonWhite(n)
    BY <1>1, <1>6
  <1>13. BlackOK(n)
    <2> SUFFICES ASSUME NEW o \in heap, n.color[o] = "black" PROVE Contents[o] \subseteq NonWhite(n)
      BY DEF BlackOK
    <2>1. CASE o \in all
      <3>1. o \in BlackAtOnce
        BY <1>5, <2>1
      <3> QED
        BY <1>4, <1>8, <2>1, <3>1 DEF BlackAtOnce, Transparent, Of
    <2>2. CASE o \notin all
      <3>1. Contents[o] \subseteq NonWhite(m) \cup S
        BY <1>5, <2>2 DEF MarkingBut
      <3> QED
        BY <1>6, <1>12, <3>1
    <2> QED
      BY <2>1, <2>2
  <1>14. ColoursOK(n)
    <2>0. ColoursOK(m)
      BY DEF MarkingBut
    <2>1. \A o \in heap : n.color[o] # "dead"
      BY <1>5, <2>0 DEF ColoursOK
    <2>2. ASSUME NEW o \in heap, n.color[o] = "black"
          PROVE  Kind[o] \in {"table", "function", "udata", "upval"} /\ opens[o] = << >>
      <3>1. CASE o \in all
        <4>1. Kind[o] = "udata" \/ (Kind[o] = "upval" /\ opens[o] = << >>)
          BY <1>5, <2>2, <3>1 DEF BlackAtOnce
        <4>2. Kind[o] # "upval" => opens[o] = << >>
          BY <1>0 DEF GraphOK, OpensOK
        <4> QED
          BY <4>1, <4>2
      <3>2. CASE o \notin all
        BY <1>5, <2>0, <2>2, <3>2 DEF ColoursOK
      <3> QED
        BY <3>1, <3>2
    <2>3. ASSUME NEW o \in heap, n.color[o] = "gray"
          PROVE  /\ Kind[o] # "udata"
                 /\ Kind[o] = "upval" => opens[o] # << >>
                 /\ Kind[o] = "function" => o \in n.gray
                 /\ Kind[o] = "table" => o \in n.gray \cup n.grayagain \cup n.weak
                 /\ Kind[o] = "thread" => o \in n.gray \cup n.grayagain
      <3>1. CASE o \in all
        <4>1. o \notin BlackAtOnce
          BY <1>5, <2>3, <3>1
        <4> QED
          BY <1>0, <1>8, <3>1, <4>1 DEF BlackAtOnce
      <3>2. CASE o \notin all
        BY <1>5, <1>8, <2>0, <2>3, <3>2 DEF ColoursOK
      <3> QED
        BY <3>1, <3>2
    <2>4. {Main, Global} \cup n.gray \cup n.grayagain \cup n.weak \subseteq NonWhite(n)
      BY <1>6, <1>8, <2>0 DEF ColoursOK
    <2> QED
      BY <2>1, <2>2, <2>3, <2>4 DEF ColoursOK
  <1>15. Done(n, E)
    <2> SUFFICES ASSUME NEW o \in NonWhite(n) \ (n.gray \cup E) PROVE Strong[o] \subseteq NonWhite(n)
      BY DEF Done
    <2>0. o \in heap /\ o \in Object
      BY <1>0 DEF NonWhite
    <2>1. CASE o \in all
      <3>1. Kind[o] \in {"upval", "udata", "string"}
        BY <1>8, <1>9, <2>1
      <3>2. Strong[o] = Contents[o]
        BY <2>0, <3>1 DEF Strong
      <3>3. Kind[o] = "string" => Contents[o] = {}
        BY <2>0, ContentKinds DEF GraphOK
      <3> QED
        BY <1>8, <2>0, <2>1, <3>1, <3>2, <3>3 DEF Transparent, Of
    <2>2. CASE o \notin all
      <3>1. o \in NonWhite(m) \ (m.gray \cup E)
        BY <1>6, <1>8, <2>2
      <3>2. Strong[o] \subseteq NonWhite(m) \cup S
        BY <3>1 DEF MarkingBut
      <3> QED
        BY <1>6, <1>12, <3>2
    <2> QED
      BY <2>1, <2>2
  <1>16. NonWhite(n) \subseteq K
    BY <1>3, <1>6 DEF MarkingBut
  <1>17. Marking(n, E, K)
    BY <1>4, <1>11, <1>13, <1>14, <1>15, <1>16 DEF Marking, TriColour
  <1> QED
    BY <1>8, <1>10, <1>12, <1>17 DEF n

\* One traversal: what was traversed is no longer gray, what it has is marked.
LEMMA PropagateMarkMarking ==
    ASSUME GraphOK, NEW m, NEW E, NEW K, IsClosed(K), Marking(m, E, K), NEW o \in m.gray
    PROVE  /\ Marking(PropagateMark(m, o), E, K)
           /\ NonWhite(m) \subseteq NonWhite(PropagateMark(m, o))
           /\ PropagateMark(m, o).gray \cup Whites(PropagateMark(m, o))
                \subseteq (m.gray \cup Whites(m)) \ {o}
           /\ PropagateMark(m, o).grayagain \subseteq m.grayagain \cup Of("thread")
           /\ m.grayagain \subseteq PropagateMark(m, o).grayagain
  <1> DEFINE g == [m EXCEPT !.gray = @ \ {o}]
             held == (IF "value" \in mode[o] THEN {} ELSE Values(o))
                       \cup (IF "key" \in mode[o] THEN {} ELSE Keys(fields[o]))
  <1>1. /\ m \in Marks /\ ListsOK(m) /\ BlackOK(m) /\ ColoursOK(m)
        /\ Done(m, E) /\ NonWhite(m) \subseteq K
    BY DEF Marking, TriColour
  <1>2. /\ heap \subseteq Object /\ o \in heap /\ o \in Object /\ o \in NonWhite(m) /\ o \in K
        /\ Kind[o] \in {"table", "function", "thread"} /\ opens[o] = << >>
    <2>1. heap \subseteq Object /\ o \in heap /\ o \in NonWhite(m)
          /\ Kind[o] \in {"table", "function", "thread"}
      BY <1>1 DEF GraphOK, ListsOK, ColoursOK, Of
    <2> QED
      BY <1>1, <2>1 DEF GraphOK, OpensOK
  <1>3. g \in Marks /\ g.color = m.color /\ g.gray = m.gray \ {o}
        /\ g.grayagain = m.grayagain /\ g.weak = m.weak
    BY <1>1 DEF Marks
  <1>4. Strong[o] \subseteq K /\ Strong[o] \subseteq heap /\ Global \in NonWhite(m) /\ Global \in heap
        /\ Global \in K
    <2>1. Strong[o] \subseteq Contents[o] /\ Strong[o] \subseteq K
      BY <1>2, KeptContents DEF IsClosed
    <2>2. Contents[o] \subseteq heap
      BY <1>2 DEF GraphOK
    <2>3. Global \in NonWhite(m) /\ Global \in heap
      BY <1>1 DEF ColoursOK, GraphOK
    <2> QED
      BY <1>1, <2>1, <2>2, <2>3
  \* o leaves the list as it is or painted; then S, which it has, is marked.
  <1>5. ASSUME NEW p, p \in Marks, p.gray = m.gray \ {o}, p.weak = m.weak \/ p.weak = m.weak \cup {o},
               p.grayagain = m.grayagain \/ p.grayagain = m.grayagain \cup {o},
               o \in p.weak => Kind[o] = "table",
               o \in p.grayagain => Kind[o] \in {"table", "thread"},
               \A x \in Object : x # o => p.color[x] = m.color[x],
               \/ p.color[o] = m.color[o] /\ (m.color[o] = "gray" => o \in p.weak \cup p.grayagain)
               \/ p.color[o] = "black" /\ Kind[o] # "thread" /\ Contents[o] = Strong[o],
               Kind[o] = "thread" => o \in p.grayagain
        PROVE  /\ MarkingBut(p, Strong[o], E, K) /\ MarkingBut(p, Strong[o] \cup {Global}, E, K)
               /\ NonWhite(p) = NonWhite(m)
               /\ p.gray \cup Whites(p) \subseteq (m.gray \cup Whites(m)) \ {o}
    <2>0. \A x \in heap : x # o => p.color[x] = m.color[x]
      BY <1>2, <1>5
    <2>1. NonWhite(p) = NonWhite(m)
      BY <1>2, <1>5, <2>0 DEF NonWhite
    <2>2. p.gray \cup Whites(p) \subseteq (m.gray \cup Whites(m)) \ {o}
      <3>1. o \notin Whites(m) /\ o \notin Whites(p)
        BY <1>2, <1>5 DEF NonWhite, Whites
      <3>2. Whites(p) \subseteq Whites(m)
        BY <2>0, <3>1 DEF Whites
      <3> QED
        BY <1>5, <3>1, <3>2
    <2>3. ListsOK(p)
      BY <1>1, <1>2, <1>5 DEF ListsOK, Of
    <2>4. ColoursOK(p)
      <3>1. \A x \in heap : p.color[x] # "dead"
        BY <1>1, <1>5, <2>0 DEF ColoursOK
      <3>2. ASSUME NEW x \in heap, p.color[x] = "black"
            PROVE  Kind[x] \in {"table", "function", "udata", "upval"} /\ opens[x] = << >>
        <4>1. CASE x = o
          <5>1. Kind[o] # "thread"
            BY <1>1, <1>2, <1>5, <3>2, <4>1 DEF ColoursOK
          <5> QED
            BY <1>2, <4>1, <5>1
        <4>2. CASE x # o
          BY <1>1, <2>0, <3>2, <4>2 DEF ColoursOK
        <4> QED
          BY <4>1, <4>2
      <3>3. ASSUME NEW x \in heap, p.color[x] = "gray"
            PROVE  /\ Kind[x] # "udata"
                   /\ Kind[x] = "upval" => opens[x] # << >>
                   /\ Kind[x] = "function" => x \in p.gray
                   /\ Kind[x] = "table" => x \in p.gray \cup p.grayagain \cup p.weak
                   /\ Kind[x] = "thread" => x \in p.gray \cup p.grayagain
        <4>1. CASE x = o
          <5>1. p.color[o] = m.color[o] /\ o \in p.weak \cup p.grayagain
            BY <1>5, <3>3, <4>1
          <5>2. Kind[o] # "function"
            BY <1>5, <5>1
          <5> QED
            BY <1>2, <1>5, <4>1, <5>1, <5>2
        <4>2. CASE x # o
          BY <1>1, <1>5, <2>0, <3>3, <4>2 DEF ColoursOK
        <4> QED
          BY <4>1, <4>2
      <3>4. {Main, Global} \cup p.gray \cup p.grayagain \cup p.weak \subseteq NonWhite(p)
        BY <1>1, <1>2, <1>5, <2>1 DEF ColoursOK
      <3> QED
        BY <3>1, <3>2, <3>3, <3>4 DEF ColoursOK
    <2>5. ASSUME NEW x \in heap, p.color[x] = "black" PROVE Contents[x] \subseteq NonWhite(p) \cup Strong[o]
      <3>1. CASE x = o /\ Contents[o] = Strong[o]
        BY <3>1
      <3>2. CASE m.color[x] = "black"
        BY <1>1, <2>1, <3>2 DEF BlackOK
      <3> QED
        BY <1>5, <2>0, <2>5, <3>1, <3>2
    <2>6. ASSUME NEW x \in NonWhite(p) \ (p.gray \cup E) PROVE Strong[x] \subseteq NonWhite(p) \cup Strong[o]
      <3>1. CASE x = o
        BY <3>1
      <3>2. CASE x # o
        BY <1>1, <1>5, <2>1, <2>6, <3>2 DEF Done
      <3> QED
        BY <3>1, <3>2
    <2> QED
      BY <1>1, <1>4, <1>5, <2>1, <2>2, <2>3, <2>4, <2>5, <2>6 DEF MarkingBut
  <1>6. ASSUME NEW p, p \in Marks, NEW S \in SUBSET heap, S \subseteq K, MarkingBut(p, S, E, K),
               NonWhite(p) = NonWhite(m),
               p.gray \cup Whites(p) \subseteq (m.gray \cup Whites(m)) \ {o},
               p.grayagain \subseteq m.grayagain \cup Of("thread"), m.grayagain \subseteq p.grayagain,
               PropagateMark(m, o) = Mark(p, S)
        PROVE  /\ Marking(PropagateMark(m, o), E, K)
               /\ NonWhite(m) \subseteq NonWhite(PropagateMark(m, o))
               /\ PropagateMark(m, o).gray \cup Whites(PropagateMark(m, o))
                    \subseteq (m.gray \cup Whites(m)) \ {o}
               /\ PropagateMark(m, o).grayagain \subseteq m.grayagain \cup Of("thread")
               /\ m.grayagain \subseteq PropagateMark(m, o).grayagain
    <2>1. Marking(Mark(p, S), E, K) /\ Further(p, Mark(p, S)) /\ Mark(p, S).grayagain = p.grayagain
      BY <1>6, MarkMarking
    <2> HIDE DEF g, held
    <2> QED
      BY <1>6, <2>1 DEF Further
  <1>7. CASE Kind[o] = "table" /\ mode[o] = {}
    <2> DEFINE p == Paint(g, {o}, "black")
    <2>1. /\ p \in Marks /\ p.gray = g.gray /\ p.grayagain = g.grayagain /\ p.weak = g.weak
          /\ \A x \in Object : p.color[x] = IF x \in {o} THEN "black" ELSE g.color[x]
      <3> HIDE DEF g
      <3>1. g \in Marks /\ "black" \in {"white", "dead", "gray", "black"}
        BY <1>3
      <3> QED
        BY <3>1, Painted
    <2>2. Strong[o] = held /\ Contents[o] = Strong[o]
      BY <1>2, <1>7 DEF Strong, Contents
    <2>3. PropagateMark(m, o) = Mark(p, Strong[o])
      BY <1>7, <2>2 DEF PropagateMark
    <2> HIDE DEF p, g, held
    <2>4. o \in p.grayagain => Kind[o] \in {"table", "thread"}
      BY <1>7
    <2>5. /\ MarkingBut(p, Strong[o], E, K) /\ NonWhite(p) = NonWhite(m)
          /\ p.gray \cup Whites(p) \subseteq (m.gray \cup Whites(m)) \ {o}
      BY <1>2, <1>3, <1>5, <1>7, <2>1, <2>2, <2>4
    <2> QED
      BY <1>3, <1>4, <1>6, <2>1, <2>3, <2>5
  <1>8. CASE Kind[o] = "table" /\ mode[o] # {}
    <2> DEFINE p == [g EXCEPT !.weak = @ \cup {o}]
    <2>1. Strong[o] = held
      BY <1>2, <1>8 DEF Strong
    <2>2. PropagateMark(m, o) = Mark(p, Strong[o])
      BY <1>8, <2>1 DEF PropagateMark
    <2> HIDE DEF g, held
    <2>3. /\ p \in Marks /\ p.gray = g.gray /\ p.grayagain = g.grayagain /\ p.weak = g.weak \cup {o}
          /\ p.color = g.color
      BY <1>2, <1>3 DEF Marks
    <2> HIDE DEF p
    <2>5. /\ MarkingBut(p, Strong[o], E, K) /\ NonWhite(p) = NonWhite(m)
          /\ p.gray \cup Whites(p) \subseteq (m.gray \cup Whites(m)) \ {o}
      BY <1>2, <1>3, <1>5, <1>8, <2>3
    <2> QED
      BY <1>3, <1>4, <1>6, <2>2, <2>3, <2>5
  <1>9. CASE Kind[o] = "function"
    <2> DEFINE p == Paint(g, {o}, "black")
    <2>1. /\ p \in Marks /\ p.gray = g.gray /\ p.grayagain = g.grayagain /\ p.weak = g.weak
          /\ \A x \in Object : p.color[x] = IF x \in {o} THEN "black" ELSE g.color[x]
      <3> HIDE DEF g
      <3>1. g \in Marks /\ "black" \in {"white", "dead", "gray", "black"}
        BY <1>3
      <3> QED
        BY <3>1, Painted
    <2>2. Strong[o] = Values(o) /\ Contents[o] = Strong[o]
      BY <1>2, <1>9 DEF Strong, Contents
    <2>3. PropagateMark(m, o) = Mark(p, Strong[o] \cup {Global})
      <3>1. {Global} \cup Values(o) = Strong[o] \cup {Global}
        BY <2>2
      <3>2. PropagateMark(m, o) = Mark(p, {Global} \cup Values(o))
        BY <1>9 DEF PropagateMark
      <3> QED
        BY <3>1, <3>2
    <2> HIDE DEF p, g, held
    <2>4. o \notin m.grayagain /\ o \notin m.weak
      BY <1>1, <1>9 DEF ListsOK, Of
    <2>5. /\ MarkingBut(p, Strong[o] \cup {Global}, E, K) /\ NonWhite(p) = NonWhite(m)
          /\ p.gray \cup Whites(p) \subseteq (m.gray \cup Whites(m)) \ {o}
      BY <1>2, <1>3, <1>5, <1>9, <2>1, <2>2, <2>4
    <2> QED
      BY <1>3, <1>4, <1>6, <2>1, <2>3, <2>5
  <1>10. CASE Kind[o] = "thread"
    <2> DEFINE p == [g EXCEPT !.grayagain = @ \cup {o}]
    <2>2. Strong[o] = ToSet(stack[o]) /\ Contents[o] = Strong[o]
      BY <1>2, <1>10 DEF Strong, Contents
    <2>3. PropagateMark(m, o) = Mark(p, Strong[o] \cup {Global})
      <3>1. {Global} \cup ToSet(stack[o]) = Strong[o] \cup {Global}
        BY <2>2
      <3>2. PropagateMark(m, o) = Mark(p, {Global} \cup ToSet(stack[o]))
        BY <1>10 DEF PropagateMark
      <3> QED
        BY <3>1, <3>2
    <2> HIDE DEF g, held
    <2>4. /\ p \in Marks /\ p.gray = g.gray /\ p.grayagain = g.grayagain \cup {o} /\ p.weak = g.weak
          /\ p.color = g.color
      BY <1>2, <1>3 DEF Marks
    <2>6. o \notin m.weak /\ o \in Of("thread")
      BY <1>1, <1>2, <1>10 DEF ListsOK, Of
    <2> HIDE DEF p
    <2>5. /\ MarkingBut(p, Strong[o] \cup {Global}, E, K) /\ NonWhite(p) = NonWhite(m)
          /\ p.gray \cup Whites(p) \subseteq (m.gray \cup Whites(m)) \ {o}
      BY <1>2, <1>3, <1>5, <1>10, <2>4, <2>6
    <2>7. Strong[o] \cup {Global} \in SUBSET heap /\ Strong[o] \cup {Global} \subseteq K
      BY <1>4
    <2>8. p.grayagain \subseteq m.grayagain \cup Of("thread") /\ m.grayagain \subseteq p.grayagain
      BY <1>3, <2>4, <2>6
    <2> QED
      BY <1>6, <2>3, <2>4, <2>5, <2>7, <2>8
  <1> QED
    BY <1>2, <1>7, <1>8, <1>9, <1>10

\* One round of PropagateAll
NextMarks(n) == IF n.gray = {} THEN n ELSE PropagateMark(n, CHOOSE o \in n.gray : TRUE)

IsPropagating(m, n, f) == f = [k \in 0 .. n |-> IF k = 0 THEN m ELSE NextMarks(f[k - 1])]

\* What a round keeps, and what it makes less: all that is gray or white.
LEMMA NextMarksMarking ==
    ASSUME GraphOK, NEW m, NEW E, NEW K, IsClosed(K), Marking(m, E, K)
    PROVE  /\ Marking(NextMarks(m), E, K)
           /\ NonWhite(m) \subseteq NonWhite(NextMarks(m))
           /\ NextMarks(m).grayagain \subseteq m.grayagain \cup Of("thread")
           /\ m.grayagain \subseteq NextMarks(m).grayagain
           /\ LET fewer == NextMarks(m).gray \cup Whites(NextMarks(m))
                  all == m.gray \cup Whites(m)
              IN fewer \subseteq all /\ (m.gray # {} => fewer # all)
  <1>1. CASE m.gray = {}
    BY <1>1 DEF NextMarks
  <1>2. CASE m.gray # {}
    <2> DEFINE o == CHOOSE x \in m.gray : TRUE
    <2>1. o \in m.gray
      BY <1>2
    <2>2. NextMarks(m) = PropagateMark(m, o)
      BY <1>2 DEF NextMarks
    <2> HIDE DEF o
    <2> QED
      BY <2>1, <2>2, PropagateMarkMarking
  <1> QED
    BY <1>1, <1>2

\* The recursive function of PropagateAll exists.
LEMMA PropagatingExists ==
    ASSUME GraphOK, NEW m, NEW E, NEW K, IsClosed(K), Marking(m, E, K), NEW n \in Nat
    PROVE  \E f : IsPropagating(m, n, f)
  <1> DEFINE V == {x \in Marks : Marking(x, E, K)}
             step == [x \in V |-> NextMarks(x)]
  <1>1. m \in V /\ step \in [V -> V]
    <2>1. ASSUME NEW x \in V PROVE NextMarks(x) \in V
      <3>1. Marking(NextMarks(x), E, K)
        BY NextMarksMarking
      <3> QED
        BY <3>1 DEF Marking
    <2> QED
      BY <2>1 DEF Marking
  <1>2. PICK r : r \in [Nat -> V] /\ r[0] = m /\ \A k \in Nat : r[k + 1] = step[r[k]]
    <2> HIDE DEF step, V
    <2>1. \E r : IsOrbit(V, m, step, r)
      BY <1>1, Iteration
    <2> QED
      BY <2>1 DEF IsOrbit
  <1> HIDE DEF V
  <1> DEFINE f == [k \in 0 .. n |-> r[k]]
  <1>3. ASSUME NEW k \in 0 .. n PROVE f[k] = IF k = 0 THEN m ELSE NextMarks(f[k - 1])
    <2>1. CASE k = 0
      BY <1>2, <2>1
    <2>2. CASE k # 0
      <3>1. k - 1 \in Nat /\ k - 1 + 1 = k /\ k - 1 \in 0 .. n
        BY <2>2
      <3>2. r[k] = step[r[k - 1]] /\ r[k - 1] \in V
        BY <1>2, <3>1
      <3>3. r[k] = NextMarks(r[k - 1])
        BY <3>2
      <3>4. f[k] = r[k] /\ f[k - 1] = r[k - 1]
        BY <3>1
      <3> HIDE DEF f
      <3> QED
        BY <2>2, <3>3, <3>4
    <2> QED
      BY <2>1, <2>2
  <1>4. f = [k \in 0 .. n |-> IF k = 0 THEN m ELSE NextMarks(f[k - 1])]
    <2>1. f = [k \in 0 .. n |-> f[k]]
      OBVIOUS
    <2> HIDE DEF f
    <2> QED
      BY <1>3, <2>1
  <1> HIDE DEF f
  <1> QED
    BY <1>4 DEF IsPropagating

\* When everything is propagated nothing is gray: in every round one object less is gray or
\* white.
LEMMA PropagateAllMarking ==
    ASSUME GraphOK, NEW m, NEW E, NEW K, IsClosed(K), Marking(m, E, K)
    PROVE  /\ Marking(PropagateAll(m), E, K) /\ PropagateAll(m).gray = {}
           /\ NonWhite(m) \subseteq NonWhite(PropagateAll(m))
           /\ PropagateAll(m).grayagain \subseteq m.grayagain \cup Of("thread")
           /\ m.grayagain \subseteq PropagateAll(m).grayagain
  <1> DEFINE n == Cardinality(heap)
             Open(x) == x.gray \cup Whites(x)
  <1>1. IsFiniteSet(heap) /\ n \in Nat
    BY ObjectFinite, FS_Subset, FS_CardinalityType DEF GraphOK
  <1>2. \E f : IsPropagating(m, n, f)
    <2> HIDE DEF n
    <2> QED
      BY <1>1, PropagatingExists
  <1>3. PICK f : IsPropagating(m, n, f) /\ PropagateAll(m) = f[n]
    BY <1>2 DEF IsPropagating, PropagateAll, NextMarks
  <1> HIDE DEF n
  <1>4. f[0] = m /\ \A k \in Nat : k + 1 \in 0 .. n => f[k + 1] = NextMarks(f[k])
    <2>1. \A k \in 0 .. n : f[k] = IF k = 0 THEN m ELSE NextMarks(f[k - 1])
      BY <1>3, Zenon DEF IsPropagating
    <2>2. ASSUME NEW k \in Nat, k + 1 \in 0 .. n PROVE f[k + 1] = NextMarks(f[k])
      <3>1. k + 1 # 0 /\ k + 1 - 1 = k
        OBVIOUS
      <3> QED
        BY <2>1, <2>2, <3>1
    <2> QED
      BY <1>1, <2>1, <2>2
  <1> DEFINE Good(k) == /\ Marking(f[k], E, K)
                        /\ NonWhite(m) \subseteq NonWhite(f[k])
                        /\ f[k].grayagain \subseteq m.grayagain \cup Of("thread")
                        /\ m.grayagain \subseteq f[k].grayagain
                        /\ f[k].gray = {} \/ Cardinality(Open(f[k])) + k <= n
             U == {k \in Nat : k \in 0 .. n => Good(k)}
  <1>5. ASSUME NEW x, Marking(x, E, K)
        PROVE  /\ Open(x) \subseteq heap /\ IsFiniteSet(Open(x)) /\ Cardinality(Open(x)) \in Nat
               /\ Cardinality(Open(x)) <= n
               /\ Cardinality(Open(x)) = 0 => x.gray = {}
    <2>1. Open(x) \subseteq heap
      BY <1>5 DEF Marking, TriColour, ListsOK, Whites
    <2>2. /\ IsFiniteSet(Open(x)) /\ Cardinality(Open(x)) \in Nat
          /\ Cardinality(Open(x)) <= n
      BY <1>1, <2>1, FS_Subset, FS_CardinalityType DEF n
    <2>3. Cardinality(Open(x)) = 0 => Open(x) = {}
      <3> HIDE DEF Open
      <3> QED
        BY <2>2, FS_EmptySet
    <2> QED
      BY <2>1, <2>2, <2>3
  <1>6. 0 \in U
    <2>1. Good(0)
      BY <1>1, <1>4, <1>5
    <2> HIDE DEF Good
    <2> QED
      BY <2>1
  <1>7. ASSUME NEW k \in Nat, k \in U PROVE k + 1 \in U
    <2> SUFFICES ASSUME k + 1 \in 0 .. n PROVE Good(k + 1)
      OBVIOUS
    <2>1. Good(k) /\ f[k + 1] = NextMarks(f[k])
      <3>1. k \in 0 .. n
        BY <1>1
      <3> HIDE DEF Good
      <3> QED
        BY <1>4, <1>7, <3>1
    <2> DEFINE x == f[k]
               y == f[k + 1]
    <2>2. Marking(x, E, K) /\ y = NextMarks(x)
      BY <2>1
    <2> HIDE DEF x, y
    <2>3. /\ Marking(y, E, K) /\ NonWhite(x) \subseteq NonWhite(y)
          /\ y.grayagain \subseteq x.grayagain \cup Of("thread") /\ x.grayagain \subseteq y.grayagain
          /\ Open(y) \subseteq Open(x) /\ (x.gray # {} => Open(y) # Open(x))
      BY <2>2, NextMarksMarking
    <2>4. x.gray = {} => y.gray = {}
      BY <2>2 DEF NextMarks
    <2>5. x.gray # {} => Cardinality(Open(y)) + 1 <= Cardinality(Open(x))
      <3>1. /\ IsFiniteSet(Open(x)) /\ Cardinality(Open(x)) \in Nat
            /\ Cardinality(Open(y)) \in Nat
        BY <1>5, <2>2, <2>3
      <3> HIDE DEF Open
      <3>2. Cardinality(Open(y)) <= Cardinality(Open(x))
            /\ (x.gray # {} => Cardinality(Open(y)) # Cardinality(Open(x)))
        BY <2>3, <3>1, FS_Subset
      <3> QED
        BY <3>1, <3>2
    <2>6. y.gray = {} \/ Cardinality(Open(y)) + (k + 1) <= n
      <3>1. x.gray = {} \/ Cardinality(Open(x)) + k <= n
        BY <2>1 DEF x
      <3>2. Cardinality(Open(x)) \in Nat /\ Cardinality(Open(y)) \in Nat
        BY <1>5, <2>2, <2>3
      <3> HIDE DEF Open
      <3> QED
        BY <1>1, <2>4, <2>5, <3>1, <3>2
    <2>7. /\ NonWhite(m) \subseteq NonWhite(y) /\ y.grayagain \subseteq m.grayagain \cup Of("thread")
          /\ m.grayagain \subseteq y.grayagain
      BY <2>1, <2>3 DEF x
    <2> QED
      BY <2>3, <2>6, <2>7 DEF y
  <1>8. Good(n)
    <2> HIDE DEF Good
    <2>1. Nat \subseteq U
      <3> HIDE DEF U
      <3> QED
        BY <1>6, <1>7, NatSetInduction
    <2> QED
      BY <1>1, <2>1
  <1>9. f[n].gray = {}
    <2>1. Cardinality(Open(f[n])) + n <= n => Cardinality(Open(f[n])) = 0
      <3>1. Cardinality(Open(f[n])) \in Nat
        BY <1>5, <1>8
      <3> HIDE DEF Open
      <3> QED
        BY <1>1, <3>1
    <2> QED
      BY <1>5, <1>8, <2>1
  <1> HIDE DEF Open
  <1> QED
    BY <1>3, <1>8, <1>9
-----------------------------------------------------------------------------
(* The atomic step *)

\* Where nothing is dead, everything in the heap refers to things in the heap.
LEMMA GraphHolds ==
    ASSUME TypeOK, LiveOK, \A o \in heap : color[o] # "dead"
    PROVE  GraphOK /\ Live = heap /\ Now \in Marks
  <1>1. Live = heap
    BY DEF Live
  <1>2. Now \in Marks
    BY DEF Now, Marks, TypeOK, HeapOK, ListsOK
  <1>3. GraphOK
    BY <1>1 DEF TypeOK, HeapOK, LiveOK, GraphOK
  <1> QED
    BY <1>1, <1>2, <1>3

\* What the atomic step computes: the marks before finalizers are looked for, the userdata that
\* have one to be called, and the marks in the end
Remarked   == RemarkGray(RemarkWeak(PropagateAll(RemarkUpvals(Now))))
ToFinalize == tmudata \cup (Separated(Remarked) \cap HasGC)
MarksAtEnd == MarkTmu(Remarked, ToFinalize)

\* In the mark phase the invariant says that only what is spared is marked.
LEMMA MarkPhase ==
    ASSUME TypeOK, LiveOK, PhaseOK, DoomOK, gcstate = "propagate"
    PROVE  /\ GraphOK /\ Live = heap /\ Now \in Marks /\ TriColour(Now)
           /\ IsClosed(Spared) /\ NonWhite(Now) \subseteq Spared
           /\ {Main, Global, running} \subseteq Spared /\ tmudata = {}
           /\ heap \cap (HasGC \ finalized) \subseteq Spared
  <1>1. TriColour(Now) /\ tmudata = {}
    BY DEF PhaseOK
  <1>2. \A o \in heap : color[o] # "dead"
    BY <1>1 DEF TriColour, ColoursOK, Now
  <1>3. heap \subseteq Object
    BY DEF TypeOK, HeapOK
  <1> QED
    BY <1>1, <1>2, <1>3, GraphHolds DEF DoomOK, IsClosed, Spared

\* What is not white and on no list is black, or refers to nothing.
LEMMA OffTheLists ==
    ASSUME GraphOK, NEW m \in Marks, TriColour(m), NEW o \in NonWhite(m),
           o \notin m.gray \cup m.grayagain \cup m.weak
    PROVE  \/ Strong[o] \subseteq NonWhite(m)
           \/ m.color[o] = "gray" /\ Kind[o] = "upval" /\ opens[o] # << >>
  <1>1. o \in heap /\ o \in Object /\ m.color[o] \in {"gray", "black"}
    BY DEF NonWhite, GraphOK
  <1>2. Kind[o] \in {"thread", "table", "function", "upval", "udata", "string"}
    BY <1>1, GCAssumption
  <1>3. CASE m.color[o] = "black"
    BY <1>1, <1>3, KeptContents DEF TriColour, BlackOK
  <1>4. CASE m.color[o] = "gray"
    <2>1. Kind[o] \in {"upval", "string"} /\ (Kind[o] = "upval" => opens[o] # << >>)
      BY <1>1, <1>2, <1>4 DEF TriColour, ColoursOK
    <2>2. Kind[o] = "string" => Contents[o] = {}
      BY <1>1, ContentKinds DEF GraphOK
    <2> QED
      BY <1>1, <1>4, <2>1, <2>2, KeptContents
  <1> QED
    BY <1>1, <1>3, <1>4

\* After the gray lists were gone through once more, everything that is not white was traversed
\* as it is now; then the userdata with finalizers are marked.
LEMMA AtomicMarking ==
    ASSUME TypeOK, LiveOK, PhaseOK, DoomOK, gcstate = "propagate", gray = {}
    PROVE  /\ Remarked \in Marks /\ Marking(MarksAtEnd, {}, Spared) /\ MarksAtEnd.gray = {}
           /\ MarksAtEnd.grayagain \subseteq Of("thread")
           /\ {Main, Global, running} \cup ToFinalize \subseteq NonWhite(MarksAtEnd)
           /\ NonWhite(Remarked) \subseteq NonWhite(MarksAtEnd)
           /\ \A o \in heap : Remarked.color[o] # "dead"
  <1> DEFINE K == Spared
  <1>0. /\ GraphOK /\ Live = heap /\ Now \in Marks /\ TriColour(Now)
        /\ IsClosed(K) /\ NonWhite(Now) \subseteq K
        /\ {Main, Global, running} \subseteq K /\ tmudata = {}
        /\ heap \cap (HasGC \ finalized) \subseteq K
    BY MarkPhase
  <1> HIDE DEF K
  \* The open upvalues
  <1> DEFINE U == {uv \in OpenUpvals : Now.color[uv] = "gray"}
             S == UNION {UpValue(uv) : uv \in U}
             m1 == RemarkUpvals(Now)
             E1 == grayagain \cup weak
  <1>1. S \subseteq heap /\ S \subseteq K /\ \A uv \in U : UpValue(uv) = Strong[uv]
    <2>1. ASSUME NEW uv \in U
          PROVE  UpValue(uv) = Strong[uv] /\ Strong[uv] \subseteq heap /\ Strong[uv] \subseteq K
      <3>1. uv \in heap /\ uv \in Object /\ Kind[uv] = "upval" /\ uv \in NonWhite(Now)
        BY <1>0 DEF OpenUpvals, GraphOK, OpensOK, NonWhite
      <3>2. Strong[uv] = Contents[uv] /\ Contents[uv] = UpValue(uv)
        BY <3>1 DEF Strong, Contents
      <3> QED
        BY <1>0, <3>1, <3>2, KeptContents DEF GraphOK, IsClosed
    <2> QED
      BY <2>1
  <1>2. MarkingBut(Now, S, E1, K)
    <2>1. Now.gray = {} /\ Now.grayagain = grayagain /\ Now.weak = weak
      BY DEF Now
    <2>2. ASSUME NEW o \in NonWhite(Now) \ (Now.gray \cup E1)
          PROVE  Strong[o] \subseteq NonWhite(Now) \cup S
      <3>1. \/ Strong[o] \subseteq NonWhite(Now)
            \/ Now.color[o] = "gray" /\ Kind[o] = "upval" /\ opens[o] # << >>
        BY <1>0, <2>1, <2>2, OffTheLists
      <3>2. ASSUME Now.color[o] = "gray", opens[o] # << >> PROVE Strong[o] \subseteq S
        <4>1. o \in U
          BY <3>2 DEF OpenUpvals, NonWhite
        <4> QED
          BY <1>1, <4>1
      <3> QED
        BY <3>1, <3>2
    <2>3. \A o \in heap : Now.color[o] = "black" => Contents[o] \subseteq NonWhite(Now) \cup S
      BY <1>0 DEF TriColour, BlackOK
    <2> HIDE DEF S, E1
    <2> QED
      BY <1>0, <2>2, <2>3 DEF MarkingBut, TriColour
  <1>3. Marking(m1, E1, K)
    <2>1. m1 = Mark(Now, S)
      BY DEF RemarkUpvals
    <2> HIDE DEF S, E1, m1
    <2>2. S \in SUBSET heap
      BY <1>1
    <2> QED
      BY <1>0, <1>1, <1>2, <2>1, <2>2, MarkMarking
  <1>4. E1 \subseteq heap /\ \A o \in E1 : Kind[o] \in {"table", "thread"}
    BY DEF TypeOK, HeapOK, ListsOK, Now, Of
  <1> HIDE DEF U, S, m1, E1
  \* What was gray already
  <1> DEFINE m2 == PropagateAll(m1)
  <1>5. Marking(m2, E1, K) /\ m2.gray = {}
    BY <1>0, <1>3, PropagateAllMarking
  <1> HIDE DEF m2
  \* The weak tables and the running thread
  <1> DEFINE p2 == [m2 EXCEPT !.gray = m2.weak, !.weak = {}]
             E2 == m2.grayagain
             m3 == RemarkWeak(m2)
  <1>6. /\ Marking(m3, E2, K) /\ m3.gray = {} /\ running \in NonWhite(m3)
        /\ E2 \subseteq m3.grayagain
    <2>1. m2 \in Marks /\ TriColour(m2) /\ Done(m2, E1)
      BY <1>5 DEF Marking
    <2>2. /\ p2 \in Marks /\ p2.color = m2.color /\ p2.gray = m2.weak /\ p2.weak = {}
          /\ p2.grayagain = m2.grayagain
      BY <2>1 DEF Marks
    <2> DEFINE q == Mark(p2, {running})
    <2>3. m3 = PropagateAll(q)
      BY DEF RemarkWeak
    <2> HIDE DEF p2, m3, E2
    <2>4. MarkingBut(p2, {running}, E2, K)
      <3>1. ListsOK(m2)
        BY <2>1 DEF TriColour
      <3>2. ListsOK(p2) /\ NonWhite(p2) = NonWhite(m2)
        BY <2>2, <3>1 DEF ListsOK, NonWhite
      <3>3. ColoursOK(p2)
        <4>1. ColoursOK(m2)
          BY <2>1 DEF TriColour
        <4>2. ASSUME NEW o \in heap, p2.color[o] = "gray"
              PROVE  /\ Kind[o] # "udata"
                     /\ Kind[o] = "upval" => opens[o] # << >>
                     /\ Kind[o] = "function" => o \in p2.gray
                     /\ Kind[o] = "table" => o \in p2.gray \cup p2.grayagain \cup p2.weak
                     /\ Kind[o] = "thread" => o \in p2.gray \cup p2.grayagain
          BY <1>5, <2>2, <4>1, <4>2 DEF ColoursOK
        <4>3. {Main, Global} \cup p2.gray \cup p2.grayagain \cup p2.weak \subseteq NonWhite(p2)
          BY <2>2, <3>2, <4>1 DEF ColoursOK
        <4> QED
          BY <2>2, <4>1, <4>2, <4>3 DEF ColoursOK
      <3>4. ASSUME NEW o \in NonWhite(p2) \ (p2.gray \cup E2)
            PROVE  Strong[o] \subseteq NonWhite(p2) \cup {running}
        <4>1. o \in NonWhite(m2) /\ o \notin m2.gray \cup m2.grayagain \cup m2.weak
          BY <1>5, <2>2, <3>2, <3>4 DEF E2
        <4>2. \/ Strong[o] \subseteq NonWhite(m2)
              \/ m2.color[o] = "gray" /\ Kind[o] = "upval" /\ opens[o] # << >>
          BY <1>0, <2>1, <4>1, OffTheLists
        <4>3. Kind[o] = "upval" => Strong[o] \subseteq NonWhite(m2)
          BY <1>4, <2>1, <4>1 DEF Done
        <4> QED
          BY <3>2, <4>2, <4>3
      <3>5. \A o \in heap : p2.color[o] = "black" => Contents[o] \subseteq NonWhite(p2) \cup {running}
        BY <2>1, <2>2, <3>2 DEF TriColour, BlackOK
      <3>6. NonWhite(p2) \subseteq K
        BY <1>5, <3>2 DEF Marking
      <3> QED
        BY <2>2, <3>2, <3>3, <3>4, <3>5, <3>6 DEF MarkingBut
    <2>5. {running} \subseteq heap /\ {running} \subseteq K
      BY <1>0 DEF GraphOK
    <2>6. Marking(q, E2, K) /\ {running} \subseteq NonWhite(q) /\ q.grayagain = p2.grayagain
      BY <1>0, <2>4, <2>5, MarkMarking
    <2> HIDE DEF q
    <2>7. /\ Marking(PropagateAll(q), E2, K) /\ PropagateAll(q).gray = {}
          /\ NonWhite(q) \subseteq NonWhite(PropagateAll(q))
          /\ q.grayagain \subseteq PropagateAll(q).grayagain
      BY <1>0, <2>6, PropagateAllMarking
    <2> QED
      BY <2>2, <2>3, <2>6, <2>7 DEF E2
  <1>7. m3 \in Marks /\ TriColour(m3) /\ Done(m3, E2) /\ NonWhite(m3) \subseteq K
    BY <1>6 DEF Marking
  <1> HIDE DEF p2, m3, E2
  \* The threads and what became gray again
  <1> DEFINE p3 == [m3 EXCEPT !.gray = m3.grayagain, !.grayagain = {}]
             m4 == RemarkGray(m3)
  <1>8. /\ Marking(m4, {}, K) /\ m4.gray = {} /\ NonWhite(m3) \subseteq NonWhite(m4)
        /\ m4.grayagain \subseteq Of("thread")
    <2>1. /\ p3 \in Marks /\ p3.color = m3.color /\ p3.gray = m3.grayagain /\ p3.weak = m3.weak
          /\ p3.grayagain = {}
      BY <1>7 DEF Marks
    <2>2. m4 = PropagateAll(p3)
      BY DEF RemarkGray
    <2> HIDE DEF p3, m4
    <2>3. NonWhite(p3) = NonWhite(m3)
      BY <2>1 DEF NonWhite
    <2>4. ListsOK(p3)
      BY <1>7, <2>1 DEF TriColour, ListsOK
    <2>5. ColoursOK(p3)
      <3>1. ColoursOK(m3)
        BY <1>7 DEF TriColour
      <3>2. ASSUME NEW o \in heap, p3.color[o] = "gray"
            PROVE  /\ Kind[o] # "udata"
                   /\ Kind[o] = "upval" => opens[o] # << >>
                   /\ Kind[o] = "function" => o \in p3.gray
                   /\ Kind[o] = "table" => o \in p3.gray \cup p3.grayagain \cup p3.weak
                   /\ Kind[o] = "thread" => o \in p3.gray \cup p3.grayagain
        BY <1>6, <2>1, <3>1, <3>2 DEF ColoursOK
      <3>3. {Main, Global} \cup p3.gray \cup p3.grayagain \cup p3.weak \subseteq NonWhite(p3)
        BY <2>1, <2>3, <3>1 DEF ColoursOK
      <3> QED
        BY <2>1, <3>1, <3>2, <3>3 DEF ColoursOK
    <2>6. Done(p3, {})
      <3> SUFFICES ASSUME NEW o \in NonWhite(p3) \ p3.gray PROVE Strong[o] \subseteq NonWhite(p3)
        BY DEF Done
      <3>1. o \notin E2 /\ o \in NonWhite(m3) /\ o \notin m3.gray
        BY <1>6, <2>1, <2>3
      <3> QED
        BY <1>7, <2>3, <3>1 DEF Done
    <2>7. BlackOK(p3)
      BY <1>7, <2>1, <2>3 DEF TriColour, BlackOK
    <2>8. Marking(p3, {}, K)
      BY <1>7, <2>1, <2>3, <2>4, <2>5, <2>6, <2>7 DEF Marking, TriColour
    <2>9. /\ Marking(m4, {}, K) /\ m4.gray = {} /\ NonWhite(p3) \subseteq NonWhite(m4)
          /\ m4.grayagain \subseteq p3.grayagain \cup Of("thread")
      BY <1>0, <2>2, <2>8, PropagateAllMarking
    <2> QED
      BY <2>1, <2>3, <2>9
  <1>9. Remarked = m4
    BY DEF Remarked, m4, m3, m2, m1
  <1> HIDE DEF p3, m4
  <1>10. m4 \in Marks /\ TriColour(m4) /\ Done(m4, {}) /\ NonWhite(m4) \subseteq K
    BY <1>8 DEF Marking
  \* The userdata with finalizers
  <1> DEFINE tm == ToFinalize
             p4 == Paint(m4, tm, "white")
             q4 == Mark(p4, tm)
             m5 == PropagateAll(q4)
  <1>11. tm \subseteq Whites(m4) /\ tm \subseteq heap /\ tm \subseteq K
    BY <1>0, <1>9 DEF ToFinalize, Separated, White, Whites
  <1>12. MarksAtEnd = m5
    BY <1>9 DEF MarksAtEnd, MarkTmu
  <1> HIDE DEF tm
  <1>13. /\ p4 \in Marks /\ p4.gray = m4.gray /\ p4.grayagain = m4.grayagain /\ p4.weak = m4.weak
         /\ \A o \in Object : p4.color[o] = IF o \in tm THEN "white" ELSE m4.color[o]
    <2>1. "white" \in {"white", "dead", "gray", "black"}
      OBVIOUS
    <2> QED
      BY <1>10, <2>1, Painted
  <1> HIDE DEF p4
  <1>14. \A o \in heap : p4.color[o] = m4.color[o]
    <2>1. \A o \in tm : m4.color[o] = "white"
      BY <1>10, <1>11 DEF Whites, TriColour, ColoursOK
    <2> QED
      BY <1>0, <1>13, <2>1 DEF GraphOK
  <1>15. MarkingBut(p4, tm, {}, K)
    <2>1. NonWhite(p4) = NonWhite(m4)
      BY <1>14 DEF NonWhite
    <2>2. ListsOK(p4)
      BY <1>10, <1>13 DEF TriColour, ListsOK
    <2>3. ColoursOK(p4)
      BY <1>10, <1>13, <1>14, <2>1 DEF TriColour, ColoursOK
    <2>4. \A o \in heap : p4.color[o] = "black" => Contents[o] \subseteq NonWhite(p4) \cup tm
      BY <1>10, <1>14, <2>1 DEF TriColour, BlackOK
    <2>5. \A o \in NonWhite(p4) \ (p4.gray \cup {}) : Strong[o] \subseteq NonWhite(p4) \cup tm
      BY <1>10, <1>13, <2>1 DEF Done
    <2> QED
      BY <1>10, <1>13, <2>1, <2>2, <2>3, <2>4, <2>5 DEF MarkingBut
  <1>16. /\ Marking(q4, {}, K) /\ Further(p4, q4) /\ tm \subseteq NonWhite(q4)
         /\ q4.grayagain = p4.grayagain
    BY <1>0, <1>11, <1>15, MarkMarking
  <1> HIDE DEF q4
  <1>17. /\ Marking(m5, {}, K) /\ m5.gray = {} /\ NonWhite(q4) \subseteq NonWhite(m5)
         /\ m5.grayagain \subseteq q4.grayagain \cup Of("thread")
    BY <1>0, <1>16, PropagateAllMarking
  <1> HIDE DEF m5
  <1>18. NonWhite(m4) \subseteq NonWhite(m5)
    <2>1. NonWhite(p4) = NonWhite(m4)
      BY <1>14 DEF NonWhite
    <2> QED
      BY <1>16, <1>17, <2>1 DEF Further
  <1>19. {Main, Global, running} \cup tm \subseteq NonWhite(m5)
    <2>1. {Main, Global} \subseteq NonWhite(m5)
      BY <1>17 DEF Marking, TriColour, ColoursOK
    <2> QED
      BY <1>6, <1>8, <1>16, <1>17, <1>18, <2>1
  <1>20. m5.grayagain \subseteq Of("thread")
    BY <1>8, <1>13, <1>16, <1>17
  <1> QED
    BY <1>9, <1>10, <1>12, <1>17, <1>18, <1>19, <1>20 DEF K, tm, TriColour, ColoursOK
-----------------------------------------------------------------------------
(* What the barriers make of the marks *)

\* While the program runs: nothing dies or comes back to life, in the mark phase more is marked,
\* of what is spared, and outside of it nothing that is white.
MarkStep(m) ==
    /\ m \in Marks /\ ListsOK(m)
    /\ \A o \in Object : m.color[o] = "dead" <=> color[o] = "dead"
    /\ gcstate # "propagate" =>
          /\ m.gray = {} /\ m.grayagain = {} /\ m.weak = {}
          /\ \A o \in Object : m.color[o] # "white" => color[o] # "white"
          /\ \A o \in Object : m.color[o] = "black" => color[o] = "black"
    /\ gcstate = "propagate" =>
          /\ NonWhite(Now) \subseteq NonWhite(m) /\ NonWhite(m) \subseteq Spared
          /\ {Main, Global} \cup m.gray \cup m.grayagain \cup m.weak \subseteq NonWhite(m)

\* The marks as they are
LEMMA NowMarks ==
    ASSUME TypeOK, LiveOK, PhaseOK, DoomOK
    PROVE  MarkStep(Now) /\ Now \in Marks /\ ListsOK(Now) /\ Now.color = color
           /\ Now.gray = gray /\ Now.grayagain = grayagain /\ Now.weak = weak
  <1>1. Now \in Marks /\ ListsOK(Now)
    BY DEF Now, Marks, TypeOK, HeapOK, ListsOK
  <1>2. Now.color = color /\ Now.gray = gray /\ Now.grayagain = grayagain /\ Now.weak = weak
    BY DEF Now
  <1>3. gcstate = "propagate" => TriColour(Now) /\ NonWhite(Now) \subseteq Spared
    BY DEF PhaseOK, DoomOK
  <1>4. gcstate # "propagate" => gray = {} /\ grayagain = {} /\ weak = {}
    BY DEF PhaseOK
  <1> QED
    BY <1>1, <1>2, <1>3, <1>4 DEF MarkStep, TriColour, ColoursOK

\* A black table becomes gray.
LEMMA AgainMarks ==
    ASSUME TypeOK, LiveOK, PhaseOK, DoomOK, NEW t \in heap, Kind[t] = "table", color[t] = "black"
    PROVE  /\ MarkStep(Again(Now, t))
           /\ gcstate = "propagate" =>
                 /\ ColoursOK(Again(Now, t)) /\ NonWhite(Again(Now, t)) = NonWhite(Now)
                 /\ \A o \in heap : Again(Now, t).color[o] = "black" => color[o] = "black" /\ o # t
  <1> DEFINE a == Paint(Now, {t}, "gray")
             m == Again(Now, t)
  <1>1. /\ MarkStep(Now) /\ Now \in Marks /\ ListsOK(Now) /\ Now.color = color
        /\ Now.gray = gray /\ Now.grayagain = grayagain /\ Now.weak = weak /\ heap \subseteq Object
    BY NowMarks DEF TypeOK, HeapOK
  <1>2. /\ a \in Marks /\ a.gray = gray /\ a.grayagain = grayagain /\ a.weak = weak
        /\ \A o \in Object : a.color[o] = IF o \in {t} THEN "gray" ELSE color[o]
    <2>1. "gray" \in {"white", "dead", "gray", "black"}
      OBVIOUS
    <2> QED
      BY <1>1, <2>1, Painted
  <1> HIDE DEF a
  <1>3. m = [a EXCEPT !.grayagain = IF gcstate = "propagate" THEN @ \cup {t} ELSE {}]
    BY DEF Again, a
  <1> HIDE DEF m
  <1>4. /\ m \in Marks /\ m.gray = gray /\ m.weak = weak /\ m.color = a.color
        /\ m.grayagain = IF gcstate = "propagate" THEN grayagain \cup {t} ELSE {}
    BY <1>1, <1>2, <1>3 DEF Marks
  <1>5. \A o \in Object : m.color[o] = IF o = t THEN "gray" ELSE color[o]
    BY <1>2, <1>4
  <1>6. NonWhite(m) = NonWhite(Now)
    BY <1>1, <1>5 DEF NonWhite
  <1>7. ListsOK(m)
    BY <1>1, <1>4 DEF ListsOK, Of
  <1>8. t \in NonWhite(Now)
    BY <1>1 DEF NonWhite
  <1>9. MarkStep(m)
    <2>1. \A o \in Object : m.color[o] = "dead" <=> color[o] = "dead"
      BY <1>5
    <2>2. /\ \A o \in Object : m.color[o] # "white" => color[o] # "white"
          /\ \A o \in Object : m.color[o] = "black" => color[o] = "black"
      <3>1. t \in Object
        BY <1>1
      <3> QED
        BY <1>5, <3>1
    <2>3. gcstate # "propagate" => m.gray = {} /\ m.grayagain = {} /\ m.weak = {}
      BY <1>4 DEF PhaseOK
    <2>4. gcstate = "propagate" =>
             /\ NonWhite(Now) \subseteq NonWhite(m) /\ NonWhite(m) \subseteq Spared
             /\ {Main, Global} \cup m.gray \cup m.grayagain \cup m.weak \subseteq NonWhite(m)
      BY <1>1, <1>4, <1>6, <1>8 DEF MarkStep
    <2> QED
      BY <1>4, <1>7, <2>1, <2>2, <2>3, <2>4 DEF MarkStep
  <1>10. ASSUME gcstate = "propagate"
         PROVE  /\ ColoursOK(m)
                /\ \A o \in heap : m.color[o] = "black" => color[o] = "black" /\ o # t
    <2>1. ColoursOK(Now)
      BY <1>10 DEF PhaseOK, TriColour
    <2>2. \A o \in heap : m.color[o] # "dead"
      BY <1>1, <1>5, <2>1 DEF ColoursOK
    <2>3. \A o \in heap : m.color[o] = "black" =>
             Kind[o] \in {"table", "function", "udata", "upval"} /\ opens[o] = << >>
      BY <1>1, <1>5, <2>1 DEF ColoursOK
    <2>4. ASSUME NEW o \in heap, m.color[o] = "gray"
          PROVE  /\ Kind[o] # "udata"
                 /\ Kind[o] = "upval" => opens[o] # << >>
                 /\ Kind[o] = "function" => o \in m.gray
                 /\ Kind[o] = "table" => o \in m.gray \cup m.grayagain \cup m.weak
                 /\ Kind[o] = "thread" => o \in m.gray \cup m.grayagain
      <3>1. CASE o = t
        BY <1>4, <1>10, <3>1
      <3>2. CASE o # t
        BY <1>1, <1>4, <1>5, <1>10, <2>1, <2>4, <3>2 DEF ColoursOK
      <3> QED
        BY <3>1, <3>2
    <2>5. {Main, Global} \cup m.gray \cup m.grayagain \cup m.weak \subseteq NonWhite(m)
      BY <1>9, <1>10 DEF MarkStep
    <2>6. ColoursOK(m)
      BY <2>2, <2>3, <2>4, <2>5 DEF ColoursOK
    <2> QED
      BY <1>1, <1>5, <2>6
  <1> QED
    BY <1>6, <1>9, <1>10 DEF m

\* A table stays black if what it is given is not white.
LEMMA BarrierBackMarks ==
    ASSUME TypeOK, LiveOK, PhaseOK, DoomOK, NEW t \in heap, Kind[t] = "table", NEW S \in SUBSET heap
    PROVE  /\ MarkStep(BarrierBack(Now, t, S))
           /\ gcstate = "propagate" =>
                 /\ ColoursOK(BarrierBack(Now, t, S))
                 /\ NonWhite(BarrierBack(Now, t, S)) = NonWhite(Now)
                 /\ \A o \in heap : BarrierBack(Now, t, S).color[o] = "black" =>
                       color[o] = "black" /\ (o = t => S \subseteq NonWhite(Now))
  <1>1. MarkStep(Now) /\ Now \in Marks /\ Now.color = color
    BY NowMarks
  <1>2. gcstate = "propagate" => ColoursOK(Now)
    BY DEF PhaseOK, TriColour
  <1>3. CASE color[t] = "black" /\ White(Now, S) # {}
    <2>1. BarrierBack(Now, t, S) = Again(Now, t)
      BY <1>1, <1>3 DEF BarrierBack
    <2> QED
      BY <1>3, <2>1, AgainMarks
  <1>4. CASE ~ (color[t] = "black" /\ White(Now, S) # {})
    <2>1. BarrierBack(Now, t, S) = Now
      BY <1>1, <1>4 DEF BarrierBack
    <2>2. color[t] = "black" => S \subseteq NonWhite(Now)
      <3>1. \A o \in S : Now.color[o] \in {"white", "dead", "gray", "black"}
        BY <1>1 DEF Marks, TypeOK, HeapOK
      <3> QED
        BY <1>4, <3>1 DEF White, NonWhite
    <2> QED
      BY <1>1, <1>2, <2>1, <2>2
  <1> QED
    BY <1>3, <1>4

\* In the mark phase what is in a register is spared.
LEMMA RegsSpared ==
    ASSUME TypeOK, LiveOK
    PROVE  /\ Regs = Contents[running] /\ Regs \subseteq Live /\ Regs \subseteq Value /\ Known \subseteq Live
           /\ Known \subseteq Value /\ Live \subseteq heap /\ heap \subseteq Object
           /\ DoomOK /\ gcstate = "propagate" => Known \subseteq Spared
           /\ stack[running] \in Seq(Value) /\ Depth \in Nat
  <1>1. running \in Object /\ Kind[running] = "thread" /\ heap \subseteq Object /\ running \in Of("thread")
    BY DEF TypeOK, HeapOK, Of
  <1>2. Regs = Contents[running] /\ Kept[running] = Contents[running]
    BY <1>1 DEF Regs, Contents, Kept, Refers
  <1>3. Contents[running] \subseteq Live /\ Global \in Live
    BY DEF LiveOK
  <1>4. Regs \subseteq Value /\ Global \in Value
    <2>1. Contents[running] \subseteq Value
      BY <1>1, ContentKinds DEF TypeOK
    <2> QED
      BY <1>2, <2>1, GCAssumption DEF Value, Of
  <1>5. stack[running] \in Seq(Value)
    BY <1>1 DEF TypeOK, StackOK
  <1>6. Depth \in Nat
    BY <1>5 DEF Depth
  <1>7. DoomOK /\ gcstate = "propagate" => Known \subseteq Spared
    BY <1>2 DEF DoomOK, Known
  <1> QED
    BY <1>1, <1>2, <1>3, <1>4, <1>5, <1>6, <1>7 DEF Known, Live

\* The owner is no longer black, or what it is given is marked.
LEMMA BarrierForwardMarks ==
    ASSUME TypeOK, LiveOK, PhaseOK, DoomOK, NEW o \in heap, NEW v \in Known
    PROVE  /\ MarkStep(BarrierForward(Now, o, v))
           /\ gcstate = "propagate" =>
                 /\ TriColour(BarrierForward(Now, o, v))
                 /\ BarrierForward(Now, o, v).color[o] = "black" => v \in NonWhite(BarrierForward(Now, o, v))
  <1> DEFINE m == BarrierForward(Now, o, v)
  <1>0. v \in heap /\ v \in Object /\ heap \subseteq Object
        /\ (gcstate = "propagate" => v \in Spared) /\ v \in Live
    BY RegsSpared
  <1>1. MarkStep(Now) /\ Now \in Marks /\ Now.color = color /\ ListsOK(Now)
    BY NowMarks
  <1>2. gcstate = "propagate" => TriColour(Now)
    BY DEF PhaseOK
  <1>3. CASE color[o] # "black" \/ White(Now, {v}) = {}
    <2>1. m = Now
      BY <1>1, <1>3 DEF BarrierForward
    <2>2. color[o] = "black" => v \in NonWhite(Now)
      BY <1>0, <1>1, <1>3 DEF White, NonWhite, Marks
    <2> QED
      BY <1>1, <1>2, <2>1, <2>2
  <1>4. CASE color[o] = "black" /\ White(Now, {v}) # {} /\ gcstate = "propagate"
    <2>1. m = Mark(Now, {v})
      BY <1>1, <1>4 DEF BarrierForward
    <2>2. /\ GraphOK /\ Live = heap /\ IsClosed(Spared) /\ NonWhite(Now) \subseteq Spared
          /\ TriColour(Now)
      BY <1>4, MarkPhase
    <2>3. MarkingBut(Now, {v}, heap, Spared)
      <3>1. \A x \in heap : Now.color[x] = "black" => Contents[x] \subseteq NonWhite(Now) \cup {v}
        BY <2>2 DEF TriColour, BlackOK
      <3>2. NonWhite(Now) \ (Now.gray \cup heap) = {}
        BY DEF NonWhite
      <3> QED
        BY <1>1, <2>2, <3>1, <3>2 DEF MarkingBut, TriColour
    <2>4. {v} \in SUBSET heap /\ {v} \subseteq Spared
      BY <1>0, <1>4
    <2>5. Marking(m, heap, Spared) /\ Further(Now, m) /\ {v} \subseteq NonWhite(m)
      BY <2>1, <2>2, <2>3, <2>4, MarkMarking
    <2> HIDE DEF m
    <2>6. m \in Marks /\ TriColour(m) /\ NonWhite(m) \subseteq Spared /\ NonWhite(Now) \subseteq NonWhite(m)
      BY <2>5 DEF Marking, Further
    <2>7. \A x \in Object : m.color[x] = "dead" <=> color[x] = "dead"
      <3>1. PICK all : IsMarked(Now, all, Mark(Now, {v}))
        BY <1>1, <2>2, <2>4, MarkMarks
      <3>2. \A x \in Object : m.color[x] = IF x \notin all THEN color[x]
                                           ELSE IF x \in BlackAtOnce THEN "black" ELSE "gray"
        BY <1>1, <2>1, <3>1 DEF IsMarked
      <3>3. \A x \in all : color[x] # "dead"
        BY <1>1, <2>2, <3>1 DEF IsMarked, Whites, TriColour, ColoursOK
      <3> QED
        BY <3>2, <3>3
    <2>8. MarkStep(m)
      BY <1>4, <2>6, <2>7 DEF MarkStep, TriColour, ColoursOK
    <2> QED
      BY <2>5, <2>6, <2>8 DEF m
  <1>5. CASE color[o] = "black" /\ White(Now, {v}) # {} /\ gcstate # "propagate"
    <2>1. m = Paint(Now, {o}, "white")
      BY <1>1, <1>5 DEF BarrierForward
    <2>2. "white" \in {"white", "dead", "gray", "black"}
      OBVIOUS
    <2>3. /\ m \in Marks /\ m.gray = Now.gray /\ m.grayagain = Now.grayagain /\ m.weak = Now.weak
          /\ \A x \in Object : m.color[x] = IF x \in {o} THEN "white" ELSE color[x]
      BY <1>1, <2>1, <2>2, Painted
    <2> HIDE DEF m
    <2>4. ListsOK(m)
      BY <1>1, <2>3 DEF ListsOK
    <2>5. MarkStep(m)
      BY <1>1, <1>5, <2>3, <2>4 DEF MarkStep
    <2> QED
      BY <1>5, <2>5 DEF m
  <1> QED
    BY <1>3, <1>4, <1>5

\* Open upvalues that are about to be closed become black if they were marked, with their values;
\* in a sweep they become white.
LEMMA LinkUpvalsMarks ==
    ASSUME TypeOK, LiveOK, PhaseOK, DoomOK, NEW S \in SUBSET OpenUpvals
    PROVE  /\ MarkStep(LinkUpvals(Now, S))
           /\ gcstate # "propagate" =>
                 \A uv \in S : color[uv] # "dead" => LinkUpvals(Now, S).color[uv] = "white"
           /\ gcstate = "propagate" =>
                 LET m == LinkUpvals(Now, S) IN
                 /\ \A o \in heap : m.color[o] = "black" =>
                       /\ Kind[o] \in {"table", "function", "udata", "upval"}
                       /\ opens[o] = << >> \/ o \in S
                       /\ Contents[o] \subseteq NonWhite(m)
                 /\ \A o \in heap : m.color[o] = "gray" =>
                       /\ Kind[o] # "udata"
                       /\ Kind[o] = "upval" => opens[o] # << >> /\ o \notin S
                       /\ Kind[o] = "function" => o \in m.gray
                       /\ Kind[o] = "table" => o \in m.gray \cup m.grayagain \cup m.weak
                       /\ Kind[o] = "thread" => o \in m.gray \cup m.grayagain
  <1> DEFINE M == {uv \in S : color[uv] = "gray"}
             V == UNION {UpValue(uv) : uv \in M}
             m == LinkUpvals(Now, S)
  <1>0. heap \subseteq Object /\ S \subseteq heap /\ M \subseteq S /\ \A uv \in S : Kind[uv] = "upval"
    BY DEF TypeOK, HeapOK, OpenUpvals, OpensOK
  <1>1. MarkStep(Now) /\ Now \in Marks /\ Now.color = color /\ ListsOK(Now)
    BY NowMarks
  <1>2. {uv \in S : Now.color[uv] = "gray"} = M
    BY <1>1
  <1>3. CASE gcstate # "propagate"
    <2>1. m = Paint(Now, M, "white")
      BY <1>2, <1>3 DEF LinkUpvals
    <2>2. "white" \in {"white", "dead", "gray", "black"}
      OBVIOUS
    <2> HIDE DEF M
    <2>3. /\ m \in Marks /\ m.gray = Now.gray /\ m.grayagain = Now.grayagain /\ m.weak = Now.weak
          /\ \A x \in Object : m.color[x] = IF x \in M THEN "white" ELSE color[x]
      BY <1>1, <2>1, <2>2, Painted
    <2> HIDE DEF m
    <2>4. ListsOK(m)
      BY <1>1, <2>3 DEF ListsOK
    <2>5. MarkStep(m)
      <3>1. \A x \in M : color[x] = "gray"
        BY DEF M
      <3> QED
        BY <1>1, <1>3, <2>3, <2>4, <3>1 DEF MarkStep
    <2>6. \A uv \in S : color[uv] # "dead" => m.color[uv] = "white"
      <3>1. \A uv \in S : color[uv] # "black"
        BY <1>3 DEF PhaseOK, SweepOK, OpenUpvals
      <3> QED
        BY <1>0, <2>3, <3>1 DEF M, TypeOK, HeapOK
    <2> QED
      BY <1>3, <2>5, <2>6 DEF m
  <1>4. CASE gcstate = "propagate"
    <2> DEFINE p == Paint(Now, M, "black")
    <2>1. m = Mark(p, V)
      BY <1>2, <1>4 DEF LinkUpvals
    <2>2. /\ GraphOK /\ Live = heap /\ IsClosed(Spared) /\ NonWhite(Now) \subseteq Spared
          /\ TriColour(Now)
      BY <1>4, MarkPhase
    <2>3. V \subseteq heap /\ V \subseteq Spared /\ V \subseteq Value
          /\ \A uv \in M : Contents[uv] \subseteq V
      <3>1. ASSUME NEW uv \in M
            PROVE  /\ UpValue(uv) = Contents[uv]
                   /\ Contents[uv] \subseteq heap /\ Contents[uv] \subseteq Spared /\ Contents[uv] \subseteq Value
        <4>1. uv \in Object /\ Kind[uv] = "upval" /\ uv \in heap /\ uv \in NonWhite(Now)
          BY <1>0, <1>1 DEF NonWhite
        <4>2. Contents[uv] = UpValue(uv) /\ Contents[uv] \subseteq Value /\ Kept[uv] = UpValue(uv)
          BY <2>2, <4>1, ContentKinds DEF GraphOK, Kept, Refers
        <4> QED
          BY <2>2, <4>1, <4>2 DEF GraphOK, IsClosed
      <3> QED
        BY <3>1
    <2>4. /\ p \in Marks /\ p.gray = Now.gray /\ p.grayagain = Now.grayagain /\ p.weak = Now.weak
          /\ \A x \in Object : p.color[x] = IF x \in M THEN "black" ELSE color[x]
      <3>1. "black" \in {"white", "dead", "gray", "black"}
        OBVIOUS
      <3> HIDE DEF M
      <3> QED
        BY <1>1, <3>1, Painted
    <2> HIDE DEF p, V
    <2>5. PICK all : /\ IsMarked(p, all, Mark(p, V)) /\ V \subseteq all \cup NonWhite(p)
                     /\ \A C \in SUBSET Object :
                           /\ V \subseteq C /\ \A o \in C \cap Transparent : Contents[o] \subseteq C
                           => all \subseteq C
      BY <2>2, <2>3, <2>4, MarkMarks
    <2> HIDE DEF m
    <2>6. /\ m \in Marks /\ all \subseteq Whites(p)
          /\ \A o \in Object : m.color[o] = IF o \notin all THEN p.color[o]
                                            ELSE IF o \in BlackAtOnce THEN "black" ELSE "gray"
          /\ m.gray = Now.gray \cup {o \in all : Kind[o] \in {"table", "function", "thread"}}
          /\ m.grayagain = Now.grayagain /\ m.weak = Now.weak
          /\ \A o \in all \cap Transparent : Contents[o] \subseteq all \cup NonWhite(p)
      BY <2>1, <2>4, <2>5 DEF IsMarked
    <2>7. NonWhite(p) = NonWhite(Now)
      <3>1. \A x \in M : color[x] = "gray"
        OBVIOUS
      <3> HIDE DEF M
      <3> QED
        BY <1>0, <1>1, <2>4, <3>1 DEF NonWhite
    <2>8. all \subseteq heap /\ all \subseteq Object /\ all \cap M = {}
          /\ \A o \in all : color[o] \in {"white", "dead"}
      <3>1. all \subseteq heap
        BY <2>6 DEF Whites
      <3>2. \A o \in all : p.color[o] \in {"white", "dead"}
        BY <2>6 DEF Whites
      <3> HIDE DEF M
      <3> QED
        BY <1>0, <2>4, <3>1, <3>2
    <2>9. NonWhite(m) = NonWhite(Now) \cup all
      BY <1>0, <2>6, <2>7, <2>8 DEF NonWhite
    <2>10. all \subseteq Value /\ all \subseteq Spared
      <3>1. \A o \in Object \cap Transparent : Contents[o] \subseteq Value
        BY <2>2, ContentKinds DEF GraphOK, Transparent, Of, Value
      <3>2. \A o \in Spared \cap Transparent : Contents[o] \subseteq Spared
        <4>1. \A o \in Object \cap Transparent : Strong[o] = Contents[o]
          BY DEF Strong, Transparent, Of
        <4> QED
          BY <2>2, <4>1, KeptContents DEF IsClosed
      <3>3. Value \in SUBSET Object /\ Spared \in SUBSET Object
        BY <1>0 DEF Value, Spared
      <3> QED
        BY <2>3, <2>5, <3>1, <3>2, <3>3
    <2>11. V \subseteq NonWhite(m) /\ \A o \in all \cap Transparent : Contents[o] \subseteq NonWhite(m)
      BY <2>5, <2>6, <2>7, <2>9
    <2>12. ListsOK(m) /\ {Main, Global} \cup m.gray \cup m.grayagain \cup m.weak \subseteq NonWhite(m)
      <3>1. ListsOK(m)
        BY <1>1, <2>6, <2>8 DEF ListsOK, Of
      <3> QED
        BY <2>2, <2>6, <2>9, <3>1 DEF TriColour, ColoursOK
    <2>13. \A o \in Object : m.color[o] = "dead" <=> color[o] = "dead"
      <3>1. \A o \in all \cup M : color[o] # "dead"
        BY <1>0, <1>1, <2>2, <2>8 DEF TriColour, ColoursOK
      <3> HIDE DEF M
      <3> QED
        BY <2>4, <2>6, <3>1
    <2>14. MarkStep(m)
      BY <1>4, <2>2, <2>6, <2>9, <2>10, <2>12, <2>13 DEF MarkStep
    <2>15. ASSUME NEW o \in heap, m.color[o] = "black"
           PROVE  /\ Kind[o] \in {"table", "function", "udata", "upval"}
                  /\ opens[o] = << >> \/ o \in S
                  /\ Contents[o] \subseteq NonWhite(m)
      <3>1. CASE o \in all
        <4>1. Kind[o] = "udata" \/ (Kind[o] = "upval" /\ opens[o] = << >>)
          BY <2>6, <2>8, <2>15, <3>1 DEF BlackAtOnce
        <4>2. Kind[o] # "upval" => opens[o] = << >>
          BY <2>2, <2>8, <3>1 DEF GraphOK, OpensOK
        <4> QED
          BY <2>8, <2>11, <3>1, <4>1, <4>2 DEF Transparent, Of
      <3>2. CASE o \in M
        BY <1>0, <2>3, <2>11, <3>2
      <3>3. CASE o \notin all /\ o \notin M
        <4>1. Now.color[o] = "black"
          <5> HIDE DEF M
          <5> QED
            BY <1>0, <1>1, <2>4, <2>6, <2>15, <3>3
        <4> QED
          BY <2>2, <2>9, <4>1 DEF TriColour, BlackOK, ColoursOK
      <3> QED
        BY <3>1, <3>2, <3>3
    <2>16. ASSUME NEW o \in heap, m.color[o] = "gray"
           PROVE  /\ Kind[o] # "udata"
                  /\ Kind[o] = "upval" => opens[o] # << >> /\ o \notin S
                  /\ Kind[o] = "function" => o \in m.gray
                  /\ Kind[o] = "table" => o \in m.gray \cup m.grayagain \cup m.weak
                  /\ Kind[o] = "thread" => o \in m.gray \cup m.grayagain
      <3>1. CASE o \in all
        <4>1. o \notin BlackAtOnce /\ Kind[o] # "upval"
          BY <2>6, <2>8, <2>10, <2>16, <3>1 DEF Value, Of
        <4> QED
          BY <2>6, <2>8, <3>1, <4>1 DEF BlackAtOnce
      <3>2. CASE o \notin all
        <4>1. Now.color[o] = "gray" /\ o \notin M
          <5> HIDE DEF M
          <5> QED
            BY <1>0, <1>1, <2>4, <2>6, <2>16, <3>2
        <4>2. o \notin S
          BY <1>1, <4>1
        <4> QED
          BY <2>2, <2>6, <4>1, <4>2 DEF TriColour, ColoursOK
      <3> QED
        BY <3>1, <3>2
    <2> QED
      BY <1>4, <2>14, <2>15, <2>16 DEF m
  <1> QED
    BY <1>3, <1>4
-----------------------------------------------------------------------------
(* What a step of the program does *)

Base == TypeOK /\ LiveOK /\ PhaseOK /\ DoomOK

\* The phase stays, objects that are made are white, only dead upvalues are freed, and outside
\* of the mark phase nothing that is white changes its color.
StepColours ==
    /\ gcstate' = gcstate /\ tosweep' = tosweep /\ tmudata' = tmudata /\ finalized' = finalized
    /\ \A o \in heap \ heap' : color[o] = "dead" /\ Kind[o] = "upval"
    /\ \A o \in heap' \ heap : color'[o] = "white"
    /\ \A u \in HasGC : calls'[u] = IF u \in heap' \ heap THEN 0 ELSE calls[u]
    /\ \A o \in heap \cap heap' : color'[o] = "dead" => color[o] = "dead"
    /\ gcstate # "propagate" =>
          /\ gray' = {} /\ grayagain' = {} /\ weak' = {}
          /\ \A o \in heap \cap heap' :
                /\ color'[o] # "white" => color[o] # "white" /\ opens'[o] = opens[o]
                /\ color'[o] = "black" => color[o] = "black"

\* What is alive refers to nothing that is not.
StepContents ==
    /\ running' \in Live'
    /\ \A o \in Live : Contents'[o] \subseteq Contents[o] \cup Live'
    /\ \A o \in Live' \ Live : Contents'[o] \subseteq Live \cup Live'

\* In the mark phase the marks stay right.
StepMarks == gcstate = "propagate" => TriColour(Now)' /\ NonWhite(Now)' \subseteq Spared

\* What comes or comes back is reached, and what changes is reached or refers to something that
\* is. R is any set that is closed.
StepReach ==
    \A R \in SUBSET Object :
        {Main, Global, running'} \subseteq R /\ (\A o \in R : Kept'[o] \subseteq R) =>
            /\ \A o \in heap' : o \in R \/ Kept'[o] \subseteq Kept[o] \cup R
            /\ \A o \in heap' : o \notin heap \/ (color[o] = "dead" /\ color'[o] # "dead") => o \in R

ProgramStep == TypeOK' /\ StepColours /\ StepContents /\ StepMarks /\ StepReach

\* The contents of an object whose parts do not change
LEMMA SameContents ==
    ASSUME NEW x \in Object, fields'[x] = fields[x],
           Kind[x] = "thread" => stack'[x] = stack[x],
           Kind[x] = "upval" => opens'[x] = opens[x],
           Kind[x] = "upval" /\ opens[x] # << >> =>
              stack'[opens[x][1]][opens[x][2]] = stack[opens[x][1]][opens[x][2]]
    PROVE  Contents'[x] = Contents[x]
  <1>1. CASE Kind[x] = "table"
    BY <1>1 DEF Contents, Values, Keys
  <1>2. CASE Kind[x] = "thread"
    BY <1>2 DEF Contents
  <1>3. CASE Kind[x] = "upval"
    <2>1. CASE opens[x] = << >>
      BY <1>3, <2>1 DEF Contents, UpValue, Values
    <2>2. CASE opens[x] # << >>
      BY <1>3, <2>2 DEF Contents, UpValue, Values
    <2> QED
      BY <2>1, <2>2
  <1>4. CASE Kind[x] \notin {"table", "thread", "upval"}
    BY <1>4 DEF Contents, Values
  <1> QED
    BY <1>1, <1>2, <1>3, <1>4

\* Something that is no table keeps all it refers to.
KeptOfOthers == \A o \in Object : Kind[o] # "table" => Kept[o] = Contents[o]

\* What is kept because of something that is no table is all it refers to.
LEMMA KeptIsContents == KeptOfOthers
  <1> SUFFICES ASSUME NEW o \in Object, Kind[o] # "table" PROVE Kept[o] = Contents[o]
    BY DEF KeptOfOthers
  <1>1. Kind[o] \in {"thread", "table", "function", "upval", "udata", "string"}
    BY GCAssumption
  <1> QED
    BY <1>1 DEF Kept, Contents, Refers

\* What is kept because of an object grows with its contents only.
LEMMA KeptNext ==
    ASSUME NEW o \in Object, NEW R,
           Kind[o] = "table" => fields'[o] = fields[o] /\ mode'[o] = mode[o],
           Kind[o] # "table" => Contents'[o] \subseteq Contents[o] \cup R
    PROVE  Kept'[o] \subseteq Kept[o] \cup R
  <1>1. CASE Kind[o] = "table"
    BY <1>1 DEF Kept, Refers, Held, Values, Keys
  <1>2. CASE Kind[o] # "table"
    <2>1. KeptOfOthers'
      BY KeptIsContents, PTL
    <2>2. Kept'[o] = Contents'[o]
      BY <1>2, <2>1 DEF KeptOfOthers
    <2> QED
      BY <1>2, <2>2, KeptIsContents DEF KeptOfOthers
  <1> QED
    BY <1>1, <1>2

\* A closed set has what is in the registers.
LEMMA RegistersReached ==
    ASSUME TypeOK', NEW R \in SUBSET Object, running' \in R, \A o \in R : Kept'[o] \subseteq R
    PROVE  ToSet(stack'[running']) \subseteq R
  <1>1. running' \in Object /\ Kind[running'] = "thread"
    BY DEF TypeOK, HeapOK, Of
  <1>2. KeptOfOthers'
    BY KeptIsContents, PTL
  <1>3. Kept'[running'] = Contents'[running']
    BY <1>1, <1>2 DEF KeptOfOthers
  <1>4. Contents'[running'] = ToSet(stack'[running'])
    BY <1>1 DEF Contents
  <1> QED
    BY <1>3, <1>4

\* A value on top of the stack: places and what is in them stay.
LEMMA PushStack ==
    ASSUME TypeOK, NEW v \in Value, Push(v)
    PROVE  /\ stack' \in [Of("thread") -> Seq(Value)]
           /\ ToSet(stack'[running]) = ToSet(stack[running]) \cup {v}
           /\ \A th \in Of("thread") : th # running => stack'[th] = stack[th]
           /\ \A th \in Of("thread") : Len(stack[th]) <= Len(stack'[th])
           /\ \A x \in Object : opens[x] # << >> =>
                 /\ opens[x][2] <= Len(stack'[opens[x][1]])
                 /\ stack'[opens[x][1]][opens[x][2]] = stack[opens[x][1]][opens[x][2]]
  <1>1. stack \in [Of("thread") -> Seq(Value)] /\ running \in Of("thread")
    BY DEF TypeOK, HeapOK, StackOK
  <1> DEFINE s == stack[running]
             t == Append(s, v)
  <1>2. s \in Seq(Value) /\ stack' = [stack EXCEPT ![running] = t]
    BY <1>1 DEF Push
  <1>3. /\ t \in Seq(Value) /\ Len(t) = Len(s) + 1 /\ Len(s) \in Nat
        /\ \A i \in 1 .. Len(s) : t[i] = s[i]
        /\ t[Len(s) + 1] = v
    BY <1>2
  <1> HIDE DEF t
  <1>4. ToSet(t) = ToSet(s) \cup {v}
    <2>1. DOMAIN t = 1 .. Len(s) + 1 /\ DOMAIN s = 1 .. Len(s)
      BY <1>2, <1>3
    <2>2. \A i \in 1 .. Len(s) + 1 : i \in 1 .. Len(s) \/ i = Len(s) + 1
      BY <1>3
    <2>3. 1 .. Len(s) \subseteq 1 .. Len(s) + 1 /\ Len(s) + 1 \in 1 .. Len(s) + 1
      BY <1>3
    <2> QED
      BY <1>3, <2>1, <2>2, <2>3 DEF ToSet
  <1> HIDE DEF s
  <1>5. stack'[running] = t /\ \A th \in Of("thread") : th # running => stack'[th] = stack[th]
    BY <1>1, <1>2
  <1>6. \A th \in Of("thread") : Len(stack[th]) \in Nat /\ Len(stack[th]) <= Len(stack'[th])
    BY <1>1, <1>3, <1>5 DEF s
  <1>7. stack' \in [Of("thread") -> Seq(Value)]
    BY <1>1, <1>2, <1>3
  <1>8. ASSUME NEW x \in Object, opens[x] # << >>
        PROVE  /\ opens[x][2] <= Len(stack'[opens[x][1]])
               /\ stack'[opens[x][1]][opens[x][2]] = stack[opens[x][1]][opens[x][2]]
    <2>1. /\ opens[x][1] \in Of("thread") /\ opens[x][2] \in Nat \ {0}
          /\ opens[x][2] <= Len(stack[opens[x][1]])
      BY <1>8 DEF TypeOK, OpensOK
    <2>2. CASE opens[x][1] = running
      BY <1>3, <1>5, <2>1, <2>2 DEF s
    <2>3. CASE opens[x][1] # running
      BY <1>5, <2>1, <2>3
    <2> QED
      BY <2>2, <2>3
  <1> QED
    BY <1>4, <1>5, <1>6, <1>7, <1>8 DEF s

\* The marks after a step m of the marks, when the graph changes only for what is not black
LEMMA MarksNext ==
    ASSUME Base, gcstate = "propagate", NEW m \in Marks, ListsOK(m), ColoursOK(m),
           heap \subseteq heap', gray' = m.gray, grayagain' = m.grayagain, weak' = m.weak,
           \A o \in heap : color'[o] = m.color[o], \A o \in heap' \ heap : color'[o] = "white",
           \A o \in heap : opens'[o] = opens[o],
           \A o \in heap : m.color[o] = "black" => Contents'[o] \subseteq NonWhite(m),
           NonWhite(m) \subseteq Spared
    PROVE  StepMarks
  <1>1. Now' = [color |-> color', gray |-> gray', grayagain |-> grayagain', weak |-> weak']
    BY DEF Now
  <1> DEFINE W == {o \in heap' : color'[o] \in {"gray", "black"}}
  <1>2. W = NonWhite(m)
    BY DEF NonWhite
  <1>3. NonWhite(Now)' = W
    BY DEF NonWhite, Now
  <1>4. BlackOK(Now)'
    <2>1. \A o \in heap' : color'[o] = "black" => Contents'[o] \subseteq W
      BY <1>2
    <2> QED
      BY <2>1 DEF BlackOK, NonWhite, Now
  <1>5. ListsOK(Now)'
    BY DEF ListsOK, Now
  <1>6. ColoursOK(Now)'
    <2>1. \A o \in heap' : color'[o] # "dead"
      BY DEF ColoursOK
    <2>2. \A o \in heap' : color'[o] = "black" =>
             Kind[o] \in {"table", "function", "udata", "upval"} /\ opens'[o] = << >>
      BY DEF ColoursOK
    <2>3. \A o \in heap' : color'[o] = "gray" =>
             /\ Kind[o] # "udata"
             /\ Kind[o] = "upval" => opens'[o] # << >>
             /\ Kind[o] = "function" => o \in gray'
             /\ Kind[o] = "table" => o \in gray' \cup grayagain' \cup weak'
             /\ Kind[o] = "thread" => o \in gray' \cup grayagain'
      BY DEF ColoursOK
    <2>4. {Main, Global} \cup gray' \cup grayagain' \cup weak' \subseteq W
      BY <1>2 DEF ColoursOK
    <2> QED
      BY <2>1, <2>2, <2>3, <2>4 DEF ColoursOK, Now, NonWhite
  <1>7. TriColour(Now)'
    BY <1>4, <1>5, <1>6 DEF TriColour
  <1> QED
    BY <1>2, <1>3, <1>7 DEF StepMarks

\* The marks stay as they are, and what is black has not more than before.
LEMMA SameMarks ==
    ASSUME Base, heap \subseteq heap', gray' = gray, grayagain' = grayagain, weak' = weak,
           gcstate = "propagate" => \A o \in heap : color'[o] = color[o],
           \A o \in heap' \ heap : color'[o] = "white", \A o \in heap : opens'[o] = opens[o],
           \A o \in heap : color[o] = "black" /\ Kind[o] # "thread" /\ opens[o] = << >> =>
              Contents'[o] \subseteq Contents[o]
    PROVE  StepMarks
  <1> SUFFICES ASSUME gcstate = "propagate" PROVE StepMarks
    BY DEF StepMarks
  <1>1. /\ Now \in Marks /\ ListsOK(Now) /\ Now.color = color
        /\ Now.gray = gray /\ Now.grayagain = grayagain /\ Now.weak = weak
    BY NowMarks DEF Base
  <1>2. TriColour(Now) /\ NonWhite(Now) \subseteq Spared
    BY MarkPhase DEF Base
  <1>3. \A o \in heap : Now.color[o] = "black" => Contents'[o] \subseteq NonWhite(Now)
    BY <1>1, <1>2 DEF TriColour, BlackOK, ColoursOK
  <1> QED
    BY <1>1, <1>2, <1>3, MarksNext DEF TriColour

\* What New, NewClosure and reading do not change
LEMMA HeapTypes ==
    ASSUME Base, heap' \subseteq Object, {Main, Global, running'} \subseteq heap', running' \in Of("thread"),
           color' \in [Object -> {"white", "dead", "gray", "black"}],
           NEW m, ListsOK(m), gray' = m.gray, grayagain' = m.grayagain, weak' = m.weak,
           \A o \in heap \ heap' : color[o] = "dead" /\ Kind[o] = "upval" /\ opens[o] # << >>,
           gcstate = "propagate" => heap \subseteq heap',
           gcstate # "propagate" => m.gray = {} /\ m.grayagain = {} /\ m.weak = {},
           \A o \in heap \cap heap' : opens'[o] # << >> => opens[o] # << >>,
           tosweep' = tosweep, tmudata' = tmudata, finalized' = finalized,
           mode' \in [Object -> SUBSET {"key", "value"}], world' = world, calls' \in [Object -> Nat],
           gcstate' = gcstate
    PROVE  HeapOK'
  <1>1. ListsOK(Now)'
    <2>1. ListsOK(m)
      OBVIOUS
    <2> QED
      BY <2>1 DEF ListsOK, Now
  <1>2. tosweep' \subseteq heap' \ OpenUpvals'
    BY DEF Base, TypeOK, HeapOK, OpenUpvals
  <1>3. tmudata' \subseteq heap' \cap HasGC /\ finalized' \subseteq heap' \cap Of("udata")
    BY GCAssumption DEF Base, TypeOK, HeapOK, Of
  <1> QED
    BY <1>1, <1>2, <1>3 DEF Base, TypeOK, HeapOK

\* The colors stay, and so does the heap.
LEMMA SameColours ==
    ASSUME Base, heap' = heap, UNCHANGED cycle, calls' = calls, NEW m, MarkStep(m), Become(m), opens' = opens
    PROVE  StepColours /\ color' \in [Object -> {"white", "dead", "gray", "black"}]
  <1>1. color' = m.color /\ gray' = m.gray /\ grayagain' = m.grayagain /\ weak' = m.weak
    BY DEF Become
  <1>2. heap \subseteq Object
    BY DEF Base, TypeOK, HeapOK
  <1> QED
    BY <1>1, <1>2 DEF MarkStep, StepColours, cycle, Marks

\* A value that is pushed changes what the running thread refers to, and nothing else.
LEMMA PushContents ==
    ASSUME Base, NEW v \in Value, Push(v)
    PROVE  /\ Contents'[running] = Contents[running] \cup {v}
           /\ \A o \in Object : /\ o # running /\ fields'[o] = fields[o]
                                /\ Kind[o] = "upval" => opens'[o] = opens[o]
                                => Contents'[o] = Contents[o]
  <1>1. running \in Object /\ Kind[running] = "thread"
    BY DEF Base, TypeOK, HeapOK, Of
  <1>2. /\ ToSet(stack'[running]) = ToSet(stack[running]) \cup {v}
        /\ \A th \in Of("thread") : th # running => stack'[th] = stack[th]
        /\ \A x \in Object : opens[x] # << >> =>
              stack'[opens[x][1]][opens[x][2]] = stack[opens[x][1]][opens[x][2]]
    BY PushStack DEF Base
  <1>3. Contents'[running] = Contents[running] \cup {v}
    BY <1>1, <1>2 DEF Contents
  <1>4. ASSUME NEW o \in Object, o # running, fields'[o] = fields[o],
               Kind[o] = "upval" => opens'[o] = opens[o]
        PROVE  Contents'[o] = Contents[o]
    BY <1>2, <1>4, SameContents DEF Of
  <1> QED
    BY <1>3, <1>4

\* A new object, on top of the stack
LEMMA NewStep ==
    ASSUME Base, NEW o \in Object, New(o)
    PROVE  ProgramStep
  <1>1. /\ o \notin heap /\ Kind[o] \in {"table", "udata", "thread", "string"} /\ heap' = heap \cup {o}
        /\ Push(o) /\ color' = [color EXCEPT ![o] = "white"]
        /\ fields' = [fields EXCEPT ![o] = IF Kind[o] = "udata" THEN {<< Scalar, Global >>} ELSE {}]
        /\ calls' = [calls EXCEPT ![o] = 0] /\ gray' = gray /\ grayagain' = grayagain /\ weak' = weak
        /\ UNCHANGED cycle /\ opens' = opens /\ mode' = mode /\ running' = running /\ world' = world
    BY DEF New
  <1>2. o \in Value
    BY <1>1 DEF Value, Of
  <1>3. TypeOK /\ HeapOK /\ FieldsOK /\ StackOK /\ OpensOK /\ heap \subseteq Object
    BY DEF Base, TypeOK, HeapOK
  <1>4. /\ color'[o] = "white" /\ calls'[o] = 0
        /\ \A x \in Object : x # o => color'[x] = color[x] /\ fields'[x] = fields[x] /\ calls'[x] = calls[x]
        /\ fields'[o] = IF Kind[o] = "udata" THEN {<< Scalar, Global >>} ELSE {}
        /\ color' \in [Object -> {"white", "dead", "gray", "black"}]
    BY <1>1, <1>3 DEF HeapOK, FieldsOK
  <1>5. opens[o] = << >> /\ running # o /\ Global # o /\ running \in heap
    BY <1>1, <1>3 DEF OpensOK, HeapOK
  <1>6. TypeOK'
    <2>1. HeapOK'
      <3>1. MarkStep(Now) /\ Now.gray = gray /\ Now.grayagain = grayagain /\ Now.weak = weak /\ ListsOK(Now)
        BY NowMarks DEF Base
      <3>2. calls' \in [Object -> Nat]
        BY <1>1, <1>3 DEF HeapOK
      <3>3. {Main, Global, running'} \subseteq heap' /\ running' \in Of("thread") /\ heap' \subseteq Object
        BY <1>1, <1>3 DEF HeapOK
      <3>4. tosweep' = tosweep /\ tmudata' = tmudata /\ finalized' = finalized /\ gcstate' = gcstate
            /\ mode' \in [Object -> SUBSET {"key", "value"}] /\ heap \subseteq heap'
        BY <1>1, <1>3 DEF HeapOK, cycle
      <3>5. gcstate # "propagate" => Now.gray = {} /\ Now.grayagain = {} /\ Now.weak = {}
        BY <3>1 DEF MarkStep
      <3> QED
        BY <1>1, <1>4, <3>1, <3>2, <3>3, <3>4, <3>5, HeapTypes
    <2>2. FieldsOK'
      <3>1. fields' \in [Object -> SUBSET ((Object \cup {Scalar}) \X Object)]
        BY <1>1, <1>3, GCAssumption DEF FieldsOK, Of
      <3>2. \A x \in Object : \A e \in fields'[x] : EntryOK(x, e)
        <4>1. \A e \in fields'[o] : EntryOK(o, e)
          BY <1>1, <1>4, GCAssumption DEF EntryOK
        <4> QED
          BY <1>3, <1>4, <4>1 DEF FieldsOK
      <3>3. \A x \in Object : x \notin heap' \/ opens'[x] # << >> => fields'[x] = {}
        BY <1>1, <1>3, <1>4, <1>5 DEF FieldsOK
      <3> QED
        BY <3>1, <3>2, <3>3 DEF FieldsOK, EntryOK
    <2>3. StackOK' /\ OpensOK'
      <3>1. /\ stack' \in [Of("thread") -> Seq(Value)]
            /\ \A th \in Of("thread") : th # running => stack'[th] = stack[th]
            /\ \A x \in Object : opens[x] # << >> => opens[x][2] <= Len(stack'[opens[x][1]])
        BY <1>1, <1>2, <1>3, PushStack
      <3>2. StackOK'
        BY <1>1, <1>3, <1>5, <3>1 DEF StackOK
      <3>3. OpensOK'
        BY <1>1, <1>3, <3>1 DEF OpensOK
      <3> QED
        BY <3>2, <3>3
    <2> QED
      BY <2>1, <2>2, <2>3 DEF TypeOK
  <1>7. /\ Contents'[running] = Contents[running] \cup {o}
        /\ \A x \in Object : x # running /\ x # o => Contents'[x] = Contents[x]
        /\ Contents'[o] \subseteq {Global}
    <2>1. /\ Contents'[running] = Contents[running] \cup {o}
          /\ \A x \in Object : x # running /\ x # o => Contents'[x] = Contents[x]
      BY <1>1, <1>2, <1>4, PushContents
    <2>2. CASE Kind[o] = "thread"
      <3>1. Contents'[o] = ToSet(stack'[o]) /\ stack'[o] = stack[o]
        BY <1>1, <1>2, <1>3, <1>5, <2>2, PushStack DEF Contents, Of
      <3>2. stack[o] = << >>
        BY <1>1, <1>3, <2>2 DEF StackOK, Of
      <3> QED
        BY <2>1, <3>1, <3>2 DEF ToSet
    <2>3. CASE Kind[o] # "thread"
      <3>1. Contents'[o] \subseteq {Global}
        BY <1>1, <1>4, <2>3 DEF Contents, Values, Keys
      <3> QED
        BY <2>1, <3>1
    <2> QED
      BY <2>2, <2>3
  <1>8. Live' = Live \cup {o} /\ o \notin Live /\ Global \in Live /\ running \in Live
    BY <1>1, <1>3, <1>4 DEF Live, Base, LiveOK
  <1>9. StepColours
    <2>1. gcstate # "propagate" => gray = {} /\ grayagain = {} /\ weak = {}
      BY DEF Base, PhaseOK
    <2> QED
      BY <1>1, <1>3, <1>4, <2>1, GCAssumption DEF StepColours, cycle, Of
  <1>10. StepContents
    BY <1>1, <1>3, <1>7, <1>8 DEF StepContents, Live
  <1>11. StepMarks
    <2>1. \A x \in heap : x # o /\ color'[x] = color[x]
      BY <1>1, <1>3, <1>4
    <2>2. \A x \in heap : color[x] = "black" /\ Kind[x] # "thread" /\ opens[x] = << >> =>
             Contents'[x] \subseteq Contents[x]
      BY <1>3, <1>7, <2>1 DEF HeapOK, Of
    <2> QED
      BY <1>1, <1>4, <2>1, <2>2, SameMarks
  <1>12. StepReach
    <2> SUFFICES ASSUME NEW R \in SUBSET Object, {Main, Global, running'} \subseteq R,
                        \A x \in R : Kept'[x] \subseteq R
                 PROVE  /\ \A x \in heap' : x \in R \/ Kept'[x] \subseteq Kept[x] \cup R
                        /\ \A x \in heap' : x \notin heap \/ (color[x] = "dead" /\ color'[x] # "dead") => x \in R
      BY DEF StepReach
    <2>1. o \in R
      <3>1. ToSet(stack'[running]) \subseteq R
        BY <1>1, <1>6, RegistersReached
      <3> QED
        BY <1>1, <1>2, <1>3, <3>1, PushStack
    <2>2. \A x \in Object : x # o /\ x # running => Kept'[x] \subseteq Kept[x] \cup R
      BY <1>1, <1>4, <1>7, KeptNext
    <2> QED
      BY <1>1, <1>3, <1>4, <2>1, <2>2
  <1> QED
    BY <1>6, <1>9, <1>10, <1>11, <1>12 DEF ProgramStep

\* Something alive is pushed, and its color stays or it is a string that is no longer dead.
LEMMA ReadStep ==
    ASSUME Base, NEW v \in heap, v \in Value, Push(v),
           color' = [color EXCEPT ![v] = IF @ = "dead" THEN "white" ELSE @],
           color[v] = "dead" => Kind[v] = "string",
           UNCHANGED << heap, gray, grayagain, weak, cycle, fields, opens, mode, running, world, calls >>
    PROVE  ProgramStep
  <1>1. TypeOK /\ HeapOK /\ FieldsOK /\ StackOK /\ OpensOK /\ heap \subseteq Object /\ v \in Object
        /\ running \in Object /\ Kind[running] = "thread"
    BY DEF Base, TypeOK, HeapOK, Of
  <1>2. /\ heap' = heap /\ gray' = gray /\ grayagain' = grayagain /\ weak' = weak /\ fields' = fields
        /\ opens' = opens /\ mode' = mode /\ running' = running /\ world' = world /\ calls' = calls
        /\ gcstate' = gcstate /\ tosweep' = tosweep /\ tmudata' = tmudata /\ finalized' = finalized
    BY DEF cycle
  <1>3. /\ color' \in [Object -> {"white", "dead", "gray", "black"}]
        /\ \A x \in Object : x # v => color'[x] = color[x]
        /\ color'[v] = IF color[v] = "dead" THEN "white" ELSE color[v]
    BY <1>1 DEF HeapOK
  <1>4. /\ stack' \in [Of("thread") -> Seq(Value)]
        /\ v \in ToSet(stack'[running])
        /\ \A th \in Of("thread") : th # running => stack'[th] = stack[th]
        /\ \A x \in Object : opens[x] # << >> => opens[x][2] <= Len(stack'[opens[x][1]])
    BY <1>1, PushStack
  <1>5. /\ Contents'[running] = Contents[running] \cup {v}
        /\ \A x \in Object : x # running => Contents'[x] = Contents[x]
    BY <1>2, PushContents
  <1>6. TypeOK'
    <2>1. HeapOK'
      <3>1. MarkStep(Now) /\ Now.gray = gray /\ Now.grayagain = grayagain /\ Now.weak = weak /\ ListsOK(Now)
        BY NowMarks DEF Base
      <3>2. gcstate # "propagate" => Now.gray = {} /\ Now.grayagain = {} /\ Now.weak = {}
        BY <3>1 DEF MarkStep
      <3>3. {Main, Global, running'} \subseteq heap' /\ running' \in Of("thread") /\ heap' \subseteq Object
            /\ calls' \in [Object -> Nat] /\ mode' \in [Object -> SUBSET {"key", "value"}]
        BY <1>1, <1>2 DEF HeapOK
      <3> QED
        BY <1>2, <1>3, <3>1, <3>2, <3>3, HeapTypes
    <2>2. FieldsOK'
      BY <1>1, <1>2 DEF FieldsOK, EntryOK
    <2>3. StackOK'
      BY <1>1, <1>2, <1>4 DEF StackOK, HeapOK
    <2>4. OpensOK'
      BY <1>1, <1>2, <1>4 DEF OpensOK
    <2> QED
      BY <2>1, <2>2, <2>3, <2>4 DEF TypeOK
  <1>7. Live' = Live \cup {v} /\ running \in Live
    BY <1>1, <1>2, <1>3 DEF Live, Base, LiveOK
  <1>8. StepColours
    <2>1. gcstate # "propagate" => gray = {} /\ grayagain = {} /\ weak = {}
      BY DEF Base, PhaseOK
    <2> QED
      BY <1>1, <1>2, <1>3, <2>1 DEF StepColours
  <1>9. StepContents
    <2>1. Contents'[v] \subseteq Contents[v] \cup Live'
      BY <1>1, <1>5, <1>7
    <2>2. v \notin Live => Contents'[v] = {}
      <3>1. v \notin Live => Kind[v] = "string"
        BY DEF Live
      <3>2. Kind[v] = "string" => v # running /\ Contents[v] = {}
        BY <1>1, ContentKinds
      <3> QED
        BY <1>5, <1>1, <3>1, <3>2
    <2>3. \A x \in Live : x \in Object
      BY <1>1 DEF Live
    <2> QED
      BY <1>1, <1>2, <1>5, <1>7, <2>1, <2>2, <2>3 DEF StepContents
  <1>10. StepMarks
    <2>1. gcstate = "propagate" => \A x \in heap : color'[x] = color[x]
      <3>1. gcstate = "propagate" => color[v] # "dead"
        BY DEF Base, PhaseOK, TriColour, ColoursOK, Now
      <3> QED
        BY <1>1, <1>3, <3>1
    <2>2. \A x \in heap : Kind[x] # "thread" => Contents'[x] \subseteq Contents[x]
      BY <1>1, <1>5
    <2> QED
      BY <1>2, <2>1, <2>2, SameMarks
  <1>11. StepReach
    <2> SUFFICES ASSUME NEW R \in SUBSET Object, {Main, Global, running'} \subseteq R,
                        \A x \in R : Kept'[x] \subseteq R
                 PROVE  /\ \A x \in heap' : x \in R \/ Kept'[x] \subseteq Kept[x] \cup R
                        /\ \A x \in heap' : x \notin heap \/ (color[x] = "dead" /\ color'[x] # "dead") => x \in R
      BY DEF StepReach
    <2>1. v \in R
      BY <1>2, <1>4, <1>6, RegistersReached
    <2>2. \A x \in Object : x # running => Kept'[x] \subseteq Kept[x] \cup R
      BY <1>2, <1>5, KeptNext
    <2> QED
      BY <1>1, <1>2, <1>3, <2>1, <2>2
  <1> QED
    BY <1>6, <1>8, <1>9, <1>10, <1>11 DEF ProgramStep

\* What is read out of something alive is alive.
LEMMA FetchStep ==
    ASSUME Base, NEW v, Fetch(v)
    PROVE  ProgramStep
  <1>1. PICK o \in Known : v \in Inside(o)
    BY DEF Fetch
  <1>2. o \in Live /\ o \in Object /\ o \in Value /\ Live \subseteq heap /\ heap \subseteq Object
    BY RegsSpared DEF Base
  <1>3. v \in Live /\ v \in Value
    <2>1. CASE Kind[o] = "function"
      <3>1. PICK uv \in Values(o) : v \in UpValue(uv)
        BY <1>1, <2>1 DEF Inside
      <3>2. Contents[o] = Values(o) /\ Contents[o] \subseteq Of("upval")
        BY <1>2, <2>1, ContentKinds DEF Base, TypeOK
      <3>3. uv \in Live /\ uv \in Object /\ Kind[uv] = "upval"
        BY <1>2, <3>1, <3>2 DEF Base, LiveOK, Of
      <3>4. Contents[uv] = UpValue(uv) /\ Contents[uv] \subseteq Value
        BY <3>3, ContentKinds DEF Base, TypeOK
      <3> QED
        BY <3>1, <3>3, <3>4 DEF Base, LiveOK
    <2>2. CASE Kind[o] # "function"
      <3>1. v \in Contents[o] /\ Kind[o] \in {"table", "udata"}
        BY <1>1, <1>2, <2>2 DEF Inside, Contents
      <3>2. Contents[o] \subseteq Value
        BY <1>2, <3>1, ContentKinds DEF Base, TypeOK, Value, Of
      <3> QED
        BY <1>2, <3>1, <3>2 DEF Base, LiveOK
    <2> QED
      BY <2>1, <2>2
  <1>4. v \in heap /\ color[v] # "dead" /\ color \in [Object -> {"white", "dead", "gray", "black"}]
    BY <1>3 DEF Live, Base, TypeOK, HeapOK
  <1>5. color' = color
    BY DEF Fetch, marks
  <1>6. color' = [color EXCEPT ![v] = IF @ = "dead" THEN "white" ELSE @]
    BY <1>4, <1>5
  <1>7. /\ Push(v)
        /\ UNCHANGED << heap, gray, grayagain, weak, cycle, fields, opens, mode, running, world, calls >>
    BY DEF Fetch, marks
  <1> QED
    BY <1>3, <1>4, <1>6, <1>7, ReadStep

\* A string is found, which may be dead.
LEMMA InternStep ==
    ASSUME Base, NEW s, Intern(s)
    PROVE  ProgramStep
  <1>1. s \in heap /\ Kind[s] = "string" /\ s \in Object
    BY DEF Intern, Base, TypeOK, HeapOK
  <1>2. s \in Value
    BY <1>1 DEF Value, Of
  <1> QED
    BY <1>1, <1>2, ReadStep DEF Intern

\* A step that changes what objects there are refer to, with V the values that it writes: they
\* are in registers, and the table whose entries or mode change is too.
LEMMA WriteStep ==
    ASSUME Base, UNCHANGED << heap, cycle, opens, running, world, calls >>,
           mode' \in [Object -> SUBSET {"key", "value"}],
           FieldsOK', stack' \in [Of("thread") -> Seq(Value)],
           \A th \in Of("thread") : Len(stack'[th]) = Len(stack[th]),
           NEW m, MarkStep(m), Become(m),
           NEW V, V \subseteq Live, V \subseteq ToSet(stack'[running]) \cup {Global},
           \A x \in heap : Contents'[x] \subseteq Contents[x] \cup V,
           \A x \in heap : Kind[x] = "table" =>
              x \in ToSet(stack'[running]) \cup {Global} \/ (fields'[x] = fields[x] /\ mode'[x] = mode[x]),
           gcstate = "propagate" =>
              ColoursOK(m) /\ \A x \in heap : m.color[x] = "black" => Contents'[x] \subseteq NonWhite(m)
    PROVE  ProgramStep
  <1>1. TypeOK /\ HeapOK /\ FieldsOK /\ StackOK /\ OpensOK /\ heap \subseteq Object /\ Live \subseteq heap
    BY DEF Base, TypeOK, HeapOK, Live
  <1>2. /\ heap' = heap /\ opens' = opens /\ running' = running /\ world' = world /\ calls' = calls
        /\ gcstate' = gcstate /\ tosweep' = tosweep /\ tmudata' = tmudata /\ finalized' = finalized
        /\ UNCHANGED cycle
    BY DEF cycle
  <1>3. color' = m.color /\ gray' = m.gray /\ grayagain' = m.grayagain /\ weak' = m.weak
    BY DEF Become
  <1>4. StepColours /\ color' \in [Object -> {"white", "dead", "gray", "black"}]
    BY <1>2, SameColours
  <1>5. m \in Marks /\ ListsOK(m) /\ (\A x \in Object : m.color[x] = "dead" <=> color[x] = "dead")
        /\ (gcstate # "propagate" => m.gray = {} /\ m.grayagain = {} /\ m.weak = {})
        /\ (gcstate = "propagate" => NonWhite(m) \subseteq Spared)
    BY DEF MarkStep
  <1>6. TypeOK'
    <2>1. HeapOK'
      <3>1. {Main, Global, running'} \subseteq heap' /\ running' \in Of("thread") /\ heap' \subseteq Object
            /\ calls' \in [Object -> Nat]
        BY <1>1, <1>2 DEF HeapOK
      <3> QED
        BY <1>2, <1>3, <1>4, <1>5, <3>1, HeapTypes
    <2>2. StackOK'
      <3>1. ASSUME NEW th \in Of("thread"), th \notin heap
            PROVE  stack'[th] = << >>
        <4>1. Len(stack[th]) = 0
          BY <1>1, <3>1 DEF StackOK
        <4>2. Len(stack'[th]) = 0 /\ stack'[th] \in Seq(Value)
          BY <4>1
        <4> QED
          BY <4>2
      <3> QED
        BY <1>2, <3>1 DEF StackOK
    <2>3. OpensOK'
      <3>1. \A uv \in Object : opens[uv] # << >> =>
               opens[uv][1] \in Of("thread") /\ opens[uv][2] <= Len(stack[opens[uv][1]])
        BY <1>1 DEF OpensOK
      <3>2. \A uv \in Object : opens[uv] # << >> => opens[uv][2] <= Len(stack'[opens[uv][1]])
        BY <3>1
      <3> QED
        BY <1>1, <1>2, <3>2 DEF OpensOK
    <2> QED
      BY <2>1, <2>2, <2>3 DEF TypeOK
  <1>7. Live' = Live
    BY <1>1, <1>2, <1>3, <1>5 DEF Live
  <1>8. StepContents
    BY <1>1, <1>2, <1>7 DEF StepContents, Base, LiveOK
  <1>9. StepMarks
    <2>1. CASE gcstate = "propagate"
      BY <1>2, <1>3, <1>5, <2>1, MarksNext
    <2>2. CASE gcstate # "propagate"
      BY <2>2 DEF StepMarks
    <2> QED
      BY <2>1, <2>2
  <1>10. StepReach
    <2> SUFFICES ASSUME NEW R \in SUBSET Object, {Main, Global, running'} \subseteq R,
                        \A x \in R : Kept'[x] \subseteq R
                 PROVE  /\ \A x \in heap' : x \in R \/ Kept'[x] \subseteq Kept[x] \cup R
                        /\ \A x \in heap' : x \notin heap \/ (color[x] = "dead" /\ color'[x] # "dead") => x \in R
      BY DEF StepReach
    <2>1. ToSet(stack'[running]) \cup {Global} \subseteq R
      BY <1>2, <1>6, RegistersReached
    <2>2. ASSUME NEW x \in heap, x \notin R
          PROVE  Kept'[x] \subseteq Kept[x] \cup R
      <3>1. Kind[x] = "table" => fields'[x] = fields[x] /\ mode'[x] = mode[x]
        BY <2>1, <2>2
      <3>2. Contents'[x] \subseteq Contents[x] \cup R
        BY <2>1
      <3> QED
        BY <1>1, <3>1, <3>2, KeptNext
    <2> QED
      BY <1>1, <1>2, <1>3, <1>5, <2>2
  <1> QED
    BY <1>4, <1>6, <1>8, <1>9, <1>10 DEF ProgramStep

\* An entry of a table becomes v.
LEMMA SetTableStep ==
    ASSUME Base, NEW t \in Known, NEW v \in Regs, NEW k \in Regs \cup {Scalar}, SetTable(t, k, v)
    PROVE  ProgramStep
  <1> DEFINE F == {f \in fields[t] : f[1] # k} \cup {<< k, v >>}
             S == {k, v} \ {Scalar}
             m == BarrierBack(Now, t, S)
  <1>1. /\ Kind[t] = "table" /\ fields' = [fields EXCEPT ![t] = F] /\ Become(m)
        /\ UNCHANGED << heap, cycle, opens, running, world, calls >> /\ mode' = mode /\ stack' = stack
    BY DEF SetTable
  <1>2. TypeOK /\ HeapOK /\ FieldsOK /\ StackOK /\ OpensOK /\ heap \subseteq Object /\ Live \subseteq heap
    BY DEF Base, TypeOK, HeapOK, Live
  <1>3. /\ Regs \subseteq Live /\ Regs \subseteq Value /\ Known \subseteq Live /\ t \in heap /\ t \in Object
        /\ S \subseteq Regs /\ v \in Value /\ k \in Value \cup {Scalar} /\ Value \subseteq Object
        /\ S \in SUBSET heap
    <2>1. /\ Regs \subseteq Live /\ Regs \subseteq Value /\ Known \subseteq Live /\ Value \subseteq Object
      <3>1. Value \subseteq Object
        BY DEF Value
      <3> QED
        BY <1>2, <3>1, RegsSpared DEF Base
    <2>2. S \subseteq Regs
      OBVIOUS
    <2> HIDE DEF S
    <2> QED
      BY <1>2, <2>1, <2>2
  <1>4. fields'[t] = F /\ \A x \in Object : x # t => fields'[x] = fields[x]
    BY <1>1, <1>2, <1>3 DEF FieldsOK
  <1>5. FieldsOK'
    <2>1. F \in SUBSET ((Object \cup {Scalar}) \X Object)
      BY <1>2, <1>3 DEF FieldsOK
    <2>2. fields' \in [Object -> SUBSET ((Object \cup {Scalar}) \X Object)]
      <3> HIDE DEF F
      <3> QED
        BY <1>1, <1>2, <2>1 DEF FieldsOK
    <2>3. \A e \in F : EntryOK(t, e)
      <3>1. EntryOK(t, << k, v >>)
        BY <1>1, <1>3 DEF EntryOK
      <3> QED
        BY <1>2, <1>3, <3>1 DEF FieldsOK
    <2>4. \A x \in Object : \A e \in fields'[x] : EntryOK(x, e)
      <3> HIDE DEF F
      <3> QED
        BY <1>2, <1>3, <1>4, <2>3 DEF FieldsOK
    <2>5. opens[t] = << >> /\ opens' = opens /\ heap' = heap
      BY <1>1, <1>2, <1>3 DEF OpensOK
    <2>6. \A x \in Object : x \notin heap' \/ opens'[x] # << >> => fields'[x] = {}
      BY <1>2, <1>3, <1>4, <2>5 DEF FieldsOK
    <2> QED
      BY <2>2, <2>4, <2>6 DEF FieldsOK, EntryOK
  <1>6. /\ Contents'[t] \subseteq Contents[t] \cup S
        /\ \A x \in Object : x # t => Contents'[x] = Contents[x]
    <2>1. Contents'[t] \subseteq Contents[t] \cup S
      <3>1. /\ Contents[t] = {f[2] : f \in fields[t]} \cup ({f[1] : f \in fields[t]} \ {Scalar})
            /\ Contents'[t] = {f[2] : f \in F} \cup ({f[1] : f \in F} \ {Scalar})
        BY <1>1, <1>3, <1>4 DEF Contents, Values, Keys
      <3>2. v # Scalar
        BY <1>3, GCAssumption
      <3> QED
        BY <3>1, <3>2
    <2>2. ASSUME NEW x \in Object, x # t
          PROVE  Contents'[x] = Contents[x]
      <3>1. fields'[x] = fields[x]
        BY <1>4, <2>2
      <3> HIDE DEF F, m
      <3> QED
        BY <1>1, <3>1, SameContents
    <2> QED
      BY <2>1, <2>2
  <1> HIDE DEF F, S
  <1>7. /\ MarkStep(m)
        /\ gcstate = "propagate" =>
              /\ ColoursOK(m) /\ NonWhite(m) = NonWhite(Now)
              /\ \A o \in heap : m.color[o] = "black" => color[o] = "black" /\ (o = t => S \subseteq NonWhite(Now))
    BY <1>1, <1>3, BarrierBackMarks DEF Base
  <1> HIDE DEF m
  <1>8. ASSUME gcstate = "propagate"
        PROVE  ColoursOK(m) /\ \A x \in heap : m.color[x] = "black" => Contents'[x] \subseteq NonWhite(m)
    <2>1. BlackOK(Now) /\ Now.color = color
      BY <1>8 DEF Base, PhaseOK, TriColour, Now
    <2>2. ASSUME NEW x \in heap, m.color[x] = "black"
          PROVE  Contents'[x] \subseteq NonWhite(m)
      <3>1. Contents[x] \subseteq NonWhite(m)
        BY <1>7, <1>8, <2>1, <2>2 DEF BlackOK
      <3>2. x = t => S \subseteq NonWhite(m)
        BY <1>7, <1>8, <2>2
      <3> QED
        BY <1>2, <1>6, <3>1, <3>2
    <2> QED
      BY <1>7, <1>8, <2>2
  <1>9. mode' \in [Object -> SUBSET {"key", "value"}] /\ stack' \in [Of("thread") -> Seq(Value)]
        /\ \A th \in Of("thread") : Len(stack'[th]) = Len(stack[th])
    BY <1>1, <1>2 DEF HeapOK, StackOK
  <1>10. S \subseteq Live /\ S \subseteq ToSet(stack'[running]) \cup {Global}
         /\ t \in ToSet(stack'[running]) \cup {Global}
    BY <1>1, <1>3 DEF Regs, Known
  <1>11. \A x \in heap : Contents'[x] \subseteq Contents[x] \cup S
    BY <1>2, <1>6
  <1>12. \A x \in heap : Kind[x] = "table" =>
            x \in ToSet(stack'[running]) \cup {Global} \/ (fields'[x] = fields[x] /\ mode'[x] = mode[x])
    BY <1>1, <1>2, <1>4, <1>10
  <1> QED
    BY <1>1, <1>5, <1>7, <1>8, <1>9, <1>10, <1>11, <1>12, WriteStep

\* An entry becomes nil.
LEMMA RemoveFieldStep ==
    ASSUME Base, NEW t \in Known, NEW f, RemoveField(t, f)
    PROVE  ProgramStep
  <1>1. /\ Kind[t] = "table" /\ fields' = [fields EXCEPT ![t] = @ \ {f}]
        /\ UNCHANGED << heap, cycle, opens, running, world, calls >> /\ mode' = mode /\ stack' = stack
        /\ UNCHANGED marks
    BY DEF RemoveField
  <1>2. TypeOK /\ HeapOK /\ FieldsOK /\ StackOK /\ OpensOK /\ heap \subseteq Object /\ t \in heap
        /\ t \in Object
    BY RegsSpared DEF Base, TypeOK, HeapOK
  <1>3. fields'[t] = fields[t] \ {f} /\ \A x \in Object : x # t => fields'[x] = fields[x]
    BY <1>1, <1>2 DEF FieldsOK
  <1>4. \A x \in Object : fields'[x] \subseteq fields[x]
    BY <1>3
  <1>5. FieldsOK'
    <2>1. fields' \in [Object -> SUBSET ((Object \cup {Scalar}) \X Object)]
      BY <1>1, <1>2 DEF FieldsOK
    <2>2. opens' = opens /\ heap' = heap
      BY <1>1
    <2> QED
      BY <1>2, <1>4, <2>1, <2>2 DEF FieldsOK, EntryOK
  <1>6. \A x \in Object : Contents'[x] \subseteq Contents[x]
    <2>1. Contents'[t] \subseteq Contents[t]
      <3>1. /\ Contents[t] = {e[2] : e \in fields[t]} \cup ({e[1] : e \in fields[t]} \ {Scalar})
            /\ Contents'[t] = {e[2] : e \in fields'[t]} \cup ({e[1] : e \in fields'[t]} \ {Scalar})
        BY <1>1, <1>2 DEF Contents, Values, Keys
      <3> QED
        BY <1>3, <3>1
    <2>2. \A x \in Object : x # t => Contents'[x] = Contents[x]
      BY <1>1, <1>3, SameContents
    <2> QED
      BY <2>1, <2>2
  <1>7. MarkStep(Now) /\ Become(Now) /\ Now.color = color
    <2>1. MarkStep(Now) /\ Now.color = color
      BY NowMarks DEF Base
    <2> QED
      BY <1>1, <2>1 DEF Become, Now, marks
  <1>8. gcstate = "propagate" =>
           ColoursOK(Now) /\ \A x \in heap : Now.color[x] = "black" => Contents'[x] \subseteq NonWhite(Now)
    BY <1>2, <1>6 DEF Base, PhaseOK, TriColour, BlackOK
  <1>9. mode' \in [Object -> SUBSET {"key", "value"}] /\ stack' \in [Of("thread") -> Seq(Value)]
        /\ \A th \in Of("thread") : Len(stack'[th]) = Len(stack[th])
    BY <1>1, <1>2 DEF HeapOK, StackOK
  <1> DEFINE V == {}
  <1>10. V \subseteq Live /\ V \subseteq ToSet(stack'[running]) \cup {Global}
         /\ \A x \in heap : Contents'[x] \subseteq Contents[x] \cup V
    BY <1>2, <1>6
  <1>11. \A x \in heap : Kind[x] = "table" =>
            x \in ToSet(stack'[running]) \cup {Global} \/ (fields'[x] = fields[x] /\ mode'[x] = mode[x])
    BY <1>1, <1>2, <1>3 DEF Regs, Known
  <1> HIDE DEF V
  <1> QED
    BY <1>1, <1>5, <1>7, <1>8, <1>9, <1>10, <1>11, WriteStep

\* The weak mode of a table changes.
LEMMA SetModeStep ==
    ASSUME Base, NEW t \in Regs, NEW new, SetMode(t, new)
    PROVE  ProgramStep
  <1>1. /\ Kind[t] = "table" /\ mode' = [mode EXCEPT ![t] = new] /\ new \in world.modes
        /\ UNCHANGED << heap, cycle, opens, running, world, calls >> /\ fields' = fields /\ stack' = stack
        /\ UNCHANGED marks \/ (color[t] = "black" /\ Become(Again(Now, t)))
    BY DEF SetMode
  <1>2. TypeOK /\ HeapOK /\ FieldsOK /\ StackOK /\ OpensOK /\ heap \subseteq Object /\ t \in heap
        /\ t \in Object
    BY RegsSpared DEF Base, TypeOK, HeapOK
  <1>3. mode' \in [Object -> SUBSET {"key", "value"}]
        /\ \A x \in Object : x # t => mode'[x] = mode[x]
    <2>1. new \in SUBSET {"key", "value"}
      BY <1>1, <1>2, GCAssumption DEF HeapOK
    <2> QED
      BY <1>1, <1>2, <2>1 DEF HeapOK
  <1>4. FieldsOK'
    <2>1. fields' = fields /\ opens' = opens /\ heap' = heap
      BY <1>1
    <2> QED
      BY <1>2, <2>1 DEF FieldsOK, EntryOK
  <1>5. \A x \in Object : Contents'[x] = Contents[x]
    BY <1>1, SameContents
  <1> DEFINE V == {}
  <1>6. V \subseteq Live /\ V \subseteq ToSet(stack'[running]) \cup {Global}
        /\ \A x \in heap : Contents'[x] \subseteq Contents[x] \cup V
    BY <1>2, <1>5
  <1>7. \A x \in heap : Kind[x] = "table" =>
           x \in ToSet(stack'[running]) \cup {Global} \/ (fields'[x] = fields[x] /\ mode'[x] = mode[x])
    BY <1>1, <1>2, <1>3 DEF Regs
  <1>8. stack' \in [Of("thread") -> Seq(Value)] /\ \A th \in Of("thread") : Len(stack'[th]) = Len(stack[th])
    BY <1>1, <1>2 DEF StackOK
  <1> HIDE DEF V
  <1>9. ASSUME NEW m, MarkStep(m), Become(m),
               gcstate = "propagate" =>
                 ColoursOK(m) /\ \A x \in heap : m.color[x] = "black" => Contents[x] \subseteq NonWhite(m)
        PROVE  ProgramStep
    <2>1. gcstate = "propagate" =>
             ColoursOK(m) /\ \A x \in heap : m.color[x] = "black" => Contents'[x] \subseteq NonWhite(m)
      BY <1>2, <1>5, <1>9
    <2> QED
      BY <1>1, <1>3, <1>4, <1>6, <1>7, <1>8, <1>9, <2>1, WriteStep
  <1>10. MarkStep(Now) /\ Now.color = color /\ (gcstate = "propagate" => BlackOK(Now) /\ ColoursOK(Now))
    BY NowMarks DEF Base, PhaseOK, TriColour
  <1>11. CASE UNCHANGED marks
    <2>1. Become(Now)
      BY <1>11 DEF Become, Now, marks
    <2> QED
      BY <1>9, <1>10, <2>1 DEF BlackOK
  <1>12. CASE color[t] = "black" /\ Become(Again(Now, t))
    <2> DEFINE m == Again(Now, t)
    <2>1. /\ MarkStep(m)
          /\ gcstate = "propagate" =>
                 /\ ColoursOK(m) /\ NonWhite(m) = NonWhite(Now)
                 /\ \A o \in heap : m.color[o] = "black" => color[o] = "black" /\ o # t
      BY <1>1, <1>2, <1>12, AgainMarks DEF Base
    <2>2. Become(m)
      BY <1>12
    <2> HIDE DEF m
    <2>3. gcstate = "propagate" =>
             ColoursOK(m) /\ \A x \in heap : m.color[x] = "black" => Contents[x] \subseteq NonWhite(m)
      BY <1>10, <2>1 DEF BlackOK
    <2> QED
      BY <1>9, <2>1, <2>2, <2>3
  <1> QED
    BY <1>1, <1>11, <1>12

\* The environment of a userdata changes.
LEMMA SetEnvStep ==
    ASSUME Base, NEW u \in Regs, NEW t \in Known, SetEnv(u, t)
    PROVE  ProgramStep
  <1> DEFINE m == BarrierForward(Now, u, t)
  <1>1. /\ Kind[u] = "udata" /\ Kind[t] = "table" /\ fields' = [fields EXCEPT ![u] = {<< Scalar, t >>}]
        /\ Become(m) /\ UNCHANGED << heap, cycle, opens, running, world, calls >>
        /\ mode' = mode /\ stack' = stack
    BY DEF SetEnv
  <1>2. TypeOK /\ HeapOK /\ FieldsOK /\ StackOK /\ OpensOK /\ heap \subseteq Object /\ u \in heap
        /\ u \in Object /\ t \in Object /\ t \in Live
    BY RegsSpared DEF Base, TypeOK, HeapOK
  <1>3. fields'[u] = {<< Scalar, t >>} /\ \A x \in Object : x # u => fields'[x] = fields[x]
    BY <1>1, <1>2 DEF FieldsOK
  <1>4. FieldsOK'
    <2>1. fields' \in [Object -> SUBSET ((Object \cup {Scalar}) \X Object)]
      BY <1>1, <1>2 DEF FieldsOK
    <2>2. EntryOK(u, << Scalar, t >>) /\ opens[u] = << >>
      BY <1>1, <1>2 DEF EntryOK, Of, OpensOK
    <2>3. \A x \in Object : \A e \in fields'[x] : EntryOK(x, e)
      BY <1>2, <1>3, <2>2 DEF FieldsOK
    <2>4. opens' = opens /\ heap' = heap
      BY <1>1
    <2>5. \A x \in Object : x \notin heap' \/ opens'[x] # << >> => fields'[x] = {}
      BY <1>2, <1>3, <2>2, <2>4 DEF FieldsOK
    <2> QED
      BY <2>1, <2>3, <2>5 DEF FieldsOK, EntryOK
  <1>5. Contents'[u] = {t} /\ \A x \in Object : x # u => Contents'[x] = Contents[x]
    <2>1. Contents'[u] = {t}
      <3>1. Contents'[u] = {f[2] : f \in fields'[u]}
        BY <1>1, <1>2 DEF Contents, Values
      <3> QED
        BY <1>3, <3>1
    <2> HIDE DEF m
    <2>2. \A x \in Object : x # u => Contents'[x] = Contents[x]
      BY <1>1, <1>3, SameContents
    <2> QED
      BY <2>1, <2>2
  <1>6. /\ MarkStep(m)
        /\ gcstate = "propagate" =>
              /\ TriColour(m)
              /\ m.color[u] = "black" => t \in NonWhite(m)
    BY <1>2, BarrierForwardMarks DEF Base
  <1> HIDE DEF m
  <1>7. gcstate = "propagate" =>
           ColoursOK(m) /\ \A x \in heap : m.color[x] = "black" => Contents'[x] \subseteq NonWhite(m)
    BY <1>2, <1>5, <1>6 DEF TriColour, BlackOK
  <1> DEFINE V == {t}
  <1>8. V \subseteq Live /\ V \subseteq ToSet(stack'[running]) \cup {Global}
        /\ \A x \in heap : Contents'[x] \subseteq Contents[x] \cup V
    BY <1>1, <1>2, <1>5 DEF Regs, Known
  <1>9. \A x \in heap : Kind[x] = "table" =>
           x \in ToSet(stack'[running]) \cup {Global} \/ (fields'[x] = fields[x] /\ mode'[x] = mode[x])
    BY <1>1, <1>2, <1>3
  <1>10. mode' \in [Object -> SUBSET {"key", "value"}] /\ stack' \in [Of("thread") -> Seq(Value)]
         /\ \A th \in Of("thread") : Len(stack'[th]) = Len(stack[th])
    BY <1>1, <1>2 DEF HeapOK, StackOK
  <1> HIDE DEF V
  <1> QED
    BY <1>1, <1>4, <1>6, <1>7, <1>8, <1>9, <1>10, WriteStep

\* The value of an upvalue that is closed changes.
LEMMA SetClosedStep ==
    ASSUME Base, NEW uv \in heap, Kind[uv] = "upval", opens[uv] = << >>, NEW v \in Regs,
           fields' = [fields EXCEPT ![uv] = {<< Scalar, v >>}],
           Become(BarrierForward(Now, uv, v)),
           UNCHANGED << heap, cycle, opens, running, world, calls >>, mode' = mode, stack' = stack
    PROVE  ProgramStep
  <1> DEFINE m == BarrierForward(Now, uv, v)
  <1>1. v \in Known
    BY DEF Known
  <1>2. TypeOK /\ HeapOK /\ FieldsOK /\ StackOK /\ OpensOK /\ heap \subseteq Object /\ v \in Value
        /\ uv \in Object /\ v \in Object /\ v \in Live
    BY RegsSpared DEF Base, TypeOK, HeapOK
  <1>3. fields'[uv] = {<< Scalar, v >>} /\ \A x \in Object : x # uv => fields'[x] = fields[x]
    BY <1>2 DEF FieldsOK
  <1>4. FieldsOK'
    <2>1. fields' \in [Object -> SUBSET ((Object \cup {Scalar}) \X Object)]
      BY <1>2 DEF FieldsOK
    <2>2. EntryOK(uv, << Scalar, v >>)
      BY <1>2 DEF EntryOK
    <2>3. \A x \in Object : \A e \in fields'[x] : EntryOK(x, e)
      BY <1>2, <1>3, <2>2 DEF FieldsOK
    <2>4. opens' = opens /\ heap' = heap
      OBVIOUS
    <2>5. \A x \in Object : x \notin heap' \/ opens'[x] # << >> => fields'[x] = {}
      BY <1>2, <1>3, <2>4 DEF FieldsOK
    <2> QED
      BY <2>1, <2>3, <2>5 DEF FieldsOK, EntryOK
  <1>5. Contents'[uv] = {v} /\ \A x \in Object : x # uv => Contents'[x] = Contents[x]
    <2>1. Contents'[uv] = {v}
      <3>1. Contents'[uv] = UpValue(uv)'
        BY <1>2 DEF Contents
      <3>2. UpValue(uv)' = {f[2] : f \in fields'[uv]}
        BY <1>2 DEF UpValue, Values
      <3> QED
        BY <1>3, <3>1, <3>2
    <2> HIDE DEF m
    <2>2. \A x \in Object : x # uv => Contents'[x] = Contents[x]
      BY <1>3, SameContents
    <2> QED
      BY <2>1, <2>2
  <1>6. /\ MarkStep(m) /\ Become(m)
        /\ gcstate = "propagate" =>
              /\ TriColour(m)
              /\ m.color[uv] = "black" => v \in NonWhite(m)
    BY <1>1, <1>2, BarrierForwardMarks DEF Base
  <1> HIDE DEF m
  <1>7. gcstate = "propagate" =>
           ColoursOK(m) /\ \A x \in heap : m.color[x] = "black" => Contents'[x] \subseteq NonWhite(m)
    BY <1>2, <1>5, <1>6 DEF TriColour, BlackOK
  <1> DEFINE V == {v}
  <1>8. V \subseteq Live /\ V \subseteq ToSet(stack'[running]) \cup {Global}
        /\ \A x \in heap : Contents'[x] \subseteq Contents[x] \cup V
    BY <1>2, <1>5 DEF Regs
  <1>9. \A x \in heap : Kind[x] = "table" =>
           x \in ToSet(stack'[running]) \cup {Global} \/ (fields'[x] = fields[x] /\ mode'[x] = mode[x])
    BY <1>2, <1>3
  <1>10. mode' \in [Object -> SUBSET {"key", "value"}] /\ stack' \in [Of("thread") -> Seq(Value)]
         /\ \A th \in Of("thread") : Len(stack'[th]) = Len(stack[th])
    BY <1>2 DEF HeapOK, StackOK
  <1> HIDE DEF V
  <1> QED
    BY <1>4, <1>6, <1>7, <1>8, <1>9, <1>10, WriteStep

\* One place of a stack changes.
LEMMA PlaceStack ==
    ASSUME TypeOK, NEW th \in Of("thread"), NEW i \in 1 .. Len(stack[th]), NEW v \in Value,
           stack' = [stack EXCEPT ![th][i] = v]
    PROVE  /\ stack' \in [Of("thread") -> Seq(Value)]
           /\ \A t \in Of("thread") : Len(stack'[t]) = Len(stack[t])
           /\ \A t \in Of("thread") : t # th => stack'[t] = stack[t]
           /\ \A j \in 1 .. Len(stack[th]) : stack'[th][j] = IF j = i THEN v ELSE stack[th][j]
           /\ v \in ToSet(stack'[th]) /\ ToSet(stack'[th]) \subseteq ToSet(stack[th]) \cup {v}
  <1>1. stack \in [Of("thread") -> Seq(Value)] /\ stack[th] \in Seq(Value)
    BY DEF TypeOK, StackOK
  <1>2. /\ stack'[th] = [stack[th] EXCEPT ![i] = v]
        /\ \A t \in Of("thread") : t # th => stack'[t] = stack[t]
    BY <1>1
  <1> DEFINE s == [stack[th] EXCEPT ![i] = v]
  <1>3. /\ s \in Seq(Value) /\ Len(s) = Len(stack[th])
        /\ \A j \in 1 .. Len(stack[th]) : s[j] = IF j = i THEN v ELSE stack[th][j]
    BY <1>1
  <1> HIDE DEF s
  <1>4. v \in ToSet(s) /\ ToSet(s) \subseteq ToSet(stack[th]) \cup {v}
    <2>1. DOMAIN s = 1 .. Len(stack[th]) /\ DOMAIN stack[th] = 1 .. Len(stack[th])
      BY <1>1, <1>3
    <2> QED
      BY <1>3, <2>1 DEF ToSet
  <1>5. stack' = [stack EXCEPT ![th] = s]
    BY <1>1, <1>2 DEF s
  <1>6. stack' \in [Of("thread") -> Seq(Value)]
    BY <1>1, <1>3, <1>5
  <1>7. stack'[th] = s
    BY <1>2 DEF s
  <1> QED
    BY <1>2, <1>3, <1>4, <1>6, <1>7

\* The value of an upvalue that is open changes: with it a place of a stack, which every upvalue
\* of this place has.
LEMMA SetOpenStep ==
    ASSUME Base, NEW uv \in heap, opens[uv] # << >>, NEW v \in Regs,
           stack' = [stack EXCEPT ![opens[uv][1]][opens[uv][2]] = v],
           UNCHANGED << fields, marks >>,
           UNCHANGED << heap, cycle, opens, running, world, calls >>, mode' = mode
    PROVE  ProgramStep
  <1> DEFINE th == opens[uv][1]
             i  == opens[uv][2]
  <1>1. TypeOK /\ HeapOK /\ FieldsOK /\ StackOK /\ OpensOK /\ heap \subseteq Object /\ v \in Value
        /\ uv \in Object /\ v \in Object /\ v \in Live /\ running \in Of("thread") /\ Regs = ToSet(stack[running])
    BY RegsSpared DEF Base, TypeOK, HeapOK, Regs
  <1>2. th \in Of("thread") /\ i \in 1 .. Len(stack[th])
    <2>1. opens[uv] \in Of("thread") \X (Nat \ {0}) /\ i <= Len(stack[th])
      BY <1>1 DEF OpensOK
    <2>2. stack[th] \in Seq(Value)
      BY <1>1, <2>1 DEF StackOK
    <2> QED
      BY <2>1, <2>2
  <1>3. stack' = [stack EXCEPT ![th][i] = v]
    OBVIOUS
  <1> HIDE DEF th, i
  <1>4. /\ stack' \in [Of("thread") -> Seq(Value)]
        /\ \A t \in Of("thread") : Len(stack'[t]) = Len(stack[t])
        /\ \A t \in Of("thread") : t # th => stack'[t] = stack[t]
        /\ \A j \in 1 .. Len(stack[th]) : stack'[th][j] = IF j = i THEN v ELSE stack[th][j]
        /\ v \in ToSet(stack'[th]) /\ ToSet(stack'[th]) \subseteq ToSet(stack[th]) \cup {v}
    BY <1>1, <1>2, <1>3, PlaceStack
  <1>5. v \in ToSet(stack'[running])
    BY <1>1, <1>4
  <1>6. FieldsOK'
    <2>1. opens' = opens /\ heap' = heap /\ fields' = fields
      OBVIOUS
    <2> QED
      BY <1>1, <2>1 DEF FieldsOK, EntryOK
  <1>7. ASSUME NEW x \in Object
        PROVE  /\ Contents'[x] \subseteq Contents[x] \cup {v}
               /\ Kind[x] # "thread" /\ opens[x] = << >> => Contents'[x] = Contents[x]
    <2>1. CASE Kind[x] = "thread"
      <3>1. Contents'[x] = ToSet(stack'[x]) /\ Contents[x] = ToSet(stack[x]) /\ x \in Of("thread")
        BY <2>1 DEF Contents, Of
      <3> QED
        BY <1>4, <2>1, <3>1
    <2>2. CASE Kind[x] # "thread" /\ opens[x] = << >>
      BY <2>2, SameContents
    <2>3. CASE Kind[x] # "thread" /\ opens[x] # << >>
      <3>1. /\ Kind[x] = "upval" /\ opens[x][1] \in Of("thread")
            /\ opens[x][2] \in 1 .. Len(stack[opens[x][1]])
        <4>1. /\ opens[x] \in Of("thread") \X (Nat \ {0}) /\ opens[x][2] <= Len(stack[opens[x][1]])
              /\ Kind[x] = "upval"
          BY <1>1, <2>3 DEF OpensOK
        <4>2. stack[opens[x][1]] \in Seq(Value)
          BY <1>1, <4>1 DEF StackOK
        <4> QED
          BY <4>1, <4>2
      <3>2. Contents[x] = {stack[opens[x][1]][opens[x][2]]} /\ Contents'[x] = {stack'[opens[x][1]][opens[x][2]]}
        BY <2>3, <3>1 DEF Contents, UpValue
      <3>3. stack'[opens[x][1]][opens[x][2]] \in {v, stack[opens[x][1]][opens[x][2]]}
        BY <1>4, <3>1
      <3> QED
        BY <2>3, <3>2, <3>3
    <2> QED
      BY <2>1, <2>2, <2>3
  <1>8. MarkStep(Now) /\ Become(Now) /\ Now.color = color
    <2>1. MarkStep(Now) /\ Now.color = color
      BY NowMarks DEF Base
    <2> QED
      BY <2>1 DEF Become, Now, marks
  <1>9. gcstate = "propagate" =>
           ColoursOK(Now) /\ \A x \in heap : Now.color[x] = "black" => Contents'[x] \subseteq NonWhite(Now)
    <2>1. gcstate = "propagate" => BlackOK(Now) /\ ColoursOK(Now)
      BY DEF Base, PhaseOK, TriColour
    <2>2. gcstate = "propagate" => \A x \in heap : Now.color[x] = "black" => Kind[x] # "thread" /\ opens[x] = << >>
      BY <2>1 DEF ColoursOK
    <2> QED
      BY <1>1, <1>7, <2>1, <2>2 DEF BlackOK
  <1> DEFINE V == {v}
  <1>10. V \subseteq Live /\ V \subseteq ToSet(stack'[running]) \cup {Global}
         /\ \A x \in heap : Contents'[x] \subseteq Contents[x] \cup V
    BY <1>1, <1>5, <1>7
  <1>11. \A x \in heap : Kind[x] = "table" =>
            x \in ToSet(stack'[running]) \cup {Global} \/ (fields'[x] = fields[x] /\ mode'[x] = mode[x])
    OBVIOUS
  <1>12. mode' \in [Object -> SUBSET {"key", "value"}]
    BY <1>1 DEF HeapOK
  <1> HIDE DEF V
  <1> QED
    BY <1>4, <1>6, <1>8, <1>9, <1>10, <1>11, <1>12, WriteStep

\* What an upvalue of a function in a register refers to changes.
LEMMA SetUpvalStep ==
    ASSUME Base, NEW f \in Regs, NEW v \in Regs, SetUpval(f, v)
    PROVE  ProgramStep
  <1>1. Kind[f] = "function" /\ UNCHANGED << heap, cycle, opens, running, world, calls >> /\ mode' = mode
    BY DEF SetUpval
  <1>2. f \in Live /\ f \in Object /\ Live \subseteq heap /\ heap \subseteq Object
    BY RegsSpared DEF Base
  <1>3. PICK uv \in Values(f) :
           IF opens[uv] = << >>
           THEN /\ fields' = [fields EXCEPT ![uv] = {<< Scalar, v >>}]
                /\ Become(BarrierForward(Now, uv, v)) /\ UNCHANGED stack
           ELSE /\ stack' = [stack EXCEPT ![opens[uv][1]][opens[uv][2]] = v]
                /\ UNCHANGED << fields, marks >>
    BY DEF SetUpval
  <1>4. uv \in heap /\ Kind[uv] = "upval"
    <2>1. Contents[f] = Values(f) /\ Contents[f] \subseteq Of("upval")
      BY <1>1, <1>2, ContentKinds DEF Base, TypeOK
    <2> QED
      BY <1>2, <1>3, <2>1 DEF Of, Base, LiveOK
  <1>5. CASE opens[uv] = << >>
    <2>1. fields' = [fields EXCEPT ![uv] = {<< Scalar, v >>}] /\ Become(BarrierForward(Now, uv, v))
          /\ stack' = stack
      BY <1>3, <1>5
    <2> QED
      BY <1>1, <1>4, <1>5, <2>1, SetClosedStep
  <1>6. CASE opens[uv] # << >>
    <2>1. /\ stack' = [stack EXCEPT ![opens[uv][1]][opens[uv][2]] = v]
          /\ UNCHANGED << fields, marks >>
      BY <1>3, <1>6
    <2> QED
      BY <1>1, <1>4, <1>6, <2>1, SetOpenStep
  <1> QED
    BY <1>5, <1>6

\* A function is made, with the upvalue of the place i, which is found or made.
LEMMA NewClosureStep ==
    ASSUME Base, NEW f \in Object, NEW uv \in Object, NEW i, NewClosure(f, i, uv)
    PROVE  ProgramStep
  <1> DEFINE old == {u \in OpenUpvals : opens[u] = << running, i >>}
             fresh == old = {}
  <1>1. /\ f \notin heap /\ Kind[f] = "function" /\ Kind[uv] = "upval" /\ i \in 1 .. Depth
        /\ IF fresh THEN uv \notin heap ELSE uv \in old
        /\ heap' = heap \cup {f, uv} /\ Push(f)
        /\ opens' = [opens EXCEPT ![uv] = << running, i >>]
        /\ fields' = [fields EXCEPT ![f] = {<< Scalar, uv >>}]
        /\ color' = [color EXCEPT ![f] = "white", ![uv] = IF fresh \/ @ = "dead" THEN "white" ELSE @]
        /\ gray' = gray /\ grayagain' = grayagain /\ weak' = weak
        /\ UNCHANGED cycle /\ mode' = mode /\ running' = running /\ world' = world /\ calls' = calls
    BY DEF NewClosure
  <1>2. TypeOK /\ HeapOK /\ FieldsOK /\ StackOK /\ OpensOK /\ heap \subseteq Object /\ running \in heap
        /\ running \in Of("thread") /\ running \in Object /\ Kind[running] = "thread"
    BY DEF Base, TypeOK, HeapOK, Of
  <1>3. f # uv /\ f # running /\ uv # running /\ f \in Value
        /\ \A x \in {f, uv} : Kind[x] \notin {"thread", "table", "udata", "string"}
    BY <1>1, <1>2 DEF Value, Of
  <1>4. /\ fresh => uv \notin heap /\ opens[uv] = << >>
        /\ ~ fresh => uv \in heap /\ opens[uv] = << running, i >>
    BY <1>1, <1>2 DEF OpenUpvals, OpensOK
  <1> HIDE DEF old
  <1> HIDE DEF fresh
  <1>5. /\ color'[f] = "white" /\ color'[uv] = IF fresh \/ color[uv] = "dead" THEN "white" ELSE color[uv]
        /\ \A x \in Object : x \notin {f, uv} => color'[x] = color[x]
        /\ color' \in [Object -> {"white", "dead", "gray", "black"}]
    BY <1>1, <1>2, <1>3 DEF HeapOK
  <1>6. /\ opens'[uv] = << running, i >> /\ \A x \in Object : x # uv => opens'[x] = opens[x]
        /\ fields'[f] = {<< Scalar, uv >>} /\ \A x \in Object : x # f => fields'[x] = fields[x]
        /\ \A x \in heap : opens'[x] = opens[x]
        /\ opens[f] = << >>
    BY <1>1, <1>2, <1>3, <1>4 DEF FieldsOK, OpensOK
  <1>7. /\ stack' \in [Of("thread") -> Seq(Value)]
        /\ ToSet(stack'[running]) = ToSet(stack[running]) \cup {f}
        /\ \A th \in Of("thread") : th # running => stack'[th] = stack[th]
        /\ \A th \in Of("thread") : Len(stack[th]) <= Len(stack'[th])
        /\ \A x \in Object : opens[x] # << >> =>
              /\ opens[x][2] <= Len(stack'[opens[x][1]])
              /\ stack'[opens[x][1]][opens[x][2]] = stack[opens[x][1]][opens[x][2]]
    BY <1>1, <1>2, <1>3, PushStack
  <1>8. i \in 1 .. Len(stack[running]) /\ i \in Nat \ {0} /\ i <= Len(stack'[running])
        /\ stack[running] \in Seq(Value) /\ stack'[running] = Append(stack[running], f)
    BY <1>1, <1>2, <1>7 DEF Depth, StackOK, Push
  <1>9. stack'[running][i] = stack[running][i] /\ stack[running][i] \in Regs
    BY <1>8 DEF Regs, ToSet
  <1>10. TypeOK'
    <2>1. HeapOK'
      <3>1. MarkStep(Now) /\ Now.gray = gray /\ Now.grayagain = grayagain /\ Now.weak = weak /\ ListsOK(Now)
        BY NowMarks DEF Base
      <3>2. gcstate # "propagate" => Now.gray = {} /\ Now.grayagain = {} /\ Now.weak = {}
        BY <3>1 DEF MarkStep
      <3>3. {Main, Global, running'} \subseteq heap' /\ running' \in Of("thread") /\ heap' \subseteq Object
            /\ calls' \in [Object -> Nat] /\ mode' \in [Object -> SUBSET {"key", "value"}]
            /\ heap \subseteq heap'
        BY <1>1, <1>2 DEF HeapOK
      <3>4. tosweep' = tosweep /\ tmudata' = tmudata /\ finalized' = finalized /\ gcstate' = gcstate
        BY <1>1 DEF cycle
      <3> QED
        BY <1>1, <1>5, <1>6, <3>1, <3>2, <3>3, <3>4, HeapTypes
    <2>2. FieldsOK'
      <3>1. fields' \in [Object -> SUBSET ((Object \cup {Scalar}) \X Object)]
        BY <1>1, <1>2 DEF FieldsOK
      <3>2. EntryOK(f, << Scalar, uv >>)
        BY <1>1 DEF EntryOK, Of
      <3>3. \A x \in Object : \A e \in fields'[x] : EntryOK(x, e)
        BY <1>2, <1>6, <3>2 DEF FieldsOK
      <3>4. fields'[uv] = {}
        BY <1>2, <1>3, <1>4, <1>6 DEF FieldsOK
      <3>5. ASSUME NEW x \in Object, x \notin heap' \/ opens'[x] # << >>
            PROVE  fields'[x] = {}
        <4>1. CASE x = uv
          BY <3>4, <4>1
        <4>2. CASE x # uv
          <5>1. x # f
            BY <1>1, <1>3, <1>6, <3>5, <4>2
          <5>2. x \notin heap \/ opens[x] # << >>
            BY <1>1, <1>6, <3>5, <4>2
          <5> QED
            BY <1>2, <1>6, <5>1, <5>2 DEF FieldsOK
        <4> QED
          BY <4>1, <4>2
      <3> QED
        BY <3>1, <3>3, <3>5 DEF FieldsOK, EntryOK
    <2>3. StackOK'
      BY <1>1, <1>2, <1>3, <1>7 DEF StackOK
    <2>4. OpensOK'
      <3>1. opens' \in [Object -> {<< >>} \cup (Of("thread") \X (Nat \ {0}))]
        BY <1>1, <1>2, <1>8 DEF OpensOK
      <3>2. ASSUME NEW x \in Object, opens'[x] # << >>
            PROVE  /\ x \in heap' /\ Kind[x] = "upval" /\ opens'[x][1] \in heap'
                   /\ opens'[x][2] <= Len(stack'[opens'[x][1]])
        <4>1. CASE x = uv
          BY <1>1, <1>2, <1>6, <1>8, <4>1
        <4>2. CASE x # uv
          BY <1>1, <1>2, <1>6, <1>7, <3>2, <4>2 DEF OpensOK
        <4> QED
          BY <4>1, <4>2
      <3> QED
        BY <3>1, <3>2 DEF OpensOK
    <2> QED
      BY <2>1, <2>2, <2>3, <2>4 DEF TypeOK
  <1>11. /\ Contents'[running] = Contents[running] \cup {f}
         /\ Contents'[f] = {uv} /\ Contents'[uv] = {stack[running][i]}
         /\ \A x \in Object : x \notin {running, f, uv} => Contents'[x] = Contents[x]
         /\ ~ fresh => Contents'[uv] = Contents[uv]
    <2>1. /\ Contents'[running] = Contents[running] \cup {f}
          /\ \A x \in Object : x \notin {running, f, uv} => Contents'[x] = Contents[x]
      BY <1>1, <1>3, <1>6, PushContents
    <2>2. Contents'[f] = {uv}
      <3>1. Contents'[f] = {e[2] : e \in fields'[f]}
        BY <1>1 DEF Contents, Values
      <3> QED
        BY <1>6, <3>1
    <2>3. Contents'[uv] = {stack[running][i]}
      <3>1. Contents'[uv] = UpValue(uv)'
        BY <1>1 DEF Contents
      <3>2. UpValue(uv)' = {stack'[running][i]}
        BY <1>6 DEF UpValue
      <3> QED
        BY <1>9, <3>1, <3>2
    <2>4. ~ fresh => Contents[uv] = {stack[running][i]}
      BY <1>1, <1>4 DEF Contents, UpValue
    <2> QED
      BY <2>1, <2>2, <2>3, <2>4
  <1>12. /\ Live' = Live \cup {f, uv} /\ f \notin Live /\ running \in Live /\ Regs \subseteq Live
         /\ Live \subseteq Object
    <2>1. Live' = Live \cup {f, uv}
      BY <1>1, <1>2, <1>4, <1>5 DEF Live
    <2> QED
      BY <1>1, <1>2, <2>1, RegsSpared DEF Live, Base, LiveOK
  <1>13. StepColours
    <2>1. gcstate # "propagate" => gray = {} /\ grayagain = {} /\ weak = {}
      BY DEF Base, PhaseOK
    <2>2. gcstate' = gcstate /\ tosweep' = tosweep /\ tmudata' = tmudata /\ finalized' = finalized
      BY <1>1 DEF cycle
    <2>3. \A o \in heap' \ heap : color'[o] = "white" /\ Kind[o] # "udata"
      BY <1>1, <1>3, <1>4, <1>5
    <2>4. \A u \in HasGC : calls'[u] = IF u \in heap' \ heap THEN 0 ELSE calls[u]
      BY <1>1, <2>3, GCAssumption DEF Of
    <2>5. \A o \in heap : color'[o] \in {color[o], "white"}
      BY <1>1, <1>2, <1>5
    <2>6. heap \subseteq heap'
      BY <1>1
    <2>7. \A o \in heap : color'[o] = "dead" => color[o] = "dead"
      BY <2>5
    <2>8. \A o \in heap \cap heap' :
              /\ color'[o] # "white" => color[o] # "white" /\ opens'[o] = opens[o]
              /\ color'[o] = "black" => color[o] = "black"
      BY <1>6, <2>5
    <2> QED
      BY <1>1, <2>1, <2>2, <2>3, <2>4, <2>6, <2>7, <2>8 DEF StepColours
  <1>14. StepContents
    <2>1. \A o \in Live : Contents'[o] \subseteq Contents[o] \cup Live'
      <3>1. ASSUME NEW o \in Live
            PROVE  Contents'[o] \subseteq Contents[o] \cup Live'
        <4>1. CASE o = running
          BY <1>11, <1>12, <4>1
        <4>2. CASE o = uv
          BY <1>9, <1>11, <1>12, <4>2
        <4>3. CASE o \notin {running, uv}
          <5>1. o \in Object /\ o \notin {running, f, uv}
            BY <1>12, <4>3
          <5> QED
            BY <1>11, <5>1
        <4> QED
          BY <4>1, <4>2, <4>3
      <3> QED
        BY <3>1
    <2>2. \A o \in Live' \ Live : Contents'[o] \subseteq Live \cup Live'
      BY <1>9, <1>11, <1>12
    <2> QED
      BY <1>1, <1>12, <2>1, <2>2 DEF StepContents
  <1>15. StepMarks
    <2>1. gcstate = "propagate" => \A x \in heap : color'[x] = color[x]
      <3>1. gcstate = "propagate" => \A x \in heap : color[x] # "dead"
        BY DEF Base, PhaseOK, TriColour, ColoursOK, Now
      <3> QED
        BY <1>1, <1>2, <1>4, <1>5, <3>1
    <2>2. \A x \in heap : color[x] = "black" /\ Kind[x] # "thread" /\ opens[x] = << >> =>
             Contents'[x] \subseteq Contents[x]
      BY <1>1, <1>2, <1>4, <1>11
    <2>3. heap \subseteq heap' /\ \A x \in heap' \ heap : color'[x] = "white"
      BY <1>1, <1>4, <1>5
    <2> QED
      BY <1>1, <1>6, <2>1, <2>2, <2>3, SameMarks
  <1>16. StepReach
    <2> SUFFICES ASSUME NEW R \in SUBSET Object, {Main, Global, running'} \subseteq R,
                        \A x \in R : Kept'[x] \subseteq R
                 PROVE  /\ \A x \in heap' : x \in R \/ Kept'[x] \subseteq Kept[x] \cup R
                        /\ \A x \in heap' : x \notin heap \/ (color[x] = "dead" /\ color'[x] # "dead") => x \in R
      BY DEF StepReach
    <2>1. f \in R /\ running \in R
      BY <1>1, <1>7, <1>10, RegistersReached
    <2>2. uv \in R
      <3>1. KeptOfOthers'
        BY KeptIsContents, PTL
      <3>2. Kept'[f] = {uv}
        BY <1>1, <1>11, <3>1 DEF KeptOfOthers
      <3> QED
        BY <2>1, <3>2
    <2>3. ASSUME NEW x \in heap', x \notin R
          PROVE  Kept'[x] \subseteq Kept[x] \cup R
      <3>1. x \in Object /\ x \notin {running, f, uv}
        BY <1>1, <1>2, <2>1, <2>2, <2>3
      <3>2. Contents'[x] = Contents[x] /\ fields'[x] = fields[x] /\ mode'[x] = mode[x]
        BY <1>1, <1>6, <1>11, <3>1
      <3> QED
        BY <3>1, <3>2, KeptNext
    <2>4. \A x \in heap' : x \notin heap \/ (color[x] = "dead" /\ color'[x] # "dead") => x \in R
      BY <1>1, <1>2, <1>5, <2>1, <2>2
    <2> QED
      BY <2>3, <2>4
  <1> QED
    BY <1>10, <1>13, <1>14, <1>15, <1>16 DEF ProgramStep

\* The stack without its top
LEMMA PopStack ==
    ASSUME TypeOK, Depth > 0, stack' = [stack EXCEPT ![running] = Front(@)]
    PROVE  /\ stack' \in [Of("thread") -> Seq(Value)] /\ Depth \in Nat
           /\ \A th \in Of("thread") : th # running => stack'[th] = stack[th]
           /\ Len(stack'[running]) = Depth - 1
           /\ \A j \in 1 .. Depth - 1 : stack'[running][j] = stack[running][j]
           /\ ToSet(stack'[running]) \subseteq ToSet(stack[running])
  <1>1. running \in Of("thread") /\ stack \in [Of("thread") -> Seq(Value)] /\ stack[running] \in Seq(Value)
    BY DEF TypeOK, HeapOK, StackOK
  <1> DEFINE s == Front(stack[running])
  <1>2. s \in Seq(Value) /\ Len(s) = Depth - 1 /\ \A j \in 1 .. Depth - 1 : s[j] = stack[running][j]
    <2> DEFINE q == stack[running]
               n == Len(q)
    <2>1. q \in Seq(Value) /\ n \in Nat /\ n > 0 /\ Depth = n
      BY <1>1 DEF Depth
    <2>2. s = SubSeq(q, 1, n - 1)
      BY DEF Front
    <2> HIDE DEF s, q
    <2>3. /\ SubSeq(q, 1, n - 1) \in Seq(Value) /\ Len(SubSeq(q, 1, n - 1)) = n - 1
          /\ \A j \in 1 .. n - 1 : SubSeq(q, 1, n - 1)[j] = q[j]
      BY <2>1
    <2> HIDE DEF n
    <2> QED
      BY <2>1, <2>2, <2>3 DEF q
  <1>3. stack' = [stack EXCEPT ![running] = s]
    OBVIOUS
  <1> HIDE DEF s
  <1>4. stack'[running] = s /\ \A th \in Of("thread") : th # running => stack'[th] = stack[th]
    BY <1>1, <1>3
  <1>5. stack' \in [Of("thread") -> Seq(Value)]
    BY <1>1, <1>2, <1>3
  <1>6. Depth \in Nat /\ Depth = Len(stack[running])
    BY <1>1 DEF Depth
  <1>7. ToSet(s) \subseteq ToSet(stack[running])
    <2>1. DOMAIN s = 1 .. Depth - 1 /\ DOMAIN stack[running] = 1 .. Depth
      BY <1>1, <1>2, <1>6
    <2> QED
      BY <1>2, <1>6, <2>1 DEF ToSet
  <1> QED
    BY <1>2, <1>4, <1>5, <1>6, <1>7

\* A variable goes out of scope: dead upvalues of its place are freed, others have its value now.
LEMMA PopStep ==
    ASSUME Base, Pop
    PROVE  ProgramStep
  <1> DEFINE closing == {uv \in OpenIn(running) : opens[uv][2] = Depth}
             D == Dead(closing)
             S == closing \ D
             m == LinkUpvals(Now, S)
  <1>1. /\ Depth > 0 /\ stack' = [stack EXCEPT ![running] = Front(@)]
        /\ Become(m) /\ heap' = heap \ D
        /\ fields' = [uv \in Object |-> IF uv \in S THEN {<< Scalar, v >> : v \in UpValue(uv)} ELSE fields[uv]]
        /\ opens' = [uv \in Object |-> IF uv \in closing THEN << >> ELSE opens[uv]]
        /\ UNCHANGED cycle /\ mode' = mode /\ running' = running /\ world' = world /\ calls' = calls
    BY DEF Pop, CloseUpvals
  <1>2. TypeOK /\ HeapOK /\ FieldsOK /\ StackOK /\ OpensOK /\ heap \subseteq Object /\ running \in heap
        /\ running \in Of("thread") /\ running \in Object /\ Kind[running] = "thread"
    BY DEF Base, TypeOK, HeapOK, Of
  <1>3. /\ \A uv \in closing : /\ uv \in heap /\ uv \in Object /\ Kind[uv] = "upval" /\ opens[uv] # << >>
                               /\ opens[uv][1] = running /\ opens[uv][2] = Depth
                               /\ fields[uv] = {} /\ uv \in OpenUpvals
        /\ \A uv \in Object : opens[uv] # << >> /\ uv \notin closing =>
              ~ (opens[uv][1] = running /\ opens[uv][2] = Depth)
    BY <1>2 DEF OpenIn, OpenUpvals, OpensOK, FieldsOK
  <1>4. D \subseteq closing /\ S \subseteq closing /\ S \cap D = {} /\ S \in SUBSET OpenUpvals
        /\ D = {o \in closing : color[o] = "dead"} /\ closing = S \cup D
    BY <1>3 DEF Dead
  <1> HIDE DEF closing
  <1> HIDE DEF D
  <1> HIDE DEF S
  <1>5. /\ color' = m.color /\ gray' = m.gray /\ grayagain' = m.grayagain /\ weak' = m.weak
        /\ gcstate' = gcstate /\ tosweep' = tosweep /\ tmudata' = tmudata /\ finalized' = finalized
    BY <1>1 DEF Become, cycle
  <1>6. /\ MarkStep(m)
        /\ gcstate # "propagate" => \A uv \in S : color[uv] # "dead" => m.color[uv] = "white"
        /\ gcstate = "propagate" =>
                 /\ \A o \in heap : m.color[o] = "black" =>
                       /\ Kind[o] \in {"table", "function", "udata", "upval"}
                       /\ opens[o] = << >> \/ o \in S
                       /\ Contents[o] \subseteq NonWhite(m)
                 /\ \A o \in heap : m.color[o] = "gray" =>
                       /\ Kind[o] # "udata"
                       /\ Kind[o] = "upval" => opens[o] # << >> /\ o \notin S
                       /\ Kind[o] = "function" => o \in m.gray
                       /\ Kind[o] = "table" => o \in m.gray \cup m.grayagain \cup m.weak
                       /\ Kind[o] = "thread" => o \in m.gray \cup m.grayagain
    BY <1>2, <1>4, LinkUpvalsMarks DEF Base
  <1> HIDE DEF m
  <1>7. /\ m \in Marks /\ ListsOK(m)
        /\ \A o \in Object : m.color[o] = "dead" <=> color[o] = "dead"
        /\ gcstate # "propagate" =>
              /\ m.gray = {} /\ m.grayagain = {} /\ m.weak = {}
              /\ \A o \in Object : m.color[o] # "white" => color[o] # "white"
              /\ \A o \in Object : m.color[o] = "black" => color[o] = "black"
        /\ gcstate = "propagate" =>
              /\ NonWhite(Now) \subseteq NonWhite(m) /\ NonWhite(m) \subseteq Spared
              /\ {Main, Global} \cup m.gray \cup m.grayagain \cup m.weak \subseteq NonWhite(m)
    BY <1>6 DEF MarkStep
  <1>8. /\ stack' \in [Of("thread") -> Seq(Value)] /\ Depth \in Nat
        /\ \A th \in Of("thread") : th # running => stack'[th] = stack[th]
        /\ Len(stack'[running]) = Depth - 1
        /\ \A j \in 1 .. Depth - 1 : stack'[running][j] = stack[running][j]
        /\ ToSet(stack'[running]) \subseteq ToSet(stack[running])
    BY <1>1, <1>2, PopStack
  <1>9. /\ \A x \in Object : x \notin S => fields'[x] = fields[x]
        /\ \A x \in S : fields'[x] = {<< Scalar, v >> : v \in UpValue(x)}
        /\ \A x \in Object : x \notin closing => opens'[x] = opens[x]
        /\ \A x \in closing : opens'[x] = << >>
    BY <1>1, <1>3, <1>4
  <1>10. ASSUME NEW x \in Object, x \notin closing, opens[x] # << >>
         PROVE  /\ opens[x][2] <= Len(stack'[opens[x][1]])
                /\ stack'[opens[x][1]][opens[x][2]] = stack[opens[x][1]][opens[x][2]]
    <2>1. opens[x] \in Of("thread") \X (Nat \ {0}) /\ opens[x][2] <= Len(stack[opens[x][1]])
      BY <1>2, <1>10 DEF OpensOK
    <2>2. CASE opens[x][1] = running
      <3>1. opens[x][2] # Depth /\ opens[x][2] <= Depth
        BY <1>3, <1>10, <2>1, <2>2 DEF Depth
      <3>2. opens[x][2] \in 1 .. Depth - 1
        BY <1>8, <2>1, <3>1
      <3> QED
        BY <1>8, <2>2, <3>2
    <2>3. CASE opens[x][1] # running
      BY <1>8, <2>1, <2>3
    <2> QED
      BY <2>2, <2>3
  <1>11. ASSUME NEW x \in Object
         PROVE  Contents'[x] \subseteq Contents[x]
    <2>1. CASE x \in S
      <3>1. Contents'[x] = UpValue(x)' /\ Contents[x] = UpValue(x)
        BY <1>3, <1>4, <2>1 DEF Contents
      <3>2. UpValue(x)' = {f[2] : f \in fields'[x]}
        BY <1>4, <1>9, <2>1 DEF UpValue, Values
      <3>3. {f[2] : f \in {<< Scalar, v >> : v \in UpValue(x)}} \subseteq UpValue(x)
        OBVIOUS
      <3> QED
        BY <1>9, <2>1, <3>1, <3>2, <3>3
    <2>2. CASE x \in D
      <3>1. Contents'[x] = UpValue(x)' /\ UpValue(x)' = {f[2] : f \in fields'[x]} /\ fields'[x] = {}
        BY <1>3, <1>4, <1>9, <2>2 DEF Contents, UpValue, Values
      <3> QED
        BY <3>1
    <2>3. CASE x \notin closing /\ x # running
      <3>1. Kind[x] = "thread" => stack'[x] = stack[x]
        BY <1>8, <2>3 DEF Of
      <3> QED
        BY <1>4, <1>9, <1>10, <2>3, <3>1, SameContents
    <2>4. CASE x = running
      BY <1>2, <1>8, <2>4 DEF Contents
    <2> QED
      BY <1>4, <2>1, <2>2, <2>3, <2>4
  <1>12. gcstate = "propagate" => D = {} /\ heap' = heap /\ S = closing
    <2>1. gcstate = "propagate" => \A x \in heap : color[x] # "dead"
      BY DEF Base, PhaseOK, TriColour, ColoursOK, Now
    <2>2. gcstate = "propagate" => D = {}
      BY <1>3, <1>4, <2>1
    <2> QED
      BY <1>1, <1>4, <2>2
  <1>13. TypeOK'
    <2>1. HeapOK'
      <3>1. \A o \in heap \ heap' : color[o] = "dead" /\ Kind[o] = "upval" /\ opens[o] # << >>
        BY <1>1, <1>3, <1>4
      <3>2. \A o \in heap \cap heap' : opens'[o] # << >> => opens[o] # << >>
        BY <1>2, <1>9
      <3>3. {Main, Global, running'} \subseteq heap' /\ running' \in Of("thread") /\ heap' \subseteq Object
            /\ calls' \in [Object -> Nat] /\ mode' \in [Object -> SUBSET {"key", "value"}]
        BY <1>1, <1>2, <1>3, <1>4, GCAssumption DEF HeapOK, Of
      <3>4. color' \in [Object -> {"white", "dead", "gray", "black"}] /\ (gcstate = "propagate" => heap \subseteq heap')
        BY <1>5, <1>7, <1>12 DEF Marks
      <3> QED
        BY <1>1, <1>5, <1>7, <3>1, <3>2, <3>3, <3>4, HeapTypes
    <2>2. FieldsOK'
      <3>1. ASSUME NEW x \in S
            PROVE  {<< Scalar, v >> : v \in UpValue(x)} \subseteq {Scalar} \X Value
        <4>1. UpValue(x) \subseteq Value
          BY <1>2, <1>3, <1>4, ContentKinds
        <4> QED
          BY <4>1
      <3>2. fields' \in [Object -> SUBSET ((Object \cup {Scalar}) \X Object)]
        <4>1. \A x \in Object : fields'[x] \in SUBSET ((Object \cup {Scalar}) \X Object)
          BY <1>2, <1>9, <3>1 DEF FieldsOK, Value
        <4>2. fields' = [x \in Object |-> fields'[x]]
          BY <1>1
        <4> QED
          BY <4>1, <4>2
      <3>3. \A x \in Object : \A e \in fields'[x] : EntryOK(x, e)
        <4>1. ASSUME NEW x \in S, NEW e \in fields'[x]
              PROVE  EntryOK(x, e)
          <5>1. e \in {Scalar} \X Value /\ Kind[x] = "upval"
            BY <1>3, <1>4, <1>9, <3>1, <4>1
          <5> QED
            BY <5>1 DEF EntryOK
        <4> QED
          BY <1>2, <1>9, <4>1 DEF FieldsOK
      <3>4. \A x \in Object : x \notin heap' \/ opens'[x] # << >> => fields'[x] = {}
        BY <1>1, <1>2, <1>3, <1>4, <1>9 DEF FieldsOK
      <3> QED
        BY <3>2, <3>3, <3>4 DEF FieldsOK, EntryOK
    <2>3. StackOK'
      <3>1. \A th \in Of("thread") : th \notin heap' => th \notin heap
        BY <1>1, <1>3, <1>4 DEF Of
      <3>2. \A th \in Of("thread") : th \notin heap' => stack'[th] = << >>
        BY <1>2, <1>8, <3>1 DEF StackOK
      <3> QED
        BY <1>8, <3>2 DEF StackOK
    <2>4. OpensOK'
      <3>1. opens' \in [Object -> {<< >>} \cup (Of("thread") \X (Nat \ {0}))]
        BY <1>1, <1>2 DEF OpensOK
      <3>2. ASSUME NEW x \in Object, opens'[x] # << >>
            PROVE  /\ x \in heap' /\ Kind[x] = "upval" /\ opens'[x][1] \in heap'
                   /\ opens'[x][2] <= Len(stack'[opens'[x][1]])
        <4>1. x \notin closing /\ opens'[x] = opens[x]
          BY <1>9, <3>2
        <4>2. opens[x] \in Of("thread") \X (Nat \ {0}) /\ opens[x][1] \in heap /\ x \in heap /\ Kind[x] = "upval"
          BY <1>2, <3>2, <4>1 DEF OpensOK
        <4>3. \A y \in D : Kind[y] = "upval"
          BY <1>3, <1>4
        <4>4. opens[x][1] \notin D /\ x \notin D
          BY <1>4, <4>1, <4>2, <4>3 DEF Of
        <4> QED
          BY <1>1, <1>10, <3>2, <4>1, <4>2, <4>4
      <3> QED
        BY <3>1, <3>2 DEF OpensOK
    <2> QED
      BY <2>1, <2>2, <2>3, <2>4 DEF TypeOK
  <1>14. Live' = Live
    BY <1>1, <1>2, <1>3, <1>4, <1>5, <1>7 DEF Live
  <1>15. StepColours
    <2>1. \A o \in heap \ heap' : color[o] = "dead" /\ Kind[o] = "upval"
      BY <1>1, <1>3, <1>4
    <2>2. heap' \ heap = {} /\ heap' \subseteq heap
      BY <1>1
    <2>3. \A u \in HasGC : calls'[u] = IF u \in heap' \ heap THEN 0 ELSE calls[u]
      BY <1>1, <2>2
    <2>4. \A o \in heap \cap heap' : color'[o] = "dead" => color[o] = "dead"
      BY <1>2, <1>5, <1>7
    <2>5. ASSUME gcstate # "propagate"
          PROVE  \A o \in heap \cap heap' :
                    /\ color'[o] # "white" => color[o] # "white" /\ opens'[o] = opens[o]
                    /\ color'[o] = "black" => color[o] = "black"
      <3>1. \A o \in heap \cap heap' : o \in closing => color'[o] = "white"
        BY <1>1, <1>4, <1>5, <1>6, <2>5
      <3> QED
        BY <1>2, <1>5, <1>7, <1>9, <2>5, <3>1
    <2> QED
      BY <1>5, <1>7, <2>1, <2>2, <2>3, <2>4, <2>5 DEF StepColours
  <1>16. StepContents
    BY <1>1, <1>2, <1>11, <1>14 DEF StepContents, Base, LiveOK, Live
  <1>17. StepMarks
    <2> SUFFICES ASSUME gcstate = "propagate"
                 PROVE  TriColour(Now)' /\ NonWhite(Now)' \subseteq Spared
      BY DEF StepMarks
    <2> DEFINE W == {o \in heap' : color'[o] \in {"gray", "black"}}
    <2>1. W = NonWhite(m) /\ heap' = heap
      BY <1>5, <1>12 DEF NonWhite
    <2>2. NonWhite(Now)' = W
      BY DEF NonWhite, Now
    <2>3. BlackOK(Now)'
      <3>1. \A o \in heap' : color'[o] = "black" => Contents'[o] \subseteq W
        BY <1>2, <1>5, <1>6, <1>11, <2>1
      <3> QED
        BY <3>1 DEF BlackOK, NonWhite, Now
    <2>4. ListsOK(Now)'
      BY <1>5, <1>7, <2>1 DEF ListsOK, Now
    <2>5. ColoursOK(Now)'
      <3>1. \A o \in heap' : color'[o] # "dead"
        <4>1. \A x \in heap : color[x] # "dead"
          BY DEF Base, PhaseOK, TriColour, ColoursOK, Now
        <4> QED
          BY <1>2, <1>5, <1>7, <2>1, <4>1
      <3>2. \A o \in heap' : color'[o] = "black" =>
               Kind[o] \in {"table", "function", "udata", "upval"} /\ opens'[o] = << >>
        BY <1>2, <1>4, <1>5, <1>6, <1>9, <2>1
      <3>3. \A o \in heap' : color'[o] = "gray" =>
               /\ Kind[o] # "udata"
               /\ Kind[o] = "upval" => opens'[o] # << >>
               /\ Kind[o] = "function" => o \in gray'
               /\ Kind[o] = "table" => o \in gray' \cup grayagain' \cup weak'
               /\ Kind[o] = "thread" => o \in gray' \cup grayagain'
        BY <1>2, <1>5, <1>6, <1>9, <1>12, <2>1
      <3>4. {Main, Global} \cup gray' \cup grayagain' \cup weak' \subseteq W
        BY <1>5, <1>7, <2>1
      <3> QED
        BY <3>1, <3>2, <3>3, <3>4 DEF ColoursOK, Now, NonWhite
    <2> QED
      BY <1>7, <2>1, <2>2, <2>3, <2>4, <2>5 DEF TriColour
  <1>18. StepReach
    <2> SUFFICES ASSUME NEW R \in SUBSET Object
                 PROVE  /\ \A x \in heap' : x \in R \/ Kept'[x] \subseteq Kept[x] \cup R
                        /\ \A x \in heap' : x \notin heap \/ (color[x] = "dead" /\ color'[x] # "dead") => x \in R
      BY DEF StepReach
    <2>1. ASSUME NEW x \in Object
          PROVE  Kept'[x] \subseteq Kept[x] \cup R
      <3>1. Kind[x] = "table" => fields'[x] = fields[x] /\ mode'[x] = mode[x]
        BY <1>1, <1>3, <1>4, <1>9
      <3>2. Contents'[x] \subseteq Contents[x] \cup R
        BY <1>11
      <3> QED
        BY <3>1, <3>2, KeptNext
    <2> QED
      BY <1>1, <1>2, <1>5, <1>7, <2>1
  <1> QED
    BY <1>13, <1>15, <1>16, <1>17, <1>18 DEF ProgramStep

\* Another thread runs, with values of the stack of the one that stops.
LEMMA SwitchStep ==
    ASSUME Base, NEW th \in Of("thread"), NEW n \in 0 .. 1, Switch(th, n)
    PROVE  ProgramStep
  <1> DEFINE left == SubSeq(stack[running], 1, Depth - n)
             moved == SubSeq(stack[running], Depth - n + 1, Depth)
             q == stack[th] \o moved
  <1>1. /\ n <= Depth /\ th # running
        /\ IF running = Main THEN th \in ToSet(left) ELSE th = Main
        /\ \A uv \in OpenIn(running) : opens[uv][2] <= Depth - n
        /\ stack' = [stack EXCEPT ![running] = left, ![th] = q]
        /\ running' = th /\ heap' = heap /\ UNCHANGED marks /\ UNCHANGED cycle /\ fields' = fields
        /\ opens' = opens /\ mode' = mode /\ world' = world /\ calls' = calls
    BY DEF Switch
  <1>2. TypeOK /\ HeapOK /\ FieldsOK /\ StackOK /\ OpensOK /\ heap \subseteq Object /\ running \in heap
        /\ running \in Of("thread") /\ running \in Object /\ Kind[running] = "thread"
        /\ th \in Object /\ Kind[th] = "thread"
    BY DEF Base, TypeOK, HeapOK, Of
  <1>3. stack[running] \in Seq(Value) /\ stack[th] \in Seq(Value) /\ Depth \in Nat /\ Depth - n \in Nat
        /\ Depth = Len(stack[running]) /\ n \in Nat
    BY <1>1, <1>2 DEF StackOK, Depth
  <1>4. /\ left \in Seq(Value) /\ Len(left) = Depth - n
        /\ \A j \in 1 .. Depth - n : left[j] = stack[running][j]
    BY <1>1, <1>3
  <1>5. /\ moved \in Seq(Value) /\ Len(moved) = n
        /\ \A j \in 1 .. n : moved[j] = stack[running][Depth - n + j]
    BY <1>1, <1>3
  <1>6. ToSet(left) \subseteq Regs /\ ToSet(moved) \subseteq Regs
    <2> HIDE DEF left, moved
    <2>1. DOMAIN left = 1 .. Depth - n /\ DOMAIN moved = 1 .. n /\ DOMAIN stack[running] = 1 .. Depth
      BY <1>3, <1>4, <1>5
    <2>2. \A j \in 1 .. n : Depth - n + j \in 1 .. Depth
      BY <1>3
    <2>3. \A j \in 1 .. Depth - n : j \in 1 .. Depth
      BY <1>3
    <2> QED
      BY <1>4, <1>5, <2>1, <2>2, <2>3 DEF Regs, ToSet
  <1> HIDE DEF left, moved
  <1>7. /\ q \in Seq(Value) /\ Len(q) = Len(stack[th]) + n
        /\ \A j \in 1 .. Len(stack[th]) : q[j] = stack[th][j]
        /\ ToSet(q) \subseteq ToSet(stack[th]) \cup Regs
    <2>1. /\ q \in Seq(Value) /\ Len(q) = Len(stack[th]) + n
          /\ \A j \in 1 .. Len(q) : q[j] = IF j <= Len(stack[th]) THEN stack[th][j] ELSE moved[j - Len(stack[th])]
      BY <1>3, <1>5
    <2> HIDE DEF q
    <2>2. \A j \in 1 .. Len(stack[th]) : q[j] = stack[th][j]
      BY <1>3, <2>1
    <2>3. ASSUME NEW x \in ToSet(q)
          PROVE  x \in ToSet(stack[th]) \cup Regs
      <3>1. PICK j \in 1 .. Len(q) : x = q[j]
        BY <2>1 DEF ToSet
      <3>2. CASE j <= Len(stack[th])
        <4>1. x = stack[th][j] /\ j \in DOMAIN stack[th]
          BY <1>3, <2>1, <3>1, <3>2
        <4> QED
          BY <4>1 DEF ToSet
      <3>3. CASE ~ (j <= Len(stack[th]))
        <4>1. x = moved[j - Len(stack[th])] /\ j - Len(stack[th]) \in DOMAIN moved
          BY <1>3, <1>5, <2>1, <3>1, <3>3
        <4> QED
          BY <1>6, <4>1 DEF ToSet
      <3> QED
        BY <3>2, <3>3
    <2> QED
      BY <2>1, <2>2, <2>3
  <1> HIDE DEF q
  <1>8. /\ stack'[running] = left /\ stack'[th] = q
        /\ \A t \in Of("thread") : t \notin {running, th} => stack'[t] = stack[t]
        /\ stack' \in [Of("thread") -> Seq(Value)]
    BY <1>1, <1>2, <1>4, <1>7 DEF StackOK
  <1>9. th \in Live /\ th \in heap /\ Regs \subseteq Live /\ Live \subseteq heap
    <2>1. Main \in Live /\ Regs \subseteq Live /\ Live \subseteq heap
      BY RegsSpared DEF Base, LiveOK
    <2> QED
      BY <1>1, <1>6, <2>1
  <1>10. ASSUME NEW x \in Object, opens[x] # << >>
         PROVE  /\ opens[x][2] <= Len(stack'[opens[x][1]])
                /\ stack'[opens[x][1]][opens[x][2]] = stack[opens[x][1]][opens[x][2]]
    <2>1. /\ opens[x] \in Of("thread") \X (Nat \ {0}) /\ opens[x][2] <= Len(stack[opens[x][1]])
          /\ x \in heap
      BY <1>2, <1>10 DEF OpensOK
    <2>2. CASE opens[x][1] = running
      <3>1. opens[x][2] <= Depth - n
        BY <1>1, <1>10, <2>1, <2>2 DEF OpenIn, OpenUpvals
      <3>2. opens[x][2] \in 1 .. Depth - n
        BY <1>3, <2>1, <3>1
      <3> QED
        BY <1>4, <1>8, <2>2, <3>1, <3>2
    <2>3. CASE opens[x][1] = th
      <3>1. opens[x][2] \in 1 .. Len(stack[th]) /\ opens[x][2] <= Len(q)
        BY <1>3, <1>7, <2>1, <2>3
      <3> QED
        BY <1>7, <1>8, <2>3, <3>1
    <2>4. CASE opens[x][1] \notin {running, th}
      BY <1>8, <2>1, <2>4
    <2> QED
      BY <2>2, <2>3, <2>4
  <1>11. /\ Contents'[running] \subseteq Contents[running]
         /\ Contents'[th] \subseteq Contents[th] \cup Regs
         /\ \A x \in Object : x \notin {running, th} => Contents'[x] = Contents[x]
    <2>1. Contents'[running] = ToSet(left) /\ Contents[running] = Regs
          /\ Contents'[th] = ToSet(q) /\ Contents[th] = ToSet(stack[th])
      BY <1>2, <1>8 DEF Contents, Regs
    <2>2. ASSUME NEW x \in Object, x \notin {running, th}
          PROVE  Contents'[x] = Contents[x]
      <3>1. Kind[x] = "thread" => stack'[x] = stack[x]
        BY <1>8, <2>2 DEF Of
      <3> QED
        BY <1>1, <1>10, <3>1, SameContents
    <2> QED
      BY <1>6, <1>7, <2>1, <2>2
  <1>12. color' = color /\ gray' = gray /\ grayagain' = grayagain /\ weak' = weak
         /\ gcstate' = gcstate /\ tosweep' = tosweep /\ tmudata' = tmudata /\ finalized' = finalized
    BY <1>1 DEF marks, cycle
  <1>13. TypeOK'
    <2>1. HeapOK'
      BY <1>1, <1>2, <1>9, <1>12 DEF HeapOK, ListsOK, Now, OpenUpvals
    <2>2. FieldsOK'
      BY <1>1, <1>2 DEF FieldsOK, EntryOK
    <2>3. StackOK'
      BY <1>1, <1>2, <1>8, <1>9 DEF StackOK
    <2>4. OpensOK'
      BY <1>1, <1>2, <1>10 DEF OpensOK
    <2> QED
      BY <2>1, <2>2, <2>3, <2>4 DEF TypeOK
  <1>14. Live' = Live
    BY <1>1, <1>12 DEF Live
  <1>15. StepColours
    <2>1. gcstate # "propagate" => gray = {} /\ grayagain = {} /\ weak = {}
      BY DEF Base, PhaseOK
    <2> QED
      BY <1>1, <1>12, <2>1 DEF StepColours
  <1>16. StepContents
    <2>1. ASSUME NEW o \in Live
          PROVE  Contents'[o] \subseteq Contents[o] \cup Live'
      <3>1. o \in Object
        BY <1>2, <1>9
      <3> QED
        BY <1>9, <1>11, <1>14, <3>1
    <2> QED
      BY <1>1, <1>9, <1>14, <2>1 DEF StepContents
  <1>17. StepMarks
    <2>1. \A x \in heap : color[x] = "black" /\ Kind[x] # "thread" /\ opens[x] = << >> =>
             Contents'[x] \subseteq Contents[x]
      BY <1>2, <1>11
    <2> QED
      BY <1>1, <1>12, <2>1, SameMarks
  <1>18. StepReach
    <2> SUFFICES ASSUME NEW R \in SUBSET Object, {Main, Global, running'} \subseteq R
                 PROVE  /\ \A x \in heap' : x \in R \/ Kept'[x] \subseteq Kept[x] \cup R
                        /\ \A x \in heap' : x \notin heap \/ (color[x] = "dead" /\ color'[x] # "dead") => x \in R
      BY DEF StepReach
    <2>1. th \in R
      BY <1>1
    <2>2. ASSUME NEW x \in Object, x \notin R
          PROVE  Kept'[x] \subseteq Kept[x] \cup R
      <3>1. x # th
        BY <2>1, <2>2
      <3>2. Contents'[x] \subseteq Contents[x] \cup R
        BY <1>11, <3>1
      <3> QED
        BY <1>1, <3>2, KeptNext
    <2> QED
      BY <1>1, <1>2, <1>12, <2>2
  <1> QED
    BY <1>13, <1>15, <1>16, <1>17, <1>18 DEF ProgramStep

\* Every step of the program
LEMMA ProgramSteps ==
    ASSUME Base, Program
    PROVE  ProgramStep
  <1>1. ASSUME NEW o \in Object, New(o) \/ Fetch(o) \/ Intern(o)
        PROVE  ProgramStep
    BY <1>1, NewStep, FetchStep, InternStep
  <1>2. ASSUME NEW t \in Known, NEW v \in Regs, NEW k \in Regs \cup {Scalar}, SetTable(t, k, v)
        PROVE  ProgramStep
    BY <1>2, SetTableStep
  <1>3. ASSUME NEW t \in Known, NEW f \in fields[t], RemoveField(t, f)
        PROVE  ProgramStep
    BY <1>3, RemoveFieldStep
  <1>4. ASSUME NEW t \in Regs, NEW new \in world.modes, SetMode(t, new)
        PROVE  ProgramStep
    BY <1>4, SetModeStep
  <1>5. ASSUME NEW u \in Regs, NEW t \in Known, SetEnv(u, t)
        PROVE  ProgramStep
    BY <1>5, SetEnvStep
  <1>6. ASSUME NEW f \in Regs, NEW v \in Regs, SetUpval(f, v)
        PROVE  ProgramStep
    BY <1>6, SetUpvalStep
  <1>7. ASSUME NEW f \in Object, NEW uv \in Object, NEW i \in 1 .. MaxStack, NewClosure(f, i, uv)
        PROVE  ProgramStep
    BY <1>7, NewClosureStep
  <1>8. ASSUME Pop
        PROVE  ProgramStep
    BY <1>8, PopStep
  <1>9. ASSUME NEW th \in Of("thread"), NEW n \in 0 .. 1, Switch(th, n)
        PROVE  ProgramStep
    BY <1>9, SwitchStep
  <1> QED
    BY <1>1, <1>2, <1>3, <1>4, <1>5, <1>6, <1>7, <1>8, <1>9 DEF Program

\* What is reachable after a step: the statement of ReachableIsClosed for the state after it
LEMMA ReachableNext ==
    ASSUME TypeOK', LiveOK'
    PROVE  /\ {Main, Global, running'} \cup tmudata' \subseteq Reachable' /\ Reachable' \subseteq Live'
           /\ \A o \in Reachable' : Kept'[o] \subseteq Reachable'
           /\ \A C \in SUBSET Live' :
                 /\ {Main, Global, running'} \cup tmudata' \subseteq C
                 /\ \A o \in C : Kept'[o] \subseteq C
                 => Reachable' \subseteq C
  <1>1. ReachableOK'
    BY ReachableIsClosed, PTL
  <1> QED
    BY <1>1 DEF ReachableOK

\* A step of the program keeps the invariant.
LEMMA ProgramKeepsInv ==
    ASSUME Inv, Program, Remember
    PROVE  Inv'
  <1>1. Base /\ TypeOK /\ HeapOK /\ FieldsOK /\ StackOK /\ OpensOK /\ LiveOK /\ PhaseOK /\ DoomOK /\ FinalOK
        /\ heap \subseteq Object
    BY DEF Inv, Base, TypeOK, HeapOK
  <1>2. TypeOK' /\ StepColours /\ StepContents /\ StepMarks /\ StepReach
    BY <1>1, ProgramSteps DEF ProgramStep
  <1>3. /\ gcstate' = gcstate /\ tosweep' = tosweep /\ tmudata' = tmudata /\ finalized' = finalized
        /\ \A o \in heap \ heap' : color[o] = "dead" /\ Kind[o] = "upval"
        /\ \A o \in heap' \ heap : color'[o] = "white"
        /\ \A u \in HasGC : calls'[u] = IF u \in heap' \ heap THEN 0 ELSE calls[u]
        /\ \A o \in heap \cap heap' : color'[o] = "dead" => color[o] = "dead"
    BY <1>2 DEF StepColours
  <1>4. Live \subseteq Live' /\ heap' \subseteq Object /\ Live' \subseteq heap'
    BY <1>2, <1>3 DEF Live, TypeOK, HeapOK
  <1>5. LiveOK'
    <2>1. \A o \in Live' : Contents'[o] \subseteq Live'
      BY <1>1, <1>2, <1>4 DEF StepContents, LiveOK
    <2>2. {Main, Global, running'} \cup tmudata' \subseteq Live'
      BY <1>1, <1>2, <1>3, <1>4 DEF StepContents, LiveOK
    <2> QED
      BY <2>1, <2>2 DEF LiveOK
  <1>6. PhaseOK'
    <2>1. gcstate' = "propagate" => TriColour(Now)'
      BY <1>2, <1>3 DEF StepMarks
    <2>2. ASSUME gcstate # "propagate"
          PROVE  SweepOK' /\ gray' = {} /\ grayagain' = {} /\ weak' = {}
      <3>1. /\ gray' = {} /\ grayagain' = {} /\ weak' = {}
            /\ \A o \in heap \cap heap' :
                  /\ color'[o] # "white" => color[o] # "white" /\ opens'[o] = opens[o]
                  /\ color'[o] = "black" => color[o] = "black"
        BY <1>2, <2>2 DEF StepColours
      <3>2. \A o \in Unswept : o \in heap' => o \in Unswept'
        BY <1>3 DEF Unswept
      <3>3. ASSUME NEW o \in heap', color'[o] # "white"
            PROVE  /\ o \in Unswept' \cup tmudata' \/ (opens'[o] # << >> /\ opens'[o][1] \in Unswept')
                   /\ color'[o] = "black" => opens'[o] = << >>
        <4>1. o \in heap /\ color[o] # "white" /\ opens'[o] = opens[o] /\ (color'[o] = "black" => color[o] = "black")
          BY <1>3, <3>1, <3>3
        <4>2. /\ o \in Unswept \cup tmudata \/ (opens[o] # << >> /\ opens[o][1] \in Unswept)
              /\ color[o] = "black" => opens[o] = << >>
          BY <1>1, <2>2, <4>1 DEF PhaseOK, SweepOK
        <4>3. opens[o] # << >> => opens[o][1] \in heap'
          <5>1. opens[o] # << >> => opens[o][1] \in heap /\ opens[o][1] \in Of("thread")
            BY <1>1, <4>1 DEF OpensOK
          <5> QED
            BY <1>3, <5>1 DEF Of
        <4> QED
          BY <1>3, <3>2, <3>3, <4>1, <4>2, <4>3
      <3>4. SweepOK'
        BY <3>3 DEF SweepOK
      <3> QED
        BY <3>1, <3>4
    <2> QED
      BY <1>1, <1>3, <2>1, <2>2 DEF PhaseOK
  <1> DEFINE R == Reachable'
  <1>7. {Main, Global, running'} \subseteq R /\ R \subseteq Live' /\ \A o \in R : Kept'[o] \subseteq R
    BY <1>2, <1>5, ReachableNext
  <1>8. doomed' = doomed \ R
    BY <1>3 DEF Remember
  <1> HIDE DEF R
  <1>9. R \subseteq heap' /\ R \subseteq Object
    BY <1>4, <1>7
  <1>10. /\ \A o \in heap' : o \in R \/ Kept'[o] \subseteq Kept[o] \cup R
         /\ \A o \in heap' : o \notin heap \/ (color[o] = "dead" /\ color'[o] # "dead") => o \in R
    BY <1>2, <1>7, <1>9 DEF StepReach
  <1>11. DoomOK'
    <2>1. ASSUME gcstate = "propagate"
          PROVE  /\ {Main, Global, running'} \cup (heap' \cap (HasGC \ finalized')) \subseteq Spared'
                 /\ \A o \in Spared' : Kept'[o] \subseteq Spared'
                 /\ NonWhite(Now)' \subseteq Spared'
      <3>1. /\ heap \cap (HasGC \ finalized) \subseteq Spared
            /\ \A o \in Spared : Kept[o] \subseteq Spared
            /\ Spared = heap \ doomed
        BY <1>1, <2>1 DEF DoomOK, Spared
      <3>2. heap \subseteq heap'
        <4>1. \A o \in heap : color[o] # "dead"
          BY <1>1, <2>1 DEF PhaseOK, TriColour, ColoursOK, Now
        <4> QED
          BY <1>3, <4>1
      <3>3. Spared' = (heap' \ doomed) \cup R
        BY <1>8, <1>9 DEF Spared
      <3>4. {Main, Global, running'} \cup (heap' \cap (HasGC \ finalized')) \subseteq Spared'
        BY <1>3, <1>7, <1>10, <3>1, <3>3
      <3>5. \A o \in Spared' : Kept'[o] \subseteq Spared'
        BY <1>7, <1>10, <3>1, <3>2, <3>3
      <3>6. NonWhite(Now)' \subseteq Spared'
        BY <1>2, <2>1, <3>1, <3>2, <3>3 DEF StepMarks
      <3> QED
        BY <3>4, <3>5, <3>6
    <2>2. ASSUME gcstate # "propagate"
          PROVE  \A o \in doomed' \cap heap' : color'[o] = "dead"
      BY <1>1, <1>8, <1>10, <2>2 DEF DoomOK
    <2> QED
      BY <1>3, <2>1, <2>2 DEF DoomOK
  <1>12. FinalOK'
    <2> SUFFICES ASSUME NEW u \in HasGC
                 PROVE  /\ calls'[u] \in {0, 1}
                        /\ u \in heap' \ finalized' => calls'[u] = 0
                        /\ u \in tmudata' => u \in finalized' /\ calls'[u] = 0
                        /\ u \in finalized' \ tmudata' => calls'[u] = 1
                        /\ u \in heap' /\ color'[u] = "dead" => u \in finalized' \ tmudata'
      BY DEF FinalOK
    <2>1. finalized \subseteq heap /\ tmudata \subseteq heap
      BY <1>1 DEF HeapOK
    <2>2. calls'[u] = IF u \in heap' \ heap THEN 0 ELSE calls[u]
      BY <1>3
    <2>3. u \in heap' /\ color'[u] = "dead" => u \in heap /\ color[u] = "dead"
      BY <1>3
    <2> QED
      BY <1>1, <1>3, <2>1, <2>2, <2>3 DEF FinalOK
  <1> QED
    BY <1>2, <1>5, <1>6, <1>11, <1>12 DEF Inv

-----------------------------------------------------------------------------
(* What a step of the collector does *)

\* When nothing refers to anything else, and objects are where they were, the types hold.
LEMMA SameGraph ==
    ASSUME TypeOK, UNCHANGED << heap, fields, stack, opens, mode >>
    PROVE  /\ FieldsOK' /\ StackOK' /\ OpensOK' /\ OpenUpvals' = OpenUpvals
           /\ \A o \in Object : Contents'[o] = Contents[o] /\ Kept'[o] = Kept[o]
  <1>1. FieldsOK'
    <2>1. fields' = fields /\ opens' = opens /\ heap' = heap /\ FieldsOK
      BY DEF TypeOK
    <2> QED
      BY <2>1 DEF FieldsOK, EntryOK
  <1>2. StackOK'
    BY DEF TypeOK, StackOK
  <1>3. OpensOK'
    BY DEF TypeOK, OpensOK
  <1>4. OpenUpvals' = OpenUpvals
    BY DEF OpenUpvals
  <1>5. \A o \in Object : Contents'[o] = Contents[o]
    BY SameContents
  <1>6. \A o \in Object : Kept'[o] = Kept[o]
    BY DEF Kept, Refers, Held, Values, Keys, UpValue
  <1> QED
    BY <1>1, <1>2, <1>3, <1>4, <1>5, <1>6

\* A step of the mark phase, with the marks m after it
LEMMA MarkingKeepsInv ==
    ASSUME Inv, UNCHANGED << heap, tosweep, finalized, tmudata, graph, calls >>, gcstate' = "propagate",
           tosweep = {}, tmudata = {}, GraphOK, NEW m \in Marks, TriColour(m), Become(m),
           {Main, Global, running} \cup (heap \cap (HasGC \ finalized)) \subseteq Spared',
           \A o \in Spared' : Kept[o] \subseteq Spared', NonWhite(m) \subseteq Spared'
    PROVE  Inv'
  <1>1. TypeOK /\ HeapOK /\ heap \subseteq Object /\ FinalOK /\ LiveOK
    BY DEF Inv, TypeOK, HeapOK
  <1>2. /\ heap' = heap /\ tosweep' = tosweep /\ finalized' = finalized /\ tmudata' = tmudata
        /\ fields' = fields /\ stack' = stack /\ opens' = opens /\ mode' = mode /\ running' = running
        /\ world' = world /\ calls' = calls
    BY DEF graph
  <1>3. /\ FieldsOK' /\ StackOK' /\ OpensOK' /\ OpenUpvals' = OpenUpvals
        /\ \A o \in Object : Contents'[o] = Contents[o] /\ Kept'[o] = Kept[o]
    BY <1>1, <1>2, SameGraph
  <1>4. color' = m.color /\ gray' = m.gray /\ grayagain' = m.grayagain /\ weak' = m.weak
    BY DEF Become
  <1> DEFINE W == {o \in heap' : color'[o] \in {"gray", "black"}}
  <1>5. W = NonWhite(m) /\ NonWhite(Now)' = W
    BY <1>2, <1>4 DEF NonWhite, Now
  <1>6. ListsOK(Now)'
    <2>1. ListsOK(m)
      BY DEF TriColour
    <2> QED
      BY <1>2, <1>4, <2>1 DEF ListsOK, Now
  <1>7. TypeOK'
    <2>1. color' \in [Object -> {"white", "dead", "gray", "black"}]
      BY <1>4 DEF Marks
    <2>2. HeapOK'
      BY <1>1, <1>2, <1>3, <1>6, <2>1 DEF HeapOK
    <2> QED
      BY <1>3, <2>2 DEF TypeOK
  <1>8. \A o \in heap : color'[o] # "dead"
    BY <1>4 DEF TriColour, ColoursOK
  <1>9. LiveOK'
    <2>1. Live' = heap
      BY <1>2, <1>8 DEF Live
    <2>2. {Main, Global, running'} \cup tmudata' \subseteq heap
      BY <1>1, <1>2 DEF HeapOK
    <2>3. \A o \in heap : Contents'[o] \subseteq heap
      BY <1>1, <1>3 DEF GraphOK
    <2> QED
      BY <2>1, <2>2, <2>3 DEF LiveOK
  <1>10. PhaseOK'
    <2>1. BlackOK(Now)'
      <3>1. BlackOK(m)
        BY DEF TriColour
      <3>2. \A o \in heap' : color'[o] = "black" => Contents'[o] \subseteq W
        BY <1>1, <1>2, <1>3, <1>4, <1>5, <3>1 DEF BlackOK
      <3> QED
        BY <3>2 DEF BlackOK, NonWhite, Now
    <2>2. ColoursOK(Now)'
      <3>1. ColoursOK(m)
        BY DEF TriColour
      <3>2. /\ \A o \in heap' : color'[o] # "dead"
            /\ \A o \in heap' : color'[o] = "black" =>
                  Kind[o] \in {"table", "function", "udata", "upval"} /\ opens'[o] = << >>
            /\ \A o \in heap' : color'[o] = "gray" =>
                  /\ Kind[o] # "udata"
                  /\ Kind[o] = "upval" => opens'[o] # << >>
                  /\ Kind[o] = "function" => o \in gray'
                  /\ Kind[o] = "table" => o \in gray' \cup grayagain' \cup weak'
                  /\ Kind[o] = "thread" => o \in gray' \cup grayagain'
            /\ {Main, Global} \cup gray' \cup grayagain' \cup weak' \subseteq W
        BY <1>2, <1>4, <1>5, <3>1 DEF ColoursOK
      <3> QED
        BY <3>2 DEF ColoursOK, Now, NonWhite
    <2> QED
      BY <1>2, <1>6, <2>1, <2>2 DEF PhaseOK, TriColour
  <1>11. DoomOK'
    <2>1. \A o \in Spared' : Kept'[o] \subseteq Spared'
      BY <1>1, <1>2, <1>3 DEF Spared
    <2>2. {Main, Global, running'} \cup (heap' \cap (HasGC \ finalized')) \subseteq Spared'
      BY <1>2
    <2> QED
      BY <1>5, <2>1, <2>2 DEF DoomOK
  <1>12. FinalOK'
    <2>1. \A u \in HasGC : u \in heap' => color'[u] # "dead"
      BY <1>2, <1>8
    <2> QED
      BY <1>1, <1>2, <2>1 DEF FinalOK
  <1> QED
    BY <1>7, <1>9, <1>10, <1>11, <1>12 DEF Inv

\* A collection begins: everything is white, and the main thread and the globals are marked.
\* What is doomed from now on is what cannot be reached.
LEMMA MarkRootKeepsInv ==
    ASSUME Inv, MarkRoot, Remember
    PROVE  Inv'
  <1> DEFINE z == [Now EXCEPT !.gray = {}, !.grayagain = {}, !.weak = {}]
             m == Mark(z, {Main, Global})
             S == {Main, Global, running} \cup tmudata \cup (heap \cap (HasGC \ finalized))
             K == Closure(S)
  <1>1. /\ gcstate = "pause" /\ gcstate' = "propagate" /\ Become(m)
        /\ UNCHANGED << heap, tosweep, finalized, tmudata, graph, calls >> /\ heap' = heap
    BY DEF MarkRoot
  <1>2. TypeOK /\ HeapOK /\ OpensOK /\ LiveOK /\ PhaseOK /\ DoomOK /\ heap \subseteq Object
    BY DEF Inv, TypeOK, HeapOK
  <1>3. tosweep = {} /\ tmudata = {} /\ \A o \in heap : color[o] = "white"
    <2>1. tosweep = {} /\ tmudata = {} /\ SweepOK
      BY <1>1, <1>2 DEF PhaseOK
    <2>2. Unswept = {}
      BY <1>1, <2>1 DEF Unswept
    <2> QED
      BY <2>1, <2>2 DEF SweepOK
  <1>4. GraphOK /\ Live = heap /\ Now \in Marks
    BY <1>2, <1>3, GraphHolds
  <1>5. z \in Marks /\ z.color = color /\ z.gray = {} /\ z.grayagain = {} /\ z.weak = {}
    BY <1>4 DEF Marks, Now
  <1>6. {Main, Global} \in SUBSET heap /\ {Main, Global, running} \subseteq heap
    BY <1>2 DEF HeapOK
  <1>7. S \in SUBSET heap
    BY <1>2, <1>6 DEF HeapOK
  <1> HIDE DEF z, S
  <1>8. PICK all : /\ IsMarked(z, all, m) /\ {Main, Global} \subseteq all \cup NonWhite(z)
                   /\ \A C \in SUBSET Object :
                         /\ {Main, Global} \subseteq C /\ \A o \in C \cap Transparent : Contents[o] \subseteq C
                         => all \subseteq C
    BY <1>4, <1>5, <1>6, MarkMarks
  <1> HIDE DEF m
  <1>9. NonWhite(z) = {}
    BY <1>3, <1>5 DEF NonWhite
  <1>10. /\ all \subseteq heap /\ m \in Marks
         /\ \A o \in heap : m.color[o] = IF o \notin all THEN "white"
                                         ELSE IF o \in BlackAtOnce THEN "black" ELSE "gray"
         /\ m.gray = {o \in all : Kind[o] \in {"table", "function", "thread"}}
         /\ m.grayagain = {} /\ m.weak = {}
         /\ \A o \in all \cap Transparent : Contents[o] \subseteq all
         /\ {Main, Global} \subseteq all
    BY <1>2, <1>3, <1>5, <1>8, <1>9 DEF IsMarked, Whites
  <1>11. NonWhite(m) = all
    BY <1>10 DEF NonWhite
  <1>12. TriColour(m)
    <2>1. ListsOK(m)
      BY <1>2, <1>10 DEF ListsOK, Of
    <2>2. BlackOK(m)
      BY <1>2, <1>10, <1>11 DEF BlackOK, BlackAtOnce, Transparent, Of
    <2>3. \A o \in heap : m.color[o] = "black" => Kind[o] \in {"udata", "upval"} /\ opens[o] = << >>
      <3>1. \A o \in heap : m.color[o] = "black" => o \in BlackAtOnce
        BY <1>10
      <3>2. \A o \in heap : opens[o] # << >> => Kind[o] = "upval"
        BY <1>2 DEF OpensOK
      <3> QED
        BY <3>1, <3>2 DEF BlackAtOnce
    <2>4. \A o \in heap : m.color[o] = "gray" =>
             /\ Kind[o] # "udata" /\ (Kind[o] = "upval" => opens[o] # << >>)
             /\ Kind[o] \in {"table", "function", "thread"} => o \in m.gray
      BY <1>2, <1>10 DEF BlackAtOnce
    <2>5. ColoursOK(m)
      BY <1>10, <1>11, <2>3, <2>4 DEF ColoursOK
    <2> QED
      BY <2>1, <2>2, <2>5 DEF TriColour
  <1>13. S \subseteq K /\ K \subseteq heap /\ \A o \in K : Refers(o) \subseteq K
    <2>1. \A o \in heap : Refers(o) \subseteq heap
      BY <1>2, <1>4, KeptContents DEF GraphOK, Kept
    <2> QED
      BY <1>2, <1>7, <2>1, ClosureIsClosed
  <1>14. Spared' = K
    <2>1. doomed' = Garbage /\ Garbage = heap \ K
      BY <1>1 DEF Remember, Garbage, S
    <2> HIDE DEF K
    <2> QED
      BY <1>1, <1>13, <2>1 DEF Spared
  <1> HIDE DEF K
  <1>15. \A o \in K : Kept[o] \subseteq K
    BY <1>2, <1>13 DEF Kept
  <1>16. all \subseteq K
    <2>1. \A o \in K \cap Transparent : Contents[o] \subseteq K
      <3>1. \A o \in Object \cap Transparent : Kept[o] = Contents[o]
        BY KeptIsContents DEF KeptOfOthers, Transparent, Of
      <3> QED
        BY <1>2, <1>13, <1>15, <3>1
    <2>2. {Main, Global} \subseteq K /\ K \in SUBSET Object
      BY <1>2, <1>13 DEF S
    <2> QED
      BY <1>8, <2>1, <2>2
  <1>17. {Main, Global, running} \cup (heap \cap (HasGC \ finalized)) \subseteq K
    BY <1>13 DEF S
  <1> QED
    BY <1>1, <1>3, <1>4, <1>10, <1>11, <1>12, <1>14, <1>15, <1>16, <1>17, MarkingKeepsInv

\* A traversal keeps the marks right, and goes to nothing that is doomed.
LEMMA PropagateKeepsInv ==
    ASSUME Inv, NEW o, Propagate(o), Remember
    PROVE  Inv'
  <1> DEFINE m == PropagateMark(Now, o)
  <1>1. /\ gcstate = "propagate" /\ o \in gray /\ Become(m)
        /\ heap' = heap /\ UNCHANGED cycle /\ UNCHANGED graph /\ calls' = calls
    BY DEF Propagate
  <1>2. TypeOK /\ HeapOK /\ LiveOK /\ PhaseOK /\ DoomOK /\ heap \subseteq Object
    BY DEF Inv, TypeOK, HeapOK
  <1>3. /\ GraphOK /\ Live = heap /\ Now \in Marks /\ TriColour(Now)
        /\ IsClosed(Spared) /\ NonWhite(Now) \subseteq Spared
        /\ {Main, Global, running} \subseteq Spared /\ tmudata = {}
        /\ heap \cap (HasGC \ finalized) \subseteq Spared
    BY <1>1, <1>2, MarkPhase
  <1>4. Marking(Now, heap, Spared) /\ o \in Now.gray
    <2>1. NonWhite(Now) \ (Now.gray \cup heap) = {}
      BY DEF NonWhite
    <2> QED
      BY <1>1, <1>3, <2>1 DEF Marking, Done, Now
  <1>5. Marking(m, heap, Spared)
    BY <1>3, <1>4, PropagateMarkMarking
  <1> HIDE DEF m
  <1>6. /\ gcstate' = "propagate" /\ tosweep' = tosweep /\ finalized' = finalized /\ tmudata' = tmudata
        /\ tosweep = {}
    BY <1>1, <1>2 DEF cycle, PhaseOK
  <1>7. Spared \subseteq Spared' /\ Spared' = Spared \cup (Spared' \cap Reachable')
    <2>1. doomed' \subseteq doomed /\ \A x \in doomed : x \notin doomed' => x \in Reachable'
      BY <1>1 DEF Remember
    <2> QED
      BY <1>1, <2>1 DEF Spared
  <1>8. /\ Reachable' \subseteq Spared' /\ \A x \in Reachable' : Kept[x] \subseteq Reachable'
    <2>1. /\ color' = m.color /\ gray' = m.gray /\ grayagain' = m.grayagain /\ weak' = m.weak
          /\ m \in Marks /\ ColoursOK(m) /\ ListsOK(m)
      BY <1>1, <1>5 DEF Become, Marking, TriColour
    <2>2. /\ FieldsOK' /\ StackOK' /\ OpensOK' /\ OpenUpvals' = OpenUpvals
          /\ \A x \in Object : Contents'[x] = Contents[x] /\ Kept'[x] = Kept[x]
      BY <1>1, <1>2, SameGraph DEF graph
    <2>3. Live' = heap
      BY <1>1, <2>1 DEF Live, ColoursOK
    <2>4. TypeOK'
      <3>1. color' \in [Object -> {"white", "dead", "gray", "black"}] /\ ListsOK(Now)'
        BY <1>1, <2>1 DEF Marks, ListsOK, Now
      <3>2. HeapOK'
        BY <1>1, <1>2, <1>6, <2>2, <3>1 DEF HeapOK, graph
      <3> QED
        BY <2>2, <3>2 DEF TypeOK
    <2>5. LiveOK'
      <3>1. {Main, Global, running'} \cup tmudata' \subseteq heap
        BY <1>1, <1>2, <1>6 DEF HeapOK, graph
      <3>2. \A x \in heap : Contents'[x] \subseteq heap
        BY <1>2, <1>3, <2>2 DEF GraphOK
      <3> QED
        BY <2>3, <3>1, <3>2 DEF LiveOK
    <2>6. Reachable' \subseteq heap /\ \A x \in Reachable' : Kept[x] \subseteq Reachable'
      BY <1>2, <2>2, <2>3, <2>4, <2>5, ReachableNext
    <2>7. Reachable' \subseteq Spared'
      <3>1. doomed' \cap Reachable' = {}
        BY <1>1 DEF Remember
      <3> QED
        BY <1>1, <2>6, <3>1 DEF Spared
    <2> QED
      BY <2>6, <2>7
  <1>9. \A x \in Spared' : Kept[x] \subseteq Spared'
    BY <1>3, <1>7, <1>8 DEF IsClosed
  <1>10. m \in Marks /\ TriColour(m) /\ NonWhite(m) \subseteq Spared'
    BY <1>5, <1>7 DEF Marking
  <1>11. {Main, Global, running} \cup (heap \cap (HasGC \ finalized)) \subseteq Spared'
    BY <1>3, <1>7
  <1> QED
    BY <1>1, <1>3, <1>6, <1>9, <1>10, <1>11, MarkingKeepsInv

\* The atomic step: what is marked lives, with the strings of weak tables; what is doomed dies.
LEMMA AtomicKeepsInv ==
    ASSUME Inv, Atomic, Remember
    PROVE  Inv'
  <1> DEFINE m == MarksAtEnd
             done == finalized \cup Separated(Remarked)
             tm == ToFinalize
             WS == WeakStrings(m)
             final == Paint(m, White(m, heap) \ WS, "dead")
             last == Paint(final, White(m, WS), "gray")
  <1>0. PICK arrays \in SUBSET m.weak :
            fields' = [t \in Object |->
                          IF t \in m.weak THEN fields[t] \ Cleared(m, t, done, t \in arrays)
                          ELSE fields[t]]
    BY DEF Atomic, MarksAtEnd, ToFinalize, Remarked
  <1>1. /\ gcstate = "propagate" /\ gray = {} /\ finalized' = done /\ tmudata' = tm
        /\ Become([last EXCEPT !.grayagain = {}, !.weak = {}])
        /\ gcstate' = "sweepstring" /\ tosweep' = heap \cap Of("string")
        /\ heap' = heap /\ stack' = stack /\ opens' = opens /\ mode' = mode /\ running' = running
        /\ world' = world /\ calls' = calls
    BY DEF Atomic, MarksAtEnd, ToFinalize, Remarked
  <1>2. /\ TypeOK /\ HeapOK /\ FieldsOK /\ StackOK /\ OpensOK /\ LiveOK /\ PhaseOK /\ DoomOK /\ FinalOK
        /\ heap \subseteq Object
    BY DEF Inv, TypeOK, HeapOK
  <1>3. /\ Remarked \in Marks /\ Marking(m, {}, Spared) /\ m.gray = {}
        /\ m.grayagain \subseteq Of("thread")
        /\ {Main, Global, running} \cup tm \subseteq NonWhite(m)
        /\ NonWhite(Remarked) \subseteq NonWhite(m)
        /\ \A o \in heap : Remarked.color[o] # "dead"
    BY <1>1, <1>2, AtomicMarking
  <1>4. GraphOK /\ IsClosed(Spared) /\ tmudata = {} /\ Spared \subseteq heap
    BY <1>1, <1>2, MarkPhase DEF Spared
  <1> HIDE DEF m
  <1>5. /\ m \in Marks /\ ListsOK(m) /\ BlackOK(m) /\ ColoursOK(m) /\ NonWhite(m) \subseteq Spared
        /\ \A o \in NonWhite(m) : Strong[o] \subseteq NonWhite(m)
    BY <1>3 DEF Marking, TriColour, Done
  <1>6. \A s \in WS : /\ s \in Object /\ Kind[s] = "string"
                      /\ \E t \in m.weak : \E f \in fields[t] : s \in {f[1], f[2]}
    BY DEF WeakStrings, Of
  <1>7. \A t \in m.weak : t \in heap /\ t \in Object /\ Kind[t] = "table" /\ t \in NonWhite(m)
    BY <1>2, <1>5 DEF ListsOK, ColoursOK, Of
  <1>8. ASSUME NEW s \in WS
        PROVE  s \in heap /\ s \in Spared
    <2>1. PICK t \in m.weak : \E f \in fields[t] : s \in {f[1], f[2]}
      BY <1>6
    <2>2. PICK f \in fields[t] : s \in {f[1], f[2]}
      BY <2>1
    <2>3. s # Scalar
      BY <1>6, GCAssumption
    <2>4. s \in Values(t) \cup Keys(fields[t])
      BY <2>2, <2>3 DEF Values, Keys
    <2>5. s \in Kept[t]
      <3>1. Kept[t] = Held(t, Values(t), "value") \cup Held(t, Keys(fields[t]), "key")
        BY <1>7 DEF Kept, Refers
      <3>2. s \in Of("string")
        BY <1>6 DEF Of
      <3> QED
        BY <2>4, <3>1, <3>2 DEF Held
    <2>6. t \in Spared
      BY <1>5, <1>7
    <2> QED
      BY <1>4, <2>5, <2>6 DEF IsClosed
  <1> HIDE DEF WS
  <1>9. /\ final \in Marks /\ final.gray = m.gray
        /\ \A o \in Object : final.color[o] = IF o \in White(m, heap) \ WS THEN "dead" ELSE m.color[o]
    <2>1. "dead" \in {"white", "dead", "gray", "black"}
      OBVIOUS
    <2> QED
      BY <1>5, <2>1, Painted
  <1> HIDE DEF final
  <1>10. /\ last \in Marks /\ last.gray = m.gray
         /\ \A o \in Object : last.color[o] = IF o \in White(m, WS) THEN "gray" ELSE final.color[o]
    <2>1. "gray" \in {"white", "dead", "gray", "black"}
      OBVIOUS
    <2> QED
      BY <1>9, <2>1, Painted
  <1> HIDE DEF last
  <1>11. color' = last.color /\ gray' = {} /\ grayagain' = {} /\ weak' = {}
    BY <1>1, <1>3, <1>10 DEF Become, Marks
  <1>12. ASSUME NEW o \in heap
         PROVE  /\ o \in NonWhite(m) => color'[o] = m.color[o] /\ color'[o] # "dead"
                /\ o \notin NonWhite(m) => color'[o] = IF o \in WS THEN "gray" ELSE "dead"
                /\ color'[o] = "black" => m.color[o] = "black"
    <2>1. o \in Object /\ m.color[o] \in {"white", "gray", "black"}
      BY <1>2, <1>5 DEF Marks, ColoursOK
    <2> QED
      BY <1>9, <1>10, <1>11, <2>1 DEF White, NonWhite
  <1>13. Live' = NonWhite(m) \cup WS
    BY <1>1, <1>8, <1>12 DEF Live, NonWhite
  <1>14. /\ Separated(Remarked) = {u \in heap \cap Of("udata") : u \notin NonWhite(Remarked) /\ u \notin finalized}
         /\ tm = Separated(Remarked) \cap HasGC
    <2>1. \A u \in heap : Remarked.color[u] \in {"white", "gray", "black"}
      BY <1>2, <1>3 DEF Marks
    <2>2. Separated(Remarked) = {u \in heap \cap Of("udata") : u \notin NonWhite(Remarked) /\ u \notin finalized}
      BY <2>1 DEF Separated, White, NonWhite
    <2> QED
      BY <1>4, <2>2 DEF ToFinalize
  <1> HIDE DEF tm, done
  <1>15. done = finalized \cup Separated(Remarked)
    BY DEF done
  <1>16. \A x \in Object : fields'[x] \subseteq fields[x] /\ (x \notin m.weak => fields'[x] = fields[x])
    BY <1>0
  <1>17. TypeOK'
    <2>1. HeapOK'
      <3>1. color' \in [Object -> {"white", "dead", "gray", "black"}]
        BY <1>10, <1>11 DEF Marks
      <3>2. ListsOK(Now)'
        BY <1>11 DEF ListsOK, Now
      <3>3. tosweep' \subseteq heap' \ OpenUpvals'
        <4>1. OpenUpvals' \subseteq Of("upval")
          BY <1>1, <1>2 DEF OpenUpvals, OpensOK, Of
        <4> QED
          BY <1>1, <4>1 DEF Of
      <3>4. tmudata' \subseteq heap' \cap HasGC /\ finalized' \subseteq heap' \cap Of("udata")
        BY <1>1, <1>2, <1>14, <1>15 DEF HeapOK
      <3> QED
        BY <1>1, <1>2, <3>1, <3>2, <3>3, <3>4 DEF HeapOK
    <2>2. FieldsOK'
      <3>1. fields' \in [Object -> SUBSET ((Object \cup {Scalar}) \X Object)]
        <4>1. \A x \in Object : fields'[x] \in SUBSET ((Object \cup {Scalar}) \X Object)
          BY <1>2, <1>16 DEF FieldsOK
        <4>2. fields' = [x \in Object |-> fields'[x]]
          BY <1>0
        <4> QED
          BY <4>1, <4>2
      <3>2. \A x \in Object : \A e \in fields'[x] : EntryOK(x, e)
        BY <1>2, <1>16 DEF FieldsOK
      <3>3. \A x \in Object : x \notin heap' \/ opens'[x] # << >> => fields'[x] = {}
        BY <1>1, <1>2, <1>16 DEF FieldsOK
      <3> QED
        BY <3>1, <3>2, <3>3 DEF FieldsOK, EntryOK
    <2>3. StackOK'
      BY <1>1, <1>2 DEF StackOK
    <2>4. OpensOK'
      BY <1>1, <1>2 DEF OpensOK
    <2> QED
      BY <2>1, <2>2, <2>3, <2>4 DEF TypeOK
  <1>18. LiveOK'
    <2>1. ASSUME NEW o \in Object, o \notin m.weak
          PROVE  Contents'[o] = Contents[o]
      BY <1>1, <1>16, <2>1, SameContents
    <2>2. ASSUME NEW o \in NonWhite(m)
          PROVE  Contents'[o] \subseteq Live'
      <3>1. o \in heap /\ o \in Object /\ m.color[o] \in {"gray", "black"}
        BY <1>2 DEF NonWhite
      <3>2. CASE Kind[o] # "table"
        <4>1. Strong[o] = Contents[o] /\ o \notin m.weak
          BY <1>7, <3>1, <3>2 DEF Strong
        <4> QED
          BY <1>5, <1>13, <2>1, <3>1, <4>1
      <3>3. CASE Kind[o] = "table" /\ o \notin m.weak
        <4>1. m.color[o] = "black"
          <5>1. m.color[o] = "gray" => o \in m.grayagain
            BY <1>3, <1>5, <3>1, <3>3 DEF ColoursOK
          <5> QED
            BY <1>3, <3>1, <3>3, <5>1 DEF Of
        <4>2. Contents[o] \subseteq NonWhite(m)
          BY <1>5, <3>1, <4>1 DEF BlackOK
        <4> QED
          BY <1>13, <2>1, <3>1, <3>3, <4>2
      <3>4. CASE o \in m.weak
        <4>1. fields'[o] = fields[o] \ Cleared(m, o, done, o \in arrays) /\ Kind[o] = "table"
          BY <1>0, <1>7, <3>1, <3>4
        <4>2. ASSUME NEW e \in fields[o], NEW x \in {e[1], e[2]}, x # Scalar, NEW isKey \in BOOLEAN,
                     ~ IsCleared(m, x, isKey, done)
              PROVE  x \in Live'
          <5>1. x \in heap
            <6>1. x \in Values(o) \cup Keys(fields[o])
              BY <4>2 DEF Values, Keys
            <6>2. x \in Contents[o]
              BY <3>1, <4>1, <6>1 DEF Contents
            <6> QED
              BY <1>4, <3>1, <6>2 DEF GraphOK
          <5>2. CASE Kind[x] = "string"
            <6>1. x \in WS
              BY <1>2, <3>4, <4>2, <5>1, <5>2 DEF WS, WeakStrings, Of
            <6> QED
              BY <1>13, <6>1
          <5>3. CASE Kind[x] # "string"
            <6>1. White(m, {x}) = {}
              BY <4>2, <5>3 DEF IsCleared
            <6>2. m.color[x] \in {"gray", "black"}
              BY <1>2, <1>5, <5>1, <6>1 DEF White, Marks
            <6> QED
              BY <1>13, <5>1, <6>2 DEF NonWhite
          <5> QED
            BY <5>2, <5>3
        <4>3. ASSUME NEW e \in fields'[o]
              PROVE  (e[1] # Scalar => e[1] \in Live') /\ e[2] \in Live'
          <5>1. e \in fields[o]
            BY <4>1, <4>3
          <5>2. e[2] \in Object
            BY <1>2, <3>1, <5>1 DEF FieldsOK
          <5>3. e[2] # Scalar /\ TRUE \in BOOLEAN /\ FALSE \in BOOLEAN
            BY <5>2, GCAssumption
          <5>4. CASE ~ IsCleared(m, e[1], TRUE, done) /\ ~ IsCleared(m, e[2], FALSE, done)
            <6>1. e[1] # Scalar => e[1] \in Live'
              BY <4>2, <5>1, <5>4
            <6>2. e[2] \in Live'
              BY <4>2, <5>1, <5>3, <5>4
            <6> QED
              BY <6>1, <6>2
          <5>5. CASE e[1] = Scalar /\ "value" \notin mode[o]
            <6>1. e[2] \in Strong[o]
              BY <3>1, <4>1, <5>1, <5>5 DEF Strong, Values
            <6>2. e[2] \in NonWhite(m)
              BY <1>5, <6>1
            <6> QED
              BY <1>13, <5>5, <6>2
          <5>6. e \notin Cleared(m, o, done, o \in arrays)
            BY <4>1, <4>3
          <5> QED
            BY <5>1, <5>4, <5>5, <5>6 DEF Cleared
        <4>4. Contents'[o] = {e[2] : e \in fields'[o]} \cup ({e[1] : e \in fields'[o]} \ {Scalar})
          BY <3>1, <4>1 DEF Contents, Values, Keys
        <4> QED
          BY <4>3, <4>4
      <3> QED
        BY <3>2, <3>3, <3>4
    <2>3. ASSUME NEW o \in WS
          PROVE  Contents'[o] \subseteq Live'
      <3>1. o \in Object /\ Kind[o] = "string" /\ o \notin m.weak
        BY <1>6, <1>7
      <3>2. Contents'[o] = {}
        BY <1>2, <2>1, <3>1, ContentKinds
      <3> QED
        BY <3>2
    <2>4. {Main, Global, running'} \cup tmudata' \subseteq Live'
      BY <1>1, <1>3, <1>13
    <2>5. \A o \in Live' : Contents'[o] \subseteq Live'
      BY <1>13, <2>2, <2>3
    <2> QED
      BY <2>4, <2>5 DEF LiveOK
  <1>19. PhaseOK'
    <2>1. Unswept' = heap
      BY <1>1 DEF Unswept
    <2>2. \A o \in heap : color'[o] = "black" => opens'[o] = << >>
      BY <1>1, <1>5, <1>12 DEF ColoursOK
    <2>3. SweepOK'
      BY <1>1, <2>1, <2>2 DEF SweepOK
    <2> QED
      BY <1>1, <1>11, <2>3 DEF PhaseOK
  <1>20. DoomOK'
    <2>1. ASSUME NEW o \in doomed' \cap heap'
          PROVE  color'[o] = "dead"
      <3>1. o \in heap /\ o \notin Spared
        BY <1>1, <2>1 DEF Remember, Spared
      <3> QED
        BY <1>5, <1>8, <1>12, <3>1
    <2> QED
      BY <1>1, <2>1 DEF DoomOK
  <1>21. FinalOK'
    <2> SUFFICES ASSUME NEW u \in HasGC
                 PROVE  /\ calls'[u] \in {0, 1}
                        /\ u \in heap' \ finalized' => calls'[u] = 0
                        /\ u \in tmudata' => u \in finalized' /\ calls'[u] = 0
                        /\ u \in finalized' \ tmudata' => calls'[u] = 1
                        /\ u \in heap' /\ color'[u] = "dead" => u \in finalized' \ tmudata'
      BY DEF FinalOK
    <2>1. /\ calls[u] \in {0, 1}
          /\ u \in heap \ finalized => calls[u] = 0
          /\ u \in finalized => calls[u] = 1
      BY <1>2, <1>4 DEF FinalOK
    <2>2. u \in heap /\ color'[u] = "dead" => u \in finalized /\ u \notin tm
      <3> SUFFICES ASSUME u \in heap, color'[u] = "dead"
                   PROVE  u \in finalized /\ u \notin tm
        OBVIOUS
      <3>1. u \notin NonWhite(m)
        BY <1>12
      <3>2. u \notin tm /\ u \notin NonWhite(Remarked)
        BY <1>3, <3>1
      <3>3. u \in Of("udata")
        BY GCAssumption
      <3> QED
        BY <1>14, <3>2, <3>3
    <2> QED
      BY <1>1, <1>14, <1>15, <2>1, <2>2
  <1> QED
    BY <1>17, <1>18, <1>19, <1>20, <1>21 DEF Inv

\* Strings are swept: those that are dead go, which refer to nothing and are no roots.
LEMMA SweepStringKeepsInv ==
    ASSUME Inv, NEW bucket, SweepString(bucket), Remember
    PROVE  Inv'
  <1> DEFINE D == Dead(bucket)
             next == heap \ (Of("string") \cup OpenUpvals \cup tmudata)
  <1>1. /\ gcstate = "sweepstring" /\ bucket \subseteq tosweep /\ heap' = heap \ D
        /\ color' = [s \in Object |-> IF s \in bucket THEN "white" ELSE color[s]]
        /\ IF bucket = tosweep THEN gcstate' = "sweep" /\ tosweep' = next
                               ELSE gcstate' = gcstate /\ tosweep' = tosweep \ bucket
        /\ gray' = gray /\ grayagain' = grayagain /\ weak' = weak /\ finalized' = finalized
        /\ tmudata' = tmudata /\ fields' = fields /\ stack' = stack /\ opens' = opens /\ mode' = mode
        /\ running' = running /\ world' = world /\ calls' = calls
    BY DEF SweepString, graph
  <1>2. /\ TypeOK /\ HeapOK /\ FieldsOK /\ StackOK /\ OpensOK /\ LiveOK /\ PhaseOK /\ DoomOK /\ FinalOK
        /\ heap \subseteq Object
    BY DEF Inv, TypeOK, HeapOK
  <1>3. bucket \subseteq heap /\ \A s \in bucket : Kind[s] = "string"
    <2>1. tosweep \subseteq heap /\ tosweep \subseteq Of("string")
      BY <1>1, <1>2 DEF HeapOK, PhaseOK
    <2> QED
      BY <1>1, <2>1 DEF Of
  <1>4. D = {o \in bucket : color[o] = "dead"}
    BY DEF Dead
  <1> HIDE DEF D
  <1>5. \A o \in heap : Kind[o] # "string" => o \in heap' /\ color'[o] = color[o]
    BY <1>1, <1>2, <1>3, <1>4
  <1>6. \A o \in heap' : /\ o \in heap /\ o \in Object /\ (o \notin bucket => color'[o] = color[o])
                         /\ o \in bucket => color'[o] = "white" /\ color[o] # "dead"
    BY <1>1, <1>2, <1>4
  <1>7. Live' = Live
    <2>1. Live \subseteq heap'
      BY <1>1, <1>4 DEF Live
    <2> QED
      BY <1>6, <2>1 DEF Live
  <1>8. gray = {} /\ grayagain = {} /\ weak = {} /\ SweepOK
    BY <1>1, <1>2 DEF PhaseOK
  <1>9. Of("table") \cap Of("string") = {} /\ Of("thread") \cap Of("string") = {} /\ HasGC \cap Of("string") = {}
    BY GCAssumption DEF Of
  <1>10. TypeOK'
    <2>1. HeapOK'
      <3>1. color' \in [Object -> {"white", "dead", "gray", "black"}]
        BY <1>1, <1>2 DEF HeapOK
      <3>2. ListsOK(Now)'
        BY <1>1, <1>8 DEF ListsOK, Now
      <3>3. {Main, Global, running'} \subseteq heap' /\ tmudata' \subseteq heap' \cap HasGC
        <4>1. {Main, Global, running} \cup tmudata \subseteq Live'
          BY <1>2, <1>7 DEF LiveOK
        <4> QED
          BY <1>1, <1>2, <4>1 DEF Live, HeapOK
      <3>4. finalized' \subseteq heap' \cap Of("udata")
        BY <1>1, <1>2, <1>5 DEF HeapOK, Of
      <3>5. tosweep' \subseteq heap' \ OpenUpvals'
        <4>1. OpenUpvals' \subseteq OpenUpvals
          BY <1>1 DEF OpenUpvals
        <4>2. next \subseteq heap'
          <5>1. D \subseteq Of("string")
            BY <1>2, <1>3, <1>4 DEF Of
          <5> QED
            BY <1>1, <5>1
        <4>3. tosweep \ bucket \subseteq heap' \ OpenUpvals
          BY <1>1, <1>2, <1>4 DEF HeapOK
        <4> QED
          BY <1>1, <4>1, <4>2, <4>3
      <3>6. gcstate' \in {"pause", "propagate", "sweepstring", "sweep", "finalize"}
        BY <1>1
      <3>7. heap' \subseteq Object /\ running' \in Of("thread") /\ calls' \in [Object -> Nat]
            /\ mode' \in [Object -> SUBSET {"key", "value"}] /\ world' \in Worlds
        BY <1>1, <1>2 DEF HeapOK
      <3> QED
        BY <3>1, <3>2, <3>3, <3>4, <3>5, <3>6, <3>7 DEF HeapOK
    <2>2. FieldsOK'
      <3>1. \A s \in bucket : fields[s] = {}
        <4>1. \A s \in bucket : \A e \in fields[s] : EntryOK(s, e)
          BY <1>2, <1>3 DEF FieldsOK
        <4> QED
          BY <1>3, <4>1 DEF EntryOK
      <3>2. \A o \in Object : o \notin heap' \/ opens'[o] # << >> => fields'[o] = {}
        BY <1>1, <1>2, <1>4, <3>1 DEF FieldsOK
      <3> QED
        BY <1>1, <1>2, <3>2 DEF FieldsOK, EntryOK
    <2>3. StackOK'
      <3>1. \A th \in Of("thread") : th \notin heap' => th \notin heap
        BY <1>5 DEF Of
      <3> QED
        BY <1>1, <1>2, <3>1 DEF StackOK
    <2>4. OpensOK'
      <3>1. \A uv \in Object : opens[uv] # << >> => uv \in heap' /\ opens[uv][1] \in heap'
        <4>1. \A uv \in Object : opens[uv] # << >> =>
                 /\ uv \in heap /\ Kind[uv] = "upval" /\ opens[uv][1] \in heap
                 /\ opens[uv][1] \in Of("thread")
          BY <1>2 DEF OpensOK
        <4> QED
          BY <1>5, <4>1 DEF Of
      <3> QED
        BY <1>1, <1>2, <3>1 DEF OpensOK
    <2> QED
      BY <2>1, <2>2, <2>3, <2>4 DEF TypeOK
  <1>11. LiveOK'
    <2>1. \A o \in Object : Contents'[o] = Contents[o]
      BY <1>1, SameContents
    <2> QED
      BY <1>1, <1>2, <1>7, <2>1 DEF LiveOK, Live
  <1>12. PhaseOK'
    <2>1. ASSUME NEW o \in heap', color'[o] # "white"
          PROVE  /\ o \in Unswept' \cup tmudata' \/ (opens'[o] # << >> /\ opens'[o][1] \in Unswept')
                 /\ color'[o] = "black" => opens'[o] = << >>
      <3>1. o \in heap /\ o \in Object /\ o \notin bucket /\ color'[o] = color[o]
        BY <1>6, <2>1
      <3>2. /\ o \in Unswept \cup tmudata \/ (opens[o] # << >> /\ opens[o][1] \in Unswept)
            /\ color[o] = "black" => opens[o] = << >>
        BY <1>8, <2>1, <3>1 DEF SweepOK
      <3>3. opens[o] # << >> => /\ Kind[o] = "upval" /\ opens[o][1] \in heap
                                /\ opens[o][1] \in Of("thread")
        BY <1>2, <3>1 DEF OpensOK
      <3>4. CASE bucket = tosweep
        <4>1. Unswept' = next
          BY <1>1, <3>4 DEF Unswept
        <4>2. Kind[o] # "string"
          <5>1. Unswept = tosweep \cup (heap \ Of("string"))
            BY <1>1 DEF Unswept
          <5>2. tmudata \cap Of("string") = {}
            BY <1>2, <1>9 DEF HeapOK
          <5> QED
            BY <3>1, <3>2, <3>3, <3>4, <5>1, <5>2 DEF Of
        <4>3. o \notin OpenUpvals => o \in next \cup tmudata
          BY <3>1, <4>2 DEF Of
        <4>4. o \in OpenUpvals => opens[o] # << >> /\ opens[o][1] \in next
          <5>1. \A t \in OpenUpvals \cup tmudata : Kind[t] # "thread"
            BY <1>2, GCAssumption DEF HeapOK, OpenUpvals, OpensOK, Of
          <5> QED
            BY <3>3, <5>1 DEF OpenUpvals, Of
        <4> QED
          BY <1>1, <3>1, <3>2, <4>1, <4>3, <4>4
      <3>5. CASE bucket # tosweep
        <4>1. /\ Unswept = tosweep \cup (heap \ Of("string"))
              /\ Unswept' = (tosweep \ bucket) \cup (heap' \ Of("string"))
          BY <1>1, <3>5 DEF Unswept
        <4>2. o \in Unswept => o \in Unswept'
          BY <2>1, <3>1, <4>1
        <4>3. opens[o] # << >> => opens[o][1] \in Unswept'
          BY <1>5, <3>3, <4>1 DEF Of
        <4> QED
          BY <1>1, <3>1, <3>2, <4>2, <4>3
      <3> QED
        BY <3>4, <3>5
    <2>2. SweepOK'
      BY <2>1 DEF SweepOK
    <2>3. gcstate' = "sweepstring" => tosweep' \subseteq Of("string")
      BY <1>1, <1>2 DEF PhaseOK
    <2>4. gcstate' \in {"sweepstring", "sweep"}
      BY <1>1
    <2> QED
      BY <1>1, <1>8, <2>2, <2>3, <2>4 DEF PhaseOK
  <1>13. DoomOK'
    <2>1. \A o \in doomed' \cap heap' : color'[o] = "dead"
      <3>1. doomed' \subseteq doomed
        BY <1>1 DEF Remember
      <3>2. \A o \in doomed \cap heap : color[o] = "dead"
        BY <1>1, <1>2 DEF DoomOK
      <3> QED
        BY <1>6, <3>1, <3>2
    <2> QED
      BY <1>1, <2>1 DEF DoomOK
  <1>14. FinalOK'
    <2>1. \A u \in HasGC : u \in heap' => u \in heap /\ color'[u] = color[u]
      BY <1>3, <1>6, <1>9 DEF Of
    <2> QED
      BY <1>1, <1>2, <2>1 DEF FinalOK
  <1> QED
    BY <1>10, <1>11, <1>12, <1>13, <1>14 DEF Inv

\* An object is swept, or a thread with its open upvalues: those that are dead go.
LEMMA SweepKeepsInv ==
    ASSUME Inv, NEW o \in tosweep, Sweep(o), Remember
    PROVE  Inv'
  <1> DEFINE swept == {o} \cup OpenIn(o)
             gone == Dead(swept)
             closed == IF o \in gone THEN OpenIn(o) \ gone ELSE {}
  <1>1. /\ gcstate = "sweep" /\ heap' = heap \ gone /\ finalized' = finalized \ gone
        /\ color' = [x \in Object |-> IF x \in swept THEN "white" ELSE color[x]]
        /\ fields' = [x \in Object |-> IF x \in gone THEN {}
                                       ELSE IF x \in closed THEN {<< Scalar, v >> : v \in UpValue(x)}
                                       ELSE fields[x]]
        /\ opens' = [x \in Object |-> IF x \in gone \cup closed THEN << >> ELSE opens[x]]
        /\ stack' = [th \in Of("thread") |-> IF th \in gone THEN << >> ELSE stack[th]]
        /\ mode' = [t \in Object |-> IF t \in gone THEN {} ELSE mode[t]]
        /\ tosweep' = tosweep \ {o}
        /\ gcstate' = IF tosweep' = {} THEN "finalize" ELSE gcstate
        /\ gray' = gray /\ grayagain' = grayagain /\ weak' = weak /\ tmudata' = tmudata
        /\ running' = running /\ world' = world /\ calls' = calls
    BY DEF Sweep
  <1>2. /\ TypeOK /\ HeapOK /\ FieldsOK /\ StackOK /\ OpensOK /\ LiveOK /\ PhaseOK /\ DoomOK /\ FinalOK
        /\ heap \subseteq Object /\ o \in heap /\ o \in Object
    BY DEF Inv, TypeOK, HeapOK
  <1>3. gray = {} /\ grayagain = {} /\ weak = {} /\ SweepOK /\ Unswept = tosweep
    BY <1>1, <1>2 DEF PhaseOK, Unswept
  <1>4. \A x \in OpenIn(o) : /\ x \in heap /\ x \in Object /\ Kind[x] = "upval" /\ opens[x] # << >>
                             /\ opens[x][1] = o /\ fields[x] = {} /\ x \notin tosweep
    BY <1>2 DEF OpenIn, OpenUpvals, OpensOK, FieldsOK, HeapOK
  <1>5. /\ swept \subseteq heap /\ gone = {x \in swept : color[x] = "dead"} /\ gone \subseteq swept
        /\ closed \subseteq OpenIn(o) /\ closed \cap gone = {} /\ \A x \in closed : o \in gone
        /\ \A x \in OpenIn(o) : o \in gone => x \in gone \cup closed
    BY <1>2, <1>4 DEF Dead
  <1>6. \A x \in swept : x = o \/ x \in OpenIn(o)
    OBVIOUS
  <1> HIDE DEF swept
  <1> HIDE DEF gone
  <1> HIDE DEF closed
  <1>7. /\ \A x \in gone : fields'[x] = {} /\ opens'[x] = << >> /\ mode'[x] = {}
        /\ \A x \in closed : fields'[x] = {<< Scalar, v >> : v \in UpValue(x)} /\ opens'[x] = << >>
        /\ \A x \in Object : x \notin gone \cup closed => fields'[x] = fields[x] /\ opens'[x] = opens[x]
        /\ \A th \in Of("thread") : stack'[th] = IF th \in gone THEN << >> ELSE stack[th]
    BY <1>1, <1>2, <1>4, <1>5
  <1>8. \A x \in heap' : /\ x \in heap /\ x \in Object /\ x \notin gone
                         /\ x \notin swept => color'[x] = color[x]
                         /\ x \in swept => color'[x] = "white" /\ color[x] # "dead"
    BY <1>1, <1>2, <1>5
  <1>9. Live' = Live /\ Live \subseteq heap' /\ Live \cap gone = {}
    <2>1. Live \cap gone = {} /\ Live \subseteq heap
      BY <1>5 DEF Live
    <2>2. Live \subseteq heap'
      BY <1>1, <2>1
    <2> QED
      BY <1>8, <2>1, <2>2 DEF Live
  <1>10. ASSUME NEW x \in Object, x \notin gone \cup closed, opens[x] # << >>
         PROVE  /\ opens[x][1] \notin gone /\ opens[x][1] \in heap' /\ x \in heap'
                /\ opens[x][1] \in Of("thread") /\ stack'[opens[x][1]] = stack[opens[x][1]]
                /\ Kind[x] = "upval" /\ opens[x][2] <= Len(stack[opens[x][1]])
    <2>1. /\ opens[x] \in Of("thread") \X (Nat \ {0}) /\ x \in heap /\ Kind[x] = "upval"
          /\ opens[x][1] \in heap /\ opens[x][2] <= Len(stack[opens[x][1]])
      BY <1>2, <1>10 DEF OpensOK
    <2>2. opens[x][1] \notin gone
      <3>1. opens[x][1] \in gone => opens[x][1] = o
        BY <1>4, <1>5, <1>6, <2>1 DEF Of
      <3>2. opens[x][1] = o => x \in OpenIn(o)
        BY <1>10, <2>1 DEF OpenIn, OpenUpvals
      <3> QED
        BY <1>5, <1>10, <3>1, <3>2
    <2> QED
      BY <1>1, <1>7, <1>10, <2>1, <2>2
  <1>11. ASSUME NEW x \in Live
         PROVE  Contents'[x] \subseteq Contents[x]
    <2>1. x \in Object /\ x \notin gone
      BY <1>8, <1>9
    <2>2. CASE x \in closed
      <3>1. Contents'[x] = UpValue(x)' /\ Contents[x] = UpValue(x)
        BY <1>4, <1>5, <2>1, <2>2 DEF Contents
      <3>2. UpValue(x)' = {f[2] : f \in fields'[x]}
        BY <1>7, <2>2 DEF UpValue, Values
      <3>3. {f[2] : f \in {<< Scalar, v >> : v \in UpValue(x)}} \subseteq UpValue(x)
        OBVIOUS
      <3> QED
        BY <1>7, <2>2, <3>1, <3>2, <3>3
    <2>3. CASE x \notin closed
      <3>1. Kind[x] = "thread" => stack'[x] = stack[x]
        BY <1>7, <2>1 DEF Of
      <3>2. opens[x] # << >> => stack'[opens[x][1]] = stack[opens[x][1]]
        BY <1>10, <2>1, <2>3
      <3> QED
        BY <1>7, <2>1, <2>3, <3>1, <3>2, SameContents
    <2> QED
      BY <2>2, <2>3
  <1>12. TypeOK'
    <2>1. HeapOK'
      <3>1. color' \in [Object -> {"white", "dead", "gray", "black"}]
        BY <1>1, <1>2 DEF HeapOK
      <3>2. ListsOK(Now)'
        BY <1>1, <1>3 DEF ListsOK, Now
      <3>3. {Main, Global, running'} \subseteq heap' /\ tmudata' \subseteq heap' \cap HasGC
        <4>1. {Main, Global, running} \cup tmudata \subseteq Live
          BY <1>2 DEF LiveOK
        <4> QED
          BY <1>1, <1>2, <1>9, <4>1 DEF HeapOK
      <3>4. finalized' \subseteq heap' \cap Of("udata")
        BY <1>1, <1>2 DEF HeapOK
      <3>5. tosweep' \subseteq heap' \ OpenUpvals'
        <4>1. OpenUpvals' \subseteq OpenUpvals
          BY <1>1, <1>7, <1>8 DEF OpenUpvals
        <4>2. tosweep \cap gone \subseteq {o}
          BY <1>4, <1>5, <1>6
        <4> QED
          BY <1>1, <1>2, <4>1, <4>2 DEF HeapOK
      <3>6. gcstate' \in {"pause", "propagate", "sweepstring", "sweep", "finalize"}
        BY <1>1
      <3>7. heap' \subseteq Object /\ running' \in Of("thread") /\ calls' \in [Object -> Nat]
            /\ world' \in Worlds
        BY <1>1, <1>2 DEF HeapOK
      <3>8. mode' \in [Object -> SUBSET {"key", "value"}]
        BY <1>1, <1>2 DEF HeapOK
      <3> QED
        BY <3>1, <3>2, <3>3, <3>4, <3>5, <3>6, <3>7, <3>8 DEF HeapOK
    <2>2. FieldsOK'
      <3>1. ASSUME NEW x \in closed
            PROVE  {<< Scalar, v >> : v \in UpValue(x)} \subseteq {Scalar} \X Value
        <4>1. UpValue(x) \subseteq Value
          BY <1>2, <1>4, <1>5, ContentKinds
        <4> QED
          BY <4>1
      <3>2. fields' \in [Object -> SUBSET ((Object \cup {Scalar}) \X Object)]
        <4>1. \A x \in Object : fields'[x] \in SUBSET ((Object \cup {Scalar}) \X Object)
          BY <1>2, <1>7, <3>1 DEF FieldsOK, Value
        <4>2. fields' = [x \in Object |-> fields'[x]]
          BY <1>1
        <4> QED
          BY <4>1, <4>2
      <3>3. \A x \in Object : \A e \in fields'[x] : EntryOK(x, e)
        <4>1. ASSUME NEW x \in closed, NEW e \in fields'[x]
              PROVE  EntryOK(x, e)
          <5>1. e \in {Scalar} \X Value /\ Kind[x] = "upval"
            BY <1>4, <1>5, <1>7, <3>1, <4>1
          <5> QED
            BY <5>1 DEF EntryOK
        <4> QED
          BY <1>2, <1>7, <4>1 DEF FieldsOK
      <3>4. ASSUME NEW x \in Object, x \notin heap' \/ opens'[x] # << >>
            PROVE  fields'[x] = {}
        <4>1. CASE x \in gone
          BY <1>7, <4>1
        <4>2. CASE x \notin gone
          <5>1. x \notin closed
            BY <1>1, <1>4, <1>5, <1>7, <3>4, <4>2
          <5> QED
            BY <1>1, <1>2, <1>7, <3>4, <4>2, <5>1 DEF FieldsOK
        <4> QED
          BY <4>1, <4>2
      <3> QED
        BY <3>2, <3>3, <3>4 DEF FieldsOK, EntryOK
    <2>3. StackOK'
      <3>1. << >> \in Seq(Value)
        OBVIOUS
      <3>2. \A th \in Of("thread") : stack'[th] \in Seq(Value) /\ (th \notin heap' => stack'[th] = << >>)
        BY <1>1, <1>2, <1>7, <3>1 DEF StackOK
      <3>3. stack' = [th \in Of("thread") |-> stack'[th]]
        BY <1>1
      <3> QED
        BY <3>2, <3>3 DEF StackOK
    <2>4. OpensOK'
      <3>1. opens' \in [Object -> {<< >>} \cup (Of("thread") \X (Nat \ {0}))]
        BY <1>1, <1>2 DEF OpensOK
      <3>2. ASSUME NEW x \in Object, opens'[x] # << >>
            PROVE  /\ x \in heap' /\ Kind[x] = "upval" /\ opens'[x][1] \in heap'
                   /\ opens'[x][2] <= Len(stack'[opens'[x][1]])
        <4>1. x \notin gone \cup closed /\ opens'[x] = opens[x]
          BY <1>7, <3>2
        <4> QED
          BY <1>10, <3>2, <4>1
      <3> QED
        BY <3>1, <3>2 DEF OpensOK
    <2> QED
      BY <2>1, <2>2, <2>3, <2>4 DEF TypeOK
  <1>13. LiveOK'
    <2>1. \A x \in Live : Contents'[x] \subseteq Live
      BY <1>2, <1>11 DEF LiveOK
    <2> QED
      BY <1>1, <1>2, <1>9, <2>1 DEF LiveOK
  <1>14. PhaseOK'
    <2>1. Unswept' = tosweep \ {o}
      BY <1>1 DEF Unswept
    <2>2. ASSUME NEW x \in heap', color'[x] # "white"
          PROVE  /\ x \in Unswept' \cup tmudata' \/ (opens'[x] # << >> /\ opens'[x][1] \in Unswept')
                 /\ color'[x] = "black" => opens'[x] = << >>
      <3>1. x \in heap /\ x \in Object /\ x \notin swept /\ color'[x] = color[x]
        BY <1>8, <2>2
      <3>2. /\ x \in tosweep \cup tmudata \/ (opens[x] # << >> /\ opens[x][1] \in tosweep)
            /\ color[x] = "black" => opens[x] = << >>
        BY <1>3, <2>2, <3>1 DEF SweepOK
      <3>3. opens'[x] = opens[x] /\ x # o /\ x \notin OpenIn(o)
        <4>1. x \notin gone \cup closed
          BY <1>5, <3>1 DEF swept
        <4> QED
          BY <1>7, <3>1, <4>1 DEF swept
      <3>4. opens[x] # << >> => opens[x][1] # o
        BY <3>1, <3>3 DEF OpenIn, OpenUpvals
      <3> QED
        BY <1>1, <2>1, <3>1, <3>2, <3>3, <3>4
    <2>3. SweepOK'
      BY <2>2 DEF SweepOK
    <2>4. gcstate' \in {"sweep", "finalize"} /\ (gcstate' = "finalize" => tosweep' = {})
      BY <1>1
    <2> QED
      BY <1>1, <1>3, <2>3, <2>4 DEF PhaseOK
  <1>15. DoomOK'
    <2>1. \A x \in doomed' \cap heap' : color'[x] = "dead"
      <3>1. doomed' \subseteq doomed
        BY <1>1 DEF Remember
      <3>2. \A x \in doomed \cap heap : color[x] = "dead"
        BY <1>1, <1>2 DEF DoomOK
      <3> QED
        BY <1>8, <3>1, <3>2
    <2> QED
      BY <1>1, <2>1 DEF DoomOK
  <1>16. FinalOK'
    <2> SUFFICES ASSUME NEW u \in HasGC
                 PROVE  /\ calls'[u] \in {0, 1}
                        /\ u \in heap' \ finalized' => calls'[u] = 0
                        /\ u \in tmudata' => u \in finalized' /\ calls'[u] = 0
                        /\ u \in finalized' \ tmudata' => calls'[u] = 1
                        /\ u \in heap' /\ color'[u] = "dead" => u \in finalized' \ tmudata'
      BY DEF FinalOK
    <2>1. u \in heap' => u \in heap /\ u \notin gone
      BY <1>8
    <2>2. u \in heap' /\ color'[u] = "dead" => color[u] = "dead"
      BY <1>8
    <2>3. u \in tmudata => u \notin gone
      BY <1>2, <1>9 DEF LiveOK
    <2> QED
      BY <1>1, <1>2, <2>1, <2>2, <2>3 DEF FinalOK
  <1> QED
    BY <1>12, <1>13, <1>14, <1>15, <1>16 DEF Inv

\* A finalizer is called, with its userdata on the stack.
LEMMA CallGCTMKeepsInv ==
    ASSUME Inv, NEW u, CallGCTM(u), Remember
    PROVE  Inv'
  <1>1. /\ gcstate = "finalize" /\ u \in tmudata /\ tmudata' = tmudata \ {u}
        /\ color' = [color EXCEPT ![u] = "white"] /\ Push(u)
        /\ calls' = [calls EXCEPT ![u] = @ + 1]
        /\ heap' = heap /\ gcstate' = gcstate /\ gray' = gray /\ grayagain' = grayagain /\ weak' = weak
        /\ tosweep' = tosweep /\ finalized' = finalized /\ fields' = fields /\ opens' = opens
        /\ mode' = mode /\ running' = running /\ world' = world
    BY DEF CallGCTM
  <1>2. /\ TypeOK /\ HeapOK /\ FieldsOK /\ StackOK /\ OpensOK /\ LiveOK /\ PhaseOK /\ DoomOK /\ FinalOK
        /\ heap \subseteq Object /\ Base
    BY DEF Inv, Base, TypeOK, HeapOK
  <1>3. u \in heap /\ u \in HasGC /\ u \in Live /\ u \in Object /\ u \in Value /\ u \in finalized /\ calls[u] = 0
    <2>1. u \in HasGC /\ u \in Live /\ u \in heap
      BY <1>1, <1>2 DEF HeapOK, LiveOK
    <2> QED
      BY <1>1, <1>2, <2>1, GCAssumption DEF Value, Of, FinalOK
  <1>4. /\ color'[u] = "white" /\ \A x \in Object : x # u => color'[x] = color[x]
        /\ calls'[u] = 1 /\ \A x \in Object : x # u => calls'[x] = calls[x]
        /\ color' \in [Object -> {"white", "dead", "gray", "black"}] /\ calls' \in [Object -> Nat]
    BY <1>1, <1>2, <1>3 DEF HeapOK
  <1>5. /\ stack' \in [Of("thread") -> Seq(Value)]
        /\ \A th \in Of("thread") : th # running => stack'[th] = stack[th]
        /\ \A x \in Object : opens[x] # << >> => opens[x][2] <= Len(stack'[opens[x][1]])
    BY <1>1, <1>2, <1>3, PushStack
  <1>6. /\ running \in Object /\ Contents'[running] = Contents[running] \cup {u}
        /\ \A x \in Object : x # running => Contents'[x] = Contents[x]
    BY <1>1, <1>2, <1>3, PushContents DEF HeapOK
  <1>7. gray = {} /\ grayagain = {} /\ weak = {} /\ SweepOK /\ tosweep = {} /\ Unswept = {}
    BY <1>1, <1>2 DEF PhaseOK, Unswept
  <1>8. TypeOK'
    <2>1. HeapOK'
      BY <1>1, <1>2, <1>4, <1>7 DEF HeapOK, ListsOK, Now, OpenUpvals
    <2>2. FieldsOK'
      BY <1>1, <1>2 DEF FieldsOK, EntryOK
    <2>3. StackOK'
      BY <1>1, <1>2, <1>5 DEF StackOK, HeapOK
    <2>4. OpensOK'
      BY <1>1, <1>2, <1>5 DEF OpensOK
    <2> QED
      BY <2>1, <2>2, <2>3, <2>4 DEF TypeOK
  <1>9. Live' = Live
    BY <1>1, <1>2, <1>3, <1>4 DEF Live
  <1>10. LiveOK'
    <2>1. \A x \in Live : Contents'[x] \subseteq Live
      BY <1>2, <1>3, <1>6 DEF LiveOK, Live
    <2> QED
      BY <1>1, <1>2, <1>9, <2>1 DEF LiveOK
  <1>11. PhaseOK'
    <2>1. Unswept' = {}
      BY <1>1, <1>7 DEF Unswept
    <2>2. ASSUME NEW x \in heap', color'[x] # "white"
          PROVE  /\ x \in Unswept' \cup tmudata' \/ (opens'[x] # << >> /\ opens'[x][1] \in Unswept')
                 /\ color'[x] = "black" => opens'[x] = << >>
      <3>1. x \in heap /\ x # u /\ color'[x] = color[x]
        BY <1>1, <1>2, <1>4, <2>2
      <3>2. x \in tmudata /\ (color[x] = "black" => opens[x] = << >>)
        BY <1>7, <2>2, <3>1 DEF SweepOK
      <3> QED
        BY <1>1, <3>1, <3>2
    <2>3. SweepOK'
      BY <2>2 DEF SweepOK
    <2> QED
      BY <1>1, <1>7, <2>3 DEF PhaseOK
  <1>12. DoomOK'
    <2>1. \A x \in doomed' \cap heap' : color'[x] = "dead"
      <3>1. doomed' \subseteq doomed
        BY <1>1 DEF Remember
      <3>2. \A x \in doomed \cap heap : color[x] = "dead"
        BY <1>1, <1>2 DEF DoomOK
      <3>3. u \notin doomed
        BY <1>3, <3>2 DEF Live
      <3> QED
        BY <1>1, <1>2, <1>4, <3>1, <3>2, <3>3
    <2> QED
      BY <1>1, <2>1 DEF DoomOK
  <1>13. FinalOK'
    <2> SUFFICES ASSUME NEW x \in HasGC
                 PROVE  /\ calls'[x] \in {0, 1}
                        /\ x \in heap' \ finalized' => calls'[x] = 0
                        /\ x \in tmudata' => x \in finalized' /\ calls'[x] = 0
                        /\ x \in finalized' \ tmudata' => calls'[x] = 1
                        /\ x \in heap' /\ color'[x] = "dead" => x \in finalized' \ tmudata'
      BY DEF FinalOK
    <2>1. x \in Object
      BY GCAssumption DEF Of
    <2>2. CASE x = u
      BY <1>1, <1>3, <1>4, <2>2
    <2>3. CASE x # u
      BY <1>1, <1>2, <1>4, <2>1, <2>3 DEF FinalOK
    <2> QED
      BY <2>2, <2>3
  <1> QED
    BY <1>8, <1>10, <1>11, <1>12, <1>13 DEF Inv

\* The collection ends.
LEMMA EndCycleKeepsInv ==
    ASSUME Inv, EndCycle, Remember
    PROVE  Inv'
  <1>1. /\ gcstate = "finalize" /\ tmudata = {} /\ gcstate' = "pause"
        /\ heap' = heap /\ color' = color /\ gray' = gray /\ grayagain' = grayagain /\ weak' = weak
        /\ tosweep' = tosweep /\ finalized' = finalized /\ tmudata' = tmudata /\ fields' = fields
        /\ stack' = stack /\ opens' = opens /\ mode' = mode /\ running' = running /\ world' = world
        /\ calls' = calls
    BY DEF EndCycle, marks, graph
  <1>2. /\ TypeOK /\ HeapOK /\ LiveOK /\ PhaseOK /\ DoomOK /\ FinalOK /\ heap \subseteq Object
    BY DEF Inv, TypeOK, HeapOK
  <1>3. /\ FieldsOK' /\ StackOK' /\ OpensOK' /\ OpenUpvals' = OpenUpvals
        /\ \A o \in Object : Contents'[o] = Contents[o] /\ Kept'[o] = Kept[o]
    BY <1>1, <1>2, SameGraph
  <1>4. TypeOK'
    <2>1. HeapOK'
      BY <1>1, <1>2, <1>3 DEF HeapOK, ListsOK, Now
    <2> QED
      BY <1>3, <2>1 DEF TypeOK
  <1>5. LiveOK'
    <2>1. Live' = Live /\ Live \subseteq Object
      BY <1>1, <1>2 DEF Live
    <2> QED
      BY <1>1, <1>2, <1>3, <2>1 DEF LiveOK
  <1>6. PhaseOK'
    <2>1. Unswept' = Unswept
      BY <1>1 DEF Unswept
    <2>2. SweepOK'
      BY <1>1, <1>2, <2>1 DEF SweepOK, PhaseOK
    <2> QED
      BY <1>1, <1>2, <2>2 DEF PhaseOK
  <1>7. DoomOK'
    <2>1. doomed' \subseteq doomed
      BY <1>1 DEF Remember
    <2> QED
      BY <1>1, <1>2, <2>1 DEF DoomOK
  <1>8. FinalOK'
    BY <1>1, <1>2 DEF FinalOK
  <1> QED
    BY <1>4, <1>5, <1>6, <1>7, <1>8 DEF Inv

\* The state that lua_newstate makes
LEMMA InitHoldsInv ==
    ASSUME Init
    PROVE  Inv
  <1>1. /\ heap = {Main, Global} /\ color = [o \in Object |-> "white"] /\ gcstate = "pause"
        /\ tosweep = {} /\ tmudata = {} /\ finalized = {} /\ gray = {} /\ grayagain = {} /\ weak = {}
        /\ fields = [o \in Object |-> {}] /\ opens = [o \in Object |-> << >>]
        /\ stack = [th \in Of("thread") |-> << >>] /\ mode = [o \in Object |-> {}]
        /\ running = Main /\ world \in Worlds /\ calls = [o \in Object |-> 0] /\ doomed = {}
    BY DEF Init
  <1>2. /\ Main \in Object /\ Global \in Object /\ Kind[Main] = "thread" /\ Kind[Global] = "table"
        /\ Main \in Of("thread") /\ HasGC \subseteq Object /\ HasGC \subseteq Of("udata")
    BY GCAssumption DEF Of
  <1>3. TypeOK
    <2>1. HeapOK
      BY <1>1, <1>2 DEF HeapOK, ListsOK, Now, OpenUpvals
    <2>2. FieldsOK
      BY <1>1 DEF FieldsOK, EntryOK
    <2>3. StackOK
      <3>1. << >> \in Seq(Value)
        OBVIOUS
      <3> QED
        BY <1>1, <3>1 DEF StackOK
    <2>4. OpensOK
      BY <1>1 DEF OpensOK
    <2> QED
      BY <2>1, <2>2, <2>3, <2>4 DEF TypeOK
  <1>4. LiveOK
    <2>1. Live = {Main, Global}
      BY <1>1, <1>2 DEF Live
    <2>2. Contents[Main] = {}
      <3>1. Contents[Main] = ToSet(stack[Main]) /\ stack[Main] = << >>
        BY <1>1, <1>2 DEF Contents
      <3> QED
        BY <3>1 DEF ToSet
    <2>3. Contents[Global] = {}
      <3>1. Contents[Global] = {f[2] : f \in fields[Global]} \cup ({f[1] : f \in fields[Global]} \ {Scalar})
        BY <1>2 DEF Contents, Values, Keys
      <3>2. fields[Global] = {}
        BY <1>1, <1>2
      <3> QED
        BY <3>1, <3>2
    <2> QED
      BY <1>1, <2>1, <2>2, <2>3 DEF LiveOK
  <1>5. PhaseOK
    <2>1. SweepOK
      BY <1>1, <1>2 DEF SweepOK
    <2> QED
      BY <1>1, <2>1 DEF PhaseOK
  <1>6. DoomOK
    BY <1>1 DEF DoomOK
  <1>7. FinalOK
    <2>1. \A u \in HasGC : calls[u] = 0 /\ u \notin heap
      BY <1>1, <1>2 DEF Of
    <2> QED
      BY <1>1, <2>1 DEF FinalOK
  <1> QED
    BY <1>3, <1>4, <1>5, <1>6, <1>7 DEF Inv

\* Nothing changes.
LEMMA StutterKeepsInv ==
    ASSUME Inv, UNCHANGED vars
    PROVE  Inv'
  <1>1. /\ heap' = heap /\ color' = color /\ gcstate' = gcstate /\ gray' = gray /\ grayagain' = grayagain
        /\ weak' = weak /\ tosweep' = tosweep /\ tmudata' = tmudata /\ finalized' = finalized
        /\ fields' = fields /\ stack' = stack /\ opens' = opens /\ mode' = mode /\ running' = running
        /\ world' = world /\ calls' = calls /\ doomed' = doomed
    BY DEF vars, marks, cycle, graph
  <1>2. /\ TypeOK /\ HeapOK /\ LiveOK /\ PhaseOK /\ DoomOK /\ FinalOK /\ heap \subseteq Object
    BY DEF Inv, TypeOK, HeapOK
  <1>3. /\ FieldsOK' /\ StackOK' /\ OpensOK' /\ OpenUpvals' = OpenUpvals
        /\ \A o \in Object : Contents'[o] = Contents[o] /\ Kept'[o] = Kept[o]
    BY <1>1, <1>2, SameGraph
  <1>4. TypeOK'
    <2>1. HeapOK'
      BY <1>1, <1>2, <1>3 DEF HeapOK, ListsOK, Now
    <2> QED
      BY <1>3, <2>1 DEF TypeOK
  <1>5. LiveOK'
    <2>1. Live' = Live /\ Live \subseteq Object
      BY <1>1, <1>2 DEF Live
    <2> QED
      BY <1>1, <1>2, <1>3, <2>1 DEF LiveOK
  <1>6. Now' = Now /\ Unswept' = Unswept /\ Spared' = Spared
    BY <1>1 DEF Now, Unswept, Spared
  <1>7. NonWhite(Now)' = NonWhite(Now)
    BY <1>1, <1>6 DEF NonWhite
  <1>8. PhaseOK'
    <2>1. TriColour(Now) => TriColour(Now)'
      <3> DEFINE W == NonWhite(Now)
      <3>1. BlackOK(Now) => BlackOK(Now)'
        <4>1. BlackOK(Now)' <=> \A o \in heap' : Now'.color[o] = "black" => Contents'[o] \subseteq NonWhite(Now)'
          BY DEF BlackOK, NonWhite
        <4> QED
          BY <1>1, <1>2, <1>3, <1>6, <1>7, <4>1 DEF BlackOK
      <3>2. ListsOK(Now) => ListsOK(Now)'
        BY <1>1, <1>6 DEF ListsOK
      <3>3. ColoursOK(Now) => ColoursOK(Now)'
        BY <1>1, <1>6 DEF ColoursOK, NonWhite
      <3> QED
        BY <3>1, <3>2, <3>3 DEF TriColour
    <2>2. SweepOK => SweepOK'
      BY <1>1, <1>6 DEF SweepOK
    <2> QED
      BY <1>1, <1>2, <2>1, <2>2 DEF PhaseOK
  <1>9. DoomOK'
    <2>1. \A o \in Spared : Kept'[o] = Kept[o]
      BY <1>2, <1>3 DEF Spared
    <2> QED
      BY <1>1, <1>2, <1>6, <1>7, <2>1 DEF DoomOK
  <1>10. FinalOK'
    BY <1>1, <1>2 DEF FinalOK
  <1> QED
    BY <1>4, <1>5, <1>8, <1>9, <1>10 DEF Inv

-----------------------------------------------------------------------------
(* The theorems *)

\* Every step of the collector keeps the invariant.
LEMMA SingleStepKeepsInv ==
    ASSUME Inv, SingleStep, Remember
    PROVE  Inv'
  <1>1. CASE MarkRoot
    BY <1>1, MarkRootKeepsInv
  <1>2. CASE \E o \in gray : Propagate(o)
    BY <1>2, PropagateKeepsInv
  <1>3. CASE Atomic
    BY <1>3, AtomicKeepsInv
  <1>4. CASE \E bucket \in SUBSET tosweep : SweepString(bucket)
    BY <1>4, SweepStringKeepsInv
  <1>5. CASE \E o \in tosweep : Sweep(o)
    BY <1>5, SweepKeepsInv
  <1>6. CASE \E u \in tmudata : CallGCTM(u)
    BY <1>6, CallGCTMKeepsInv
  <1>7. CASE EndCycle
    BY <1>7, EndCycleKeepsInv
  <1> QED
    BY <1>1, <1>2, <1>3, <1>4, <1>5, <1>6, <1>7 DEF SingleStep

\* In every state what is alive refers to what is alive only, black objects have nothing white in
\* the mark phase, and what is to be swept is not yet white in a sweep.
THEOREM CollectorInvariant == Spec => []Inv
  <1>1. Init => Inv
    BY InitHoldsInv
  <1>2. Inv /\ [Next]_vars => Inv'
    <2> SUFFICES ASSUME Inv, [Next]_vars PROVE Inv'
      OBVIOUS
    <2>1. CASE Program /\ Remember
      BY <2>1, ProgramKeepsInv
    <2>2. CASE SingleStep /\ Remember
      BY <2>2, SingleStepKeepsInv
    <2>3. CASE UNCHANGED vars
      BY <2>3, StutterKeepsInv
    <2> QED
      BY <2>1, <2>2, <2>3 DEF Next
  <1> QED
    BY <1>1, <1>2, PTL DEF Spec

\* Nothing that the program can still come to was freed, and no entry of a table that it can
\* come to refers to something that was.
THEOREM NothingReachableIsEverFreed == Spec => []NothingReachableIsFreed
  <1>1. Inv => NothingReachableIsFreed
    <2> SUFFICES ASSUME Inv PROVE NothingReachableIsFreed
      OBVIOUS
    <2>1. TypeOK /\ LiveOK /\ FieldsOK /\ StackOK /\ OpensOK /\ Live \subseteq heap /\ heap \subseteq Object
      BY DEF Inv, TypeOK, HeapOK, Live
    <2>2. Reachable \subseteq Live
      BY <2>1, ReachableIsClosed DEF ReachableOK
    <2>3. ASSUME NEW t \in Live
          PROVE  Values(t) \cup Keys(fields[t]) \subseteq heap
      <3>1. t \in Object /\ Contents[t] \subseteq heap
        BY <2>1, <2>3 DEF LiveOK
      <3>2. /\ \A e \in fields[t] : EntryOK(t, e)
            /\ opens[t] # << >> => fields[t] = {}
        BY <2>1, <3>1 DEF FieldsOK
      <3>3. CASE Kind[t] = "table"
        BY <3>1, <3>3 DEF Contents
      <3>4. CASE Kind[t] # "table"
        <4>1. Keys(fields[t]) = {}
          BY <3>2, <3>4 DEF EntryOK, Keys
        <4>2. Values(t) \subseteq Contents[t]
          <5>1. CASE Kind[t] \in {"thread", "upval"} /\ fields[t] = {}
            BY <5>1 DEF Values
          <5>2. CASE Kind[t] = "thread" /\ fields[t] # {}
            BY <3>2, <5>2 DEF EntryOK
          <5>3. CASE Kind[t] = "upval" /\ fields[t] # {}
            BY <3>1, <3>2, <5>3 DEF Contents, UpValue
          <5>4. CASE Kind[t] \notin {"thread", "upval"}
            BY <3>1, <3>4, <5>4 DEF Contents
          <5> QED
            BY <5>1, <5>2, <5>3, <5>4
        <4> QED
          BY <3>1, <4>1, <4>2
      <3> QED
        BY <3>3, <3>4
    <2> QED
      BY <2>1, <2>2, <2>3 DEF NothingReachableIsFreed
  <1> QED
    BY <1>1, CollectorInvariant, PTL

\* When a collection ends there is nothing left of what was garbage when it began.
THEOREM GarbageIsAlwaysCollected == Spec => []GarbageIsCollected
  <1>1. Inv => GarbageIsCollected
    <2> SUFFICES ASSUME Inv, gcstate = "pause", NEW o \in doomed \cap heap PROVE FALSE
      BY DEF GarbageIsCollected
    <2>1. color[o] = "dead"
      BY DEF Inv, DoomOK
    <2>2. SweepOK /\ Unswept = {} /\ tmudata = {}
      BY DEF Inv, PhaseOK, Unswept
    <2> QED
      BY <2>1, <2>2 DEF SweepOK
  <1> QED
    BY <1>1, CollectorInvariant, PTL

\* Only what is dead goes.
LEMMA OnlyTheDeadGo ==
    ASSUME Inv, [Next]_vars
    PROVE  \A o \in heap \ heap' : color[o] = "dead"
  <1>1. CASE Program
    BY <1>1, ProgramSteps DEF Inv, Base, ProgramStep, StepColours
  <1>2. ASSUME NEW bucket, SweepString(bucket)
        PROVE  \A o \in heap \ heap' : color[o] = "dead"
    BY <1>2 DEF SweepString, Dead
  <1>3. ASSUME NEW o, Sweep(o)
        PROVE  \A x \in heap \ heap' : color[x] = "dead"
    BY <1>3 DEF Sweep, Dead
  <1>4. CASE MarkRoot \/ (\E o \in gray : Propagate(o)) \/ Atomic \/ (\E u \in tmudata : CallGCTM(u)) \/ EndCycle
    BY <1>4 DEF MarkRoot, Propagate, Atomic, CallGCTM, EndCycle
  <1>5. CASE UNCHANGED vars
    BY <1>5 DEF vars
  <1> QED
    BY <1>1, <1>2, <1>3, <1>4, <1>5 DEF Next, SingleStep

\* A finalizer is called once at most, and no userdata that has one goes before it was called.
THEOREM FinalizersAlwaysRunOnce == Spec => FinalizersRunOnce
  <1>1. Inv /\ [Next]_vars =>
           [\A u \in HasGC : calls[u] <= 1 /\ (u \in heap \ heap' => calls[u] = 1)]_vars
    <2> SUFFICES ASSUME Inv, [Next]_vars, NEW u \in HasGC
                 PROVE  calls[u] <= 1 /\ (u \in heap \ heap' => calls[u] = 1)
      OBVIOUS
    <2>1. /\ calls[u] \in {0, 1}
          /\ u \in finalized \ tmudata => calls[u] = 1
          /\ u \in heap /\ color[u] = "dead" => u \in finalized \ tmudata
      BY DEF Inv, FinalOK
    <2>2. u \in heap \ heap' => color[u] = "dead"
      BY OnlyTheDeadGo
    <2> QED
      BY <2>1, <2>2
  <1> QED
    BY <1>1, CollectorInvariant, PTL DEF Spec, FinalizersRunOnce
=============================================================================
