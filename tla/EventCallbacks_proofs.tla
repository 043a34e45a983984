----------------------- MODULE EventCallbacks_proofs -----------------------
(* Proofs about the stack of lj_L, for any number of threads and interpreters,
   any kinds of events and any nesting of callbacks.

   A callback that ends removes its own frame only because there is the program
   or an interpreter below it (Bottom), and what a two-step call registers is
   the kind it was given (KindFits).

   The stack of lj_L is as long as the list of the callbacks that have a state, in
   the order they began (Recorded); a callback that none before it has left is at
   the same place of both, since only what is behind the one that ends moves up.

   A callback that nothing has come between is the business of its own thread:
   the others have no callback in progress (ApartFits), so that lj_current_thread
   is its thread from SetCurrent on, and what the callback disables stays off. *)
EXTENDS EventCallbacks, SequenceTheorems, FiniteSetTheorems, TLAPS

\* The steps of a callback between the making and the popping of its state.
Within == {"current", "disable_step", "disable_exit", "pop"}

Bottom == \A t \in Threads : frames[t][1].step \in {"java", "lua"}

KindFits ==
  \A t \in Threads : \A d \in DOMAIN frames[t] :
    frames[t][d].step = "set" => frames[t][d].kind \in Kinds

\* began lists the callbacks that have a state, and those not overtaken have it at
\* their place in that list.
Recorded ==
  /\ Len(began) = Len(stack)
  /\ \A i \in DOMAIN began : began[i] \in InProgress
  /\ \A c \in InProgress : \E i \in DOMAIN began : began[i] = c
  /\ \A i, j \in DOMAIN began : began[i] = began[j] => i = j
  /\ \A i \in DOMAIN began : began[i] \in overtaken \/ stack[i] = began[i]

Inv == TypeOK /\ Bottom /\ KindFits /\ IsFiniteSet(InProgress) /\ StackBalanced /\ Recorded

---------------------------------------------------------------------------
(* Sequences *)

LEMMA DomainProperties ==
  ASSUME NEW S, NEW s \in Seq(S), s # <<>>
  PROVE  /\ Len(s) \in Nat /\ Len(s) >= 1 /\ DOMAIN s = 1..Len(s)
         /\ \A i \in 1..Len(s) : s[i] \in S
  <1>1. Len(s) \in Nat /\ s \in [1..Len(s) -> S]
    BY LenProperties
  <1>2. Len(s) # 0
    BY EmptySeq
  <1> QED BY <1>1, <1>2

LEMMA AppendDomain ==
  ASSUME NEW S, NEW s \in Seq(S), NEW e \in S
  PROVE  /\ Append(s, e) \in Seq(S) /\ Append(s, e) # <<>>
         /\ DOMAIN Append(s, e) = 1..(Len(s) + 1) /\ Len(Append(s, e)) = Len(s) + 1
         /\ \A i \in 1..Len(s) : Append(s, e)[i] = s[i]
         /\ Append(s, e)[Len(s) + 1] = e
  BY AppendProperties, LenProperties

LEMMA FrontDomain ==
  ASSUME NEW S, NEW s \in Seq(S), s # <<>>
  PROVE  /\ Front(s) \in Seq(S)
         /\ Len(Front(s)) = Len(s) - 1 /\ DOMAIN Front(s) = 1..(Len(s) - 1)
         /\ \A i \in 1..(Len(s) - 1) : Front(s)[i] = s[i]
  <1>1. /\ Len(s) \in Nat /\ Len(s) >= 1
        /\ \A i \in 1..(Len(s) - 1) : s[i] \in S
    BY DomainProperties
  <1> DEFINE n == Len(s) - 1
  <1>2. 1 \in Int /\ n \in Int /\ n \in Nat
    BY <1>1
  <1>3. \A i \in 1..n : s[i] \in S
    BY <1>1
  <1> HIDE DEF n
  <1>4. /\ SubSeq(s, 1, n) \in Seq(S)
        /\ Len(SubSeq(s, 1, n)) = IF 1 <= n THEN n - 1 + 1 ELSE 0
        /\ \A i \in 1..(n - 1 + 1) : SubSeq(s, 1, n)[i] = s[1 + i - 1]
    BY <1>2, <1>3, SubSeqProperties
  <1>5. Front(s) = SubSeq(s, 1, n)
    BY DEF Front, n
  <1> DEFINE f == Front(s)
  <1>6. f \in Seq(S) /\ Len(f) = n
    BY <1>2, <1>4, <1>5
  <1>7. \A i \in 1..n : f[i] = s[i]
    BY <1>2, <1>4, <1>5
  <1>8. DOMAIN f = 1..n
    BY <1>6, LenProperties
  <1> QED BY <1>6, <1>7, <1>8 DEF n

LEMMA RemoveAtDomain ==
  ASSUME NEW S, NEW s \in Seq(S), NEW i \in DOMAIN s
  PROVE  /\ RemoveAt(s, i) \in Seq(S) /\ Len(RemoveAt(s, i)) = Len(s) - 1
         /\ DOMAIN RemoveAt(s, i) = 1..(Len(s) - 1)
         /\ \A j \in 1..(Len(s) - 1) : RemoveAt(s, i)[j] = IF j < i THEN s[j] ELSE s[j + 1]
  <1> DEFINE n == Len(s)
             a == SubSeq(s, 1, i - 1)
             b == SubSeq(s, i + 1, n)
  <1>1. n \in Nat /\ i \in 1..n /\ \A j \in 1..n : s[j] \in S
    BY LenProperties
  <1> HIDE DEF n
  <1>2. a \in Seq(S) /\ Len(a) = i - 1 /\ \A j \in 1..(i - 1) : a[j] = s[j]
    BY <1>1, SubSeqProperties
  <1>3. b \in Seq(S) /\ Len(b) = n - i /\ \A j \in 1..(n - i) : b[j] = s[i + j]
    BY <1>1, SubSeqProperties
  <1> HIDE DEF a, b
  <1> DEFINE c == a \o b
  <1>4. /\ c \in Seq(S) /\ Len(c) = Len(a) + Len(b)
        /\ \A j \in 1..(Len(a) + Len(b)) : c[j] = IF j <= Len(a) THEN a[j] ELSE b[j - Len(a)]
    BY <1>2, <1>3, ConcatProperties
  <1> HIDE DEF c
  <1>5. /\ Len(c) = n - 1
        /\ \A j \in 1..(n - 1) : c[j] = IF j < i THEN s[j] ELSE s[j + 1]
    <2>1. Len(a) + Len(b) = n - 1
      BY <1>1, <1>2, <1>3
    <2>2. ASSUME NEW j \in 1..(n - 1)
          PROVE  c[j] = IF j < i THEN s[j] ELSE s[j + 1]
      <3>1. CASE j < i
        <4>1. j \in 1..(i - 1) /\ j <= Len(a)
          BY <1>1, <1>2, <3>1
        <4> QED BY <1>2, <1>4, <2>1, <3>1, <4>1
      <3>2. CASE ~(j < i)
        <4>1. j - (i - 1) \in 1..(n - i) /\ ~(j <= Len(a)) /\ i + (j - (i - 1)) = j + 1
          BY <1>1, <1>2, <3>2
        <4>2. c[j] = b[j - (i - 1)]
          BY <1>2, <1>4, <2>1, <4>1
        <4> QED BY <1>3, <3>2, <4>1, <4>2
      <3> QED BY <3>1, <3>2
    <2> QED BY <1>4, <2>1, <2>2
  <1>6. DOMAIN c = 1..(n - 1)
    BY <1>4, <1>5, LenProperties
  <1>7. RemoveAt(s, i) = c
    BY DEF RemoveAt, a, b, c, n
  <1> QED BY <1>4, <1>5, <1>6, <1>7 DEF n
---------------------------------------------------------------------------
(* The callbacks in progress *)

LEMMA InProgressSame ==
  ASSUME NEW t \in Threads, \A u \in Threads \ {t} : frames'[u] = frames[u],
         InCallback(t)' = InCallback(t)
  PROVE  InProgress' = InProgress
  <1>1. \A u \in Threads : InCallback(u)' = InCallback(u)
    BY DEF InCallback
  <1> QED BY <1>1 DEF InProgress

LEMMA InProgressAdded ==
  ASSUME NEW t \in Threads, \A u \in Threads \ {t} : frames'[u] = frames[u],
         NEW d, InCallback(t)' = InCallback(t) \cup {d}
  PROVE  InProgress' = InProgress \cup {<<t, d>>}
  <1>1. \A u \in Threads \ {t} : InCallback(u)' = InCallback(u)
    BY DEF InCallback
  <1> QED BY <1>1 DEF InProgress

LEMMA InProgressRemoved ==
  ASSUME NEW t \in Threads, \A u \in Threads \ {t} : frames'[u] = frames[u],
         NEW d, InCallback(t)' = InCallback(t) \ {d}
  PROVE  InProgress' = InProgress \ {<<t, d>>}
  <1>1. \A u \in Threads \ {t} : InCallback(u)' = InCallback(u)
    BY DEF InCallback
  <1> QED BY <1>1 DEF InProgress

LEMMA InProgressMember ==
  ASSUME NEW t \in Threads, NEW d
  PROVE  <<t, d>> \in InProgress <=> d \in InCallback(t)
  BY DEF InProgress

\* A step within the innermost frame of t.
LEMMA GoOnProperties ==
  ASSUME TypeOK, NEW t \in Threads, NEW step \in Steps, GoOn(t, step)
  PROVE  /\ frames' \in [Threads -> Seq(Frames)]
         /\ \A u \in Threads \ {t} : frames'[u] = frames[u]
         /\ DOMAIN frames'[t] = 1..Depth(t) /\ DOMAIN frames[t] = 1..Depth(t)
         /\ Depth(t) \in Nat /\ Depth(t) >= 1 /\ frames'[t] # <<>>
         /\ \A i \in 1..Depth(t) : i # Depth(t) => frames'[t][i] = frames[t][i]
         /\ frames'[t][Depth(t)] = [step |-> step, kind |-> frames[t][Depth(t)].kind]
  <1> DEFINE s == frames[t]
             n == Len(s)
  <1>1. s \in Seq(Frames) /\ s # <<>>
    BY DEF TypeOK
  <1>2. n \in Nat /\ n >= 1 /\ DOMAIN s = 1..n /\ \A i \in 1..n : s[i] \in Frames
    BY <1>1, DomainProperties
  <1> DEFINE new == [step |-> step, kind |-> s[n].kind]
             r == [s EXCEPT ![n] = new]
  <1>3. s[n] \in Frames /\ s[n] = [step |-> s[n].step, kind |-> s[n].kind] /\ new \in Frames
    BY <1>2 DEF Frames
  <1>4. [s EXCEPT ![n].step = step] = r
    BY <1>2, <1>3
  <1>5. frames' = [frames EXCEPT ![t] = r]
    BY <1>4 DEF GoOn, Depth, TypeOK
  <1>6. /\ r \in [1..n -> Frames]
        /\ \A i \in 1..n : i # n => r[i] = s[i]
        /\ r[n] = new
    BY <1>1, <1>2, <1>3
  <1>7. r \in Seq(Frames) /\ Len(r) = n
    BY <1>2, <1>6, SeqDef, LenProperties
  <1>8. r # <<>> /\ DOMAIN r = 1..n
    BY <1>2, <1>6, <1>7
  <1>9. frames'[t] = r /\ \A u \in Threads \ {t} : frames'[u] = frames[u]
    BY <1>5 DEF TypeOK
  <1>10. frames' \in [Threads -> Seq(Frames)]
    BY <1>5, <1>7 DEF TypeOK
  <1> HIDE DEF r
  <1> QED BY <1>2, <1>6, <1>8, <1>9, <1>10 DEF Depth

\* A step that puts a frame on those of t.
LEMMA PushProperties ==
  ASSUME TypeOK, NEW t \in Threads, NEW f \in Frames,
         frames' = [frames EXCEPT ![t] = Append(@, f)]
  PROVE  /\ frames' \in [Threads -> Seq(Frames)]
         /\ \A u \in Threads \ {t} : frames'[u] = frames[u]
         /\ DOMAIN frames'[t] = 1..(Depth(t) + 1) /\ DOMAIN frames[t] = 1..Depth(t)
         /\ Depth(t) \in Nat /\ Depth(t) >= 1 /\ frames'[t] # <<>>
         /\ \A i \in 1..Depth(t) : frames'[t][i] = frames[t][i]
         /\ frames'[t][Depth(t) + 1] = f
  <1>1. frames[t] \in Seq(Frames) /\ frames[t] # <<>>
    BY DEF TypeOK
  <1>2. frames'[t] = Append(frames[t], f) /\ \A u \in Threads \ {t} : frames'[u] = frames[u]
    BY DEF TypeOK
  <1>3. frames' \in [Threads -> Seq(Frames)]
    BY <1>1, AppendDomain DEF TypeOK
  <1> QED BY <1>1, <1>2, <1>3, AppendDomain, DomainProperties DEF Depth

\* A step that takes the innermost frame of t away.
LEMMA DropProperties ==
  ASSUME TypeOK, NEW t \in Threads, frames' = [frames EXCEPT ![t] = Front(@)]
  PROVE  /\ frames' \in [Threads -> Seq(Frames)]
         /\ \A u \in Threads \ {t} : frames'[u] = frames[u]
         /\ DOMAIN frames'[t] = 1..(Depth(t) - 1) /\ DOMAIN frames[t] = 1..Depth(t)
         /\ Len(frames'[t]) = Depth(t) - 1
         /\ Depth(t) \in Nat /\ Depth(t) >= 1
         /\ \A i \in 1..(Depth(t) - 1) : frames'[t][i] = frames[t][i]
  <1>1. frames[t] \in Seq(Frames) /\ frames[t] # <<>>
    BY DEF TypeOK
  <1>2. frames'[t] = Front(frames[t]) /\ \A u \in Threads \ {t} : frames'[u] = frames[u]
    BY DEF TypeOK
  <1>3. frames' \in [Threads -> Seq(Frames)]
    BY <1>1, FrontDomain DEF TypeOK
  <1> QED BY <1>1, <1>2, <1>3, FrontDomain, DomainProperties DEF Depth

\* A frame that does not count and is not the first one comes or goes.
LEMMA PushQuiet ==
  ASSUME Inv, NEW t \in Threads, NEW k \in Kinds,
         NEW step \in {"set", "clear"}, current' = current, stack' = stack,
         frames' = [frames EXCEPT ![t] = Append(@, [step |-> step, kind |-> k])]
  PROVE  /\ frames' \in [Threads -> Seq(Frames)] /\ \A u \in Threads : frames'[u] # <<>>
         /\ Bottom' /\ KindFits' /\ InProgress' = InProgress
  <1> DEFINE f == [step |-> step, kind |-> k]
  <1>1. f \in Frames
    BY DEF Frames, Steps
  <1>2. /\ frames' \in [Threads -> Seq(Frames)]
        /\ \A u \in Threads \ {t} : frames'[u] = frames[u]
        /\ DOMAIN frames'[t] = 1..(Depth(t) + 1) /\ DOMAIN frames[t] = 1..Depth(t)
        /\ Depth(t) \in Nat /\ Depth(t) >= 1 /\ frames'[t] # <<>>
        /\ \A i \in 1..Depth(t) : frames'[t][i] = frames[t][i]
        /\ frames'[t][Depth(t) + 1] = f
    BY <1>1, PushProperties DEF Inv
  <1>3. f.step = step /\ f.kind = k
    OBVIOUS
  <1> HIDE DEF f
  <1>4. \A u \in Threads : frames'[u] # <<>>
    BY <1>2 DEF Inv, TypeOK
  <1>5. Bottom'
    BY <1>2 DEF Inv, Bottom
  <1>6. KindFits'
    BY <1>2, <1>3 DEF Inv, KindFits
  <1>7. InCallback(t)' = InCallback(t)
    BY <1>2, <1>3 DEF InCallback
  <1>8. InProgress' = InProgress
    BY <1>2, <1>7, InProgressSame
  <1> QED BY <1>2, <1>4, <1>5, <1>6, <1>8

LEMMA DropQuiet ==
  ASSUME Inv, NEW t \in Threads, At(t, "set") \/ At(t, "clear") \/ At(t, "enable"),
         frames' = [frames EXCEPT ![t] = Front(@)]
  PROVE  /\ frames' \in [Threads -> Seq(Frames)] /\ \A u \in Threads : frames'[u] # <<>>
         /\ Bottom' /\ KindFits' /\ InProgress' = InProgress
  <1>1. /\ frames' \in [Threads -> Seq(Frames)]
        /\ \A u \in Threads \ {t} : frames'[u] = frames[u]
        /\ DOMAIN frames'[t] = 1..(Depth(t) - 1) /\ DOMAIN frames[t] = 1..Depth(t)
        /\ Len(frames'[t]) = Depth(t) - 1
        /\ Depth(t) \in Nat /\ Depth(t) >= 1
        /\ \A i \in 1..(Depth(t) - 1) : frames'[t][i] = frames[t][i]
    BY DropProperties DEF Inv
  <1>2. frames[t][Depth(t)].step \in {"set", "clear", "enable"}
    BY DEF At, Last, Depth
  <1>3. Depth(t) > 1
    BY <1>1, <1>2 DEF Inv, Bottom
  <1>4. \A u \in Threads : frames'[u] # <<>>
    BY <1>1, <1>3, EmptySeq DEF Inv, TypeOK
  <1>5. Bottom'
    BY <1>1, <1>3 DEF Inv, Bottom
  <1>6. KindFits'
    BY <1>1 DEF Inv, KindFits
  <1>7. InCallback(t)' = InCallback(t)
    BY <1>1, <1>2 DEF InCallback
  <1>8. InProgress' = InProgress
    BY <1>1, <1>7, InProgressSame
  <1> QED BY <1>1, <1>4, <1>5, <1>6, <1>8

\* The innermost frame of t, which is not the first one, goes on.
LEMMA GoOnQuiet ==
  ASSUME Inv, NEW t \in Threads, NEW step \in Steps \ {"set"}, GoOn(t, step),
         Depth(t) > 1
  PROVE  /\ frames' \in [Threads -> Seq(Frames)] /\ \A u \in Threads : frames'[u] # <<>>
         /\ Bottom' /\ KindFits'
         /\ \A u \in Threads \ {t} : frames'[u] = frames[u]
         /\ InCallback(t)' = IF step \in Within \cup {"lua"}
                             THEN InCallback(t) \cup {Depth(t)}
                             ELSE InCallback(t) \ {Depth(t)}
  <1>1. /\ frames' \in [Threads -> Seq(Frames)]
        /\ \A u \in Threads \ {t} : frames'[u] = frames[u]
        /\ DOMAIN frames'[t] = 1..Depth(t) /\ DOMAIN frames[t] = 1..Depth(t)
        /\ Depth(t) \in Nat /\ Depth(t) >= 1 /\ frames'[t] # <<>>
        /\ \A i \in 1..Depth(t) : i # Depth(t) => frames'[t][i] = frames[t][i]
        /\ frames'[t][Depth(t)] = [step |-> step, kind |-> frames[t][Depth(t)].kind]
    BY GoOnProperties DEF Inv
  <1>2. frames'[t][Depth(t)].step = step
    BY <1>1
  <1>3. \A u \in Threads : frames'[u] # <<>>
    BY <1>1 DEF Inv, TypeOK
  <1>4. Bottom'
    BY <1>1 DEF Inv, Bottom
  <1>5. KindFits'
    BY <1>1, <1>2 DEF Inv, KindFits
  <1>6. InCallback(t)' = IF step \in Within \cup {"lua"}
                         THEN InCallback(t) \cup {Depth(t)}
                         ELSE InCallback(t) \ {Depth(t)}
    BY <1>1, <1>2 DEF InCallback, Within
  <1> QED BY <1>1, <1>3, <1>4, <1>5, <1>6

---------------------------------------------------------------------------
(* The invariant *)

\* A thread in a callback has something below it.
LEMMA Below ==
  ASSUME Inv, NEW t \in Threads, NEW step, At(t, step), step \notin {"java", "lua"}
  PROVE  /\ Depth(t) \in Nat /\ Depth(t) > 1 /\ Depth(t) \in DOMAIN frames[t]
         /\ frames[t][Depth(t)].step = step
  <1>1. /\ Len(frames[t]) \in Nat /\ Len(frames[t]) >= 1
        /\ DOMAIN frames[t] = 1..Len(frames[t])
    BY DomainProperties DEF Inv, TypeOK
  <1>2. frames[t][Depth(t)].step = step
    BY DEF At, Last, Depth
  <1> QED BY <1>1, <1>2 DEF Inv, Bottom, Depth

LEMMA CurrentType ==
  ASSUME TypeOK, NEW t \in Threads
  PROVE  CurrentThread(t) \in Threads
  BY CallbacksAssumption DEF TypeOK, CurrentThread

\* Steps between the making and the popping of the state.
LEMMA WithinInv ==
  ASSUME Inv, NEW t \in Threads,
         \/ SetCurrent(t) \/ DisableSingleStep(t) \/ DisableMethodExit(t) \/ LuaReturns(t)
  PROVE  Inv'
  <1>1. PICK step \in {"disable_step", "disable_exit", "lua", "pop"} : GoOn(t, step)
    BY DEF SetCurrent, DisableSingleStep, DisableMethodExit, LuaReturns
  <1>2. Depth(t) > 1 /\ Depth(t) \in InCallback(t)
    <2>1. CASE LuaReturns(t)
      <3>1. Depth(t) > 1 /\ frames[t][Depth(t)].step = "lua"
        BY <2>1 DEF LuaReturns, At, Last, Depth
      <3>2. Depth(t) \in DOMAIN frames[t]
        BY <3>1, DomainProperties DEF Inv, TypeOK, Depth
      <3> QED BY <3>1, <3>2 DEF InCallback
    <2>2. CASE ~LuaReturns(t)
      <3>1. PICK now \in {"current", "disable_step", "disable_exit"} : At(t, now)
        BY <2>2 DEF SetCurrent, DisableSingleStep, DisableMethodExit
      <3> QED BY <3>1, Below DEF InCallback
    <2> QED BY <2>1, <2>2
  <1>3. step \in Steps \ {"set"} /\ step \in Within \cup {"lua"}
    BY DEF Steps, Within
  <1>4. /\ frames' \in [Threads -> Seq(Frames)] /\ \A u \in Threads : frames'[u] # <<>>
        /\ Bottom' /\ KindFits'
        /\ \A u \in Threads \ {t} : frames'[u] = frames[u]
        /\ InCallback(t)' = InCallback(t)
    BY <1>1, <1>2, <1>3, GoOnQuiet
  <1>5. InProgress' = InProgress
    BY <1>4, InProgressSame
  <1>6. UNCHANGED <<stack, registered, began, overtaken, apart>>
    BY DEF SetCurrent, DisableSingleStep, DisableMethodExit, LuaReturns, history
  <1>7. current' \in Threads \cup {Nil}
    BY DEF SetCurrent, DisableSingleStep, DisableMethodExit, LuaReturns, Inv, TypeOK
  <1>8. enabled' \in [Threads -> SUBSET (Kinds \cap PerThread)]
    BY CurrentType DEF SetCurrent, DisableSingleStep, DisableMethodExit, LuaReturns, Inv, TypeOK
  <1>9. TypeOK'
    BY <1>4, <1>6, <1>7, <1>8 DEF Inv, TypeOK
  <1>10. IsFiniteSet(InProgress)' /\ StackBalanced' /\ Recorded'
    BY <1>5, <1>6 DEF Inv, StackBalanced, Recorded
  <1> QED BY <1>4, <1>9, <1>10 DEF Inv

\* A callback makes its state.
LEMMA OccursInv ==
  ASSUME Inv, NEW t \in Threads, NEW k \in Kinds, EventOccurs(t, k)
  PROVE  Inv'
  <1> DEFINE f == [step |-> "current", kind |-> Nil]
             n == Depth(t) + 1
  <1>1. f \in Frames
    BY DEF Frames, Steps
  <1>2. /\ frames' \in [Threads -> Seq(Frames)]
        /\ \A u \in Threads \ {t} : frames'[u] = frames[u]
        /\ DOMAIN frames'[t] = 1..(Depth(t) + 1) /\ DOMAIN frames[t] = 1..Depth(t)
        /\ Depth(t) \in Nat /\ Depth(t) >= 1 /\ frames'[t] # <<>>
        /\ \A i \in 1..Depth(t) : frames'[t][i] = frames[t][i]
        /\ frames'[t][Depth(t) + 1] = f
    BY <1>1, PushProperties DEF Inv, EventOccurs
  <1>3. f.step = "current"
    OBVIOUS
  <1> HIDE DEF f
  <1>4. Bottom'
    BY <1>2 DEF Inv, Bottom
  <1>5. KindFits'
    BY <1>2, <1>3 DEF Inv, KindFits
  <1>6. InCallback(t)' = InCallback(t) \cup {n} /\ n \notin InCallback(t)
    BY <1>2, <1>3 DEF InCallback
  <1>7. InProgress' = InProgress \cup {<<t, n>>} /\ <<t, n>> \notin InProgress
    BY <1>2, <1>6, InProgressAdded, InProgressMember
  <1>8. stack' = Append(stack, <<t, n>>) /\ <<t, n>> \in Threads \X Nat
    BY <1>2 DEF EventOccurs
  <1> HIDE DEF n
  <1>9. stack' \in Seq(Threads \X Nat) /\ Len(stack') = Len(stack) + 1
    BY <1>8, AppendProperties DEF Inv, TypeOK
  <1>10. IsFiniteSet(InProgress') /\ Cardinality(InProgress') = Cardinality(InProgress) + 1
    BY <1>7, FS_AddElement DEF Inv
  <1>11. StackBalanced'
    BY <1>9, <1>10 DEF Inv, StackBalanced
  <1>12. /\ began' \in Seq(Threads \X Nat) /\ Len(began') = Len(began) + 1
         /\ DOMAIN began = 1..Len(began) /\ DOMAIN began' = 1..(Len(began) + 1)
         /\ \A i \in 1..Len(began) : began'[i] = began[i]
         /\ began'[Len(began) + 1] = <<t, n>> /\ Len(began) \in Nat
    BY <1>8, AppendDomain, LenProperties DEF Inv, TypeOK, EventOccurs, n
  <1>13. /\ \A i \in 1..Len(stack) : stack'[i] = stack[i]
         /\ stack'[Len(stack) + 1] = <<t, n>>
    BY <1>8, AppendDomain DEF Inv, TypeOK
  <1>14. overtaken' = overtaken /\ apart' \subseteq apart \cup {<<t, n>>}
    BY DEF EventOccurs, OwnApart, n
  <1>15. TypeOK'
    BY <1>2, <1>8, <1>9, <1>12, <1>14 DEF Inv, TypeOK, EventOccurs
  <1>16. Recorded'
    <2>1. Len(began') = Len(stack')
      BY <1>9, <1>12 DEF Inv, Recorded
    <2> DEFINE m == Len(began) + 1
    <2>5. /\ \A i \in DOMAIN began : began[i] \in InProgress
          /\ \A c \in InProgress : \E i \in DOMAIN began : began[i] = c
          /\ \A i, j \in DOMAIN began : began[i] = began[j] => i = j
      BY DEF Inv, Recorded
    <2>6. /\ DOMAIN began' = DOMAIN began \cup {m} /\ m \notin DOMAIN began
          /\ \A i \in DOMAIN began : began'[i] = began[i]
          /\ began'[m] = <<t, n>>
      BY <1>12
    <2> HIDE DEF m
    <2>2. /\ \A i \in DOMAIN began' : began'[i] \in InProgress'
          /\ \A c \in InProgress' : \E i \in DOMAIN began' : began'[i] = c
      BY <1>7, <2>5, <2>6
    <2>3. \A i, j \in DOMAIN began' : began'[i] = began'[j] => i = j
      BY <1>7, <2>5, <2>6
    <2>4. \A i \in DOMAIN began' : began'[i] \in overtaken' \/ stack'[i] = began'[i]
      BY <1>12, <1>13, <1>14 DEF Inv, Recorded
    <2> QED BY <2>1, <2>2, <2>3, <2>4 DEF Recorded
  <1> QED BY <1>4, <1>5, <1>10, <1>11, <1>15, <1>16 DEF Inv

\* What is recorded of a callback that pops a state: it leaves the list, and those
\* behind it move up and are overtaken.
LEMMA PoppedProperties ==
  ASSUME Inv, NEW t \in Threads, Innermost(t) \in InProgress, Popped(t)
  PROVE  \E i \in 1..Len(began) :
           /\ began[i] = Innermost(t) /\ Len(began) \in Nat
           /\ began' \in Seq(Threads \X Nat) /\ Len(began') = Len(began) - 1
           /\ DOMAIN began = 1..Len(began) /\ DOMAIN began' = 1..(Len(began) - 1)
           /\ \A j \in 1..(Len(began) - 1) :
                began'[j] = IF j < i THEN began[j] ELSE began[j + 1]
           /\ overtaken' = (overtaken \cup {began[j] : j \in (i + 1)..Len(began)})
                           \ {Innermost(t)}
  <1> DEFINE i == CHOOSE k \in DOMAIN began : began[k] = Innermost(t)
  <1>1. i \in DOMAIN began /\ began[i] = Innermost(t)
    BY DEF Inv, Recorded
  <1>2. /\ began' = RemoveAt(began, i)
        /\ overtaken' = (overtaken \cup {began[j] : j \in (i + 1)..Len(began)})
                        \ {Innermost(t)}
    BY DEF Popped
  <1> HIDE DEF i
  <1>3. began \in Seq(Threads \X Nat) /\ DOMAIN began = 1..Len(began) /\ Len(began) \in Nat
    BY LenProperties DEF Inv, TypeOK
  <1> QED BY <1>1, <1>2, <1>3, RemoveAtDomain

\* A callback pops one.
LEMMA PopInv ==
  ASSUME Inv, NEW t \in Threads, PopState(t)
  PROVE  Inv'
  <1>1. /\ Depth(t) \in Nat /\ Depth(t) > 1 /\ Depth(t) \in DOMAIN frames[t]
        /\ frames[t][Depth(t)].step = "pop"
    BY Below DEF PopState
  <1>2. Depth(t) \in InCallback(t)
    BY <1>1 DEF InCallback
  <1>3. /\ frames' \in [Threads -> Seq(Frames)] /\ \A u \in Threads : frames'[u] # <<>>
        /\ Bottom' /\ KindFits'
        /\ \A u \in Threads \ {t} : frames'[u] = frames[u]
        /\ InCallback(t)' = InCallback(t) \ {Depth(t)}
    BY <1>1, GoOnQuiet DEF PopState, Steps, Within
  <1>4. InProgress' = InProgress \ {<<t, Depth(t)>>} /\ <<t, Depth(t)>> \in InProgress
    BY <1>2, <1>3, InProgressRemoved, InProgressMember
  <1>5. IsFiniteSet(InProgress') /\ Cardinality(InProgress') = Cardinality(InProgress) - 1
    BY <1>4, FS_RemoveElement DEF Inv
  <1>6. stack # <<>>
    <2>1. Cardinality(InProgress) # 0
      BY <1>4, FS_EmptySet DEF Inv
    <2> QED BY <2>1, EmptySeq DEF Inv, StackBalanced
  <1>7. /\ stack' \in Seq(Threads \X Nat) /\ Len(stack') = Len(stack) - 1
        /\ \A j \in 1..(Len(stack) - 1) : stack'[j] = stack[j]
    BY <1>6, FrontDomain DEF Inv, TypeOK, PopState
  <1>8. StackBalanced'
    BY <1>5, <1>7 DEF Inv, StackBalanced
  <1>9. PICK i \in 1..Len(began) :
          /\ began[i] = Innermost(t) /\ Len(began) \in Nat
          /\ began' \in Seq(Threads \X Nat) /\ Len(began') = Len(began) - 1
          /\ DOMAIN began = 1..Len(began) /\ DOMAIN began' = 1..(Len(began) - 1)
          /\ \A j \in 1..(Len(began) - 1) :
               began'[j] = IF j < i THEN began[j] ELSE began[j + 1]
          /\ overtaken' = (overtaken \cup {began[j] : j \in (i + 1)..Len(began)})
                          \ {Innermost(t)}
    BY <1>4, PoppedProperties DEF PopState, Innermost
  <1>10. \A j \in 1..Len(began) : began[j] \in Threads \X Nat
    BY LenProperties DEF Inv, TypeOK
  <1>11. TypeOK'
    <2>1. overtaken' \subseteq Threads \X Nat
      <3>1. {began[j] : j \in (i + 1)..Len(began)} \subseteq Threads \X Nat
        BY <1>9, <1>10
      <3> QED BY <1>9, <3>1 DEF Inv, TypeOK
    <2> QED BY <1>3, <1>7, <1>9, <2>1 DEF Inv, TypeOK, PopState
  <1>12. Recorded'
    <2>1. Len(began') = Len(stack')
      BY <1>7, <1>9 DEF Inv, Recorded
    <2>2. \A j \in DOMAIN began' :
            \E k \in 1..Len(began) \ {i} : began'[j] = began[k] /\ k = IF j < i THEN j ELSE j + 1
      BY <1>9
    <2>3. \A k \in 1..Len(began) \ {i} :
            \E j \in DOMAIN began' : began'[j] = began[k] /\ k = IF j < i THEN j ELSE j + 1
      <3> TAKE k \in 1..Len(began) \ {i}
      <3>1. CASE k < i
        <4>1. k \in DOMAIN began' /\ began'[k] = began[k]
          BY <1>9, <3>1
        <4> QED BY <3>1, <4>1
      <3>2. CASE k > i
        <4>1. k - 1 \in DOMAIN began' /\ ~(k - 1 < i) /\ k = (k - 1) + 1
          BY <1>9, <3>2
        <4> QED BY <1>9, <4>1
      <3> QED BY <3>1, <3>2
    <2>4. \A k \in 1..Len(began) \ {i} : began[k] # Innermost(t)
      BY <1>9 DEF Inv, Recorded
    <2>5. \A j \in DOMAIN began' : began'[j] \in InProgress'
      BY <1>4, <1>9, <2>2, <2>4 DEF Inv, Recorded, Innermost
    <2>6. \A c \in InProgress' : \E j \in DOMAIN began' : began'[j] = c
      <3> TAKE c \in InProgress'
      <3>1. c \in InProgress /\ c # Innermost(t)
        BY <1>4 DEF Innermost
      <3>2. PICK k \in DOMAIN began : began[k] = c
        BY <3>1 DEF Inv, Recorded
      <3>3. k \in 1..Len(began) \ {i}
        BY <1>9, <3>1, <3>2
      <3> QED BY <2>3, <3>2, <3>3
    <2>7. \A j, k \in DOMAIN began' : began'[j] = began'[k] => j = k
      <3> TAKE j, k \in DOMAIN began'
      <3>1. PICK x \in 1..Len(began) \ {i} :
              began'[j] = began[x] /\ x = IF j < i THEN j ELSE j + 1
        BY <2>2
      <3>2. PICK y \in 1..Len(began) \ {i} :
              began'[k] = began[y] /\ y = IF k < i THEN k ELSE k + 1
        BY <2>2
      <3>3. began'[j] = began'[k] => x = y
        BY <1>9, <3>1, <3>2 DEF Inv, Recorded
      <3>4. x = y => j = k
        BY <1>9, <3>1, <3>2
      <3> QED BY <3>3, <3>4
    <2>8. \A j \in DOMAIN began' : began'[j] \in overtaken' \/ stack'[j] = began'[j]
      <3> TAKE j \in DOMAIN began'
      <3>1. CASE j < i
        <4>1. began'[j] = began[j] /\ j \in 1..Len(began) \ {i} /\ j \in 1..(Len(stack) - 1)
          BY <1>9, <3>1 DEF Inv, Recorded
        <4>2. stack'[j] = stack[j] /\ began[j] # Innermost(t)
          BY <1>7, <2>4, <4>1
        <4>3. began[j] \in overtaken \/ stack[j] = began[j]
          BY <1>9, <4>1 DEF Inv, Recorded
        <4> QED BY <1>9, <4>1, <4>2, <4>3
      <3>2. CASE ~(j < i)
        <4>1. j + 1 \in (i + 1)..Len(began) /\ began'[j] = began[j + 1]
          BY <1>9, <3>2
        <4>2. began[j + 1] # Innermost(t)
          BY <2>4, <4>1
        <4> QED BY <1>9, <4>1, <4>2
      <3> QED BY <3>1, <3>2
    <2> QED BY <2>1, <2>5, <2>6, <2>7, <2>8 DEF Recorded
  <1> QED BY <1>3, <1>5, <1>8, <1>11, <1>12 DEF Inv

\* A callback returns, and functions are registered and cleared.
LEMMA RegistrationInv ==
  ASSUME Inv, NEW t \in Threads,
         \/ EnableAndReturn(t) \/ SetRegisters(t) \/ ClearUnregisters(t)
         \/ \E k \in Registrable : SetEnables(t, k) \/ ClearDisables(t, k)
  PROVE  Inv'
  <1>1. /\ frames' \in [Threads -> Seq(Frames)] /\ \A u \in Threads : frames'[u] # <<>>
        /\ Bottom' /\ KindFits' /\ InProgress' = InProgress
        /\ registered' \subseteq Kinds
        /\ enabled' \in [Threads -> SUBSET (Kinds \cap PerThread)]
    <2> USE DEF Inv, TypeOK
    <2>1. CASE EnableAndReturn(t)
      <3>1. ToEnable \subseteq Kinds \cap PerThread
        BY DEF ToEnable, PerThread, Stepping
      <3>2. enabled' \in [Threads -> SUBSET (Kinds \cap PerThread)]
        BY <2>1, <3>1, CurrentType DEF EnableAndReturn
      <3> QED BY <2>1, <3>2, DropQuiet DEF EnableAndReturn
    <2>2. CASE SetRegisters(t)
      <3>1. /\ Depth(t) \in DOMAIN frames[t] /\ frames[t][Depth(t)].step = "set"
        BY <2>2, Below DEF SetRegisters
      <3>2. Last(frames[t]).kind \in Kinds
        BY <3>1 DEF KindFits, Last, Depth
      <3> QED BY <2>2, <3>2, DropQuiet DEF SetRegisters
    <2>3. CASE ClearUnregisters(t)
      BY <2>3, DropQuiet DEF ClearUnregisters
    <2>4. ASSUME NEW k \in Registrable, SetEnables(t, k)
          PROVE  /\ frames' \in [Threads -> Seq(Frames)] /\ \A u \in Threads : frames'[u] # <<>>
                 /\ Bottom' /\ KindFits' /\ InProgress' = InProgress
                 /\ registered' \subseteq Kinds
                 /\ enabled' \in [Threads -> SUBSET (Kinds \cap PerThread)]
      <3>1. k \in Kinds \cap PerThread
        BY CallbacksAssumption
      <3>2. enabled' \in [Threads -> SUBSET (Kinds \cap PerThread)]
        BY <2>4, <3>1, CurrentType DEF SetEnables
      <3> QED BY <2>4, <3>1, <3>2, PushQuiet DEF SetEnables
    <2>5. ASSUME NEW k \in Registrable, ClearDisables(t, k)
          PROVE  /\ frames' \in [Threads -> Seq(Frames)] /\ \A u \in Threads : frames'[u] # <<>>
                 /\ Bottom' /\ KindFits' /\ InProgress' = InProgress
                 /\ registered' \subseteq Kinds
                 /\ enabled' \in [Threads -> SUBSET (Kinds \cap PerThread)]
      <3>1. k \in Kinds \cap PerThread
        BY CallbacksAssumption
      <3>2. enabled' \in [Threads -> SUBSET (Kinds \cap PerThread)]
        BY <2>5, CurrentType DEF ClearDisables
      <3> QED BY <2>5, <3>1, <3>2, PushQuiet DEF ClearDisables
    <2> QED BY <2>1, <2>2, <2>3, <2>4, <2>5
  <1>2. UNCHANGED <<stack, current, began, overtaken>> /\ apart' \subseteq apart
    BY DEF EnableAndReturn, SetRegisters, ClearUnregisters, SetEnables, ClearDisables,
       OwnApart, history
  <1>3. TypeOK'
    BY <1>1, <1>2 DEF Inv, TypeOK
  <1>4. StackBalanced' /\ Recorded' /\ IsFiniteSet(InProgress)'
    BY <1>1, <1>2 DEF Inv, StackBalanced, Recorded
  <1> QED BY <1>1, <1>3, <1>4 DEF Inv

LEMMA InitInv == Init => Inv
  <1> SUFFICES ASSUME Init PROVE Inv
    OBVIOUS
  <1> DEFINE bottom(t) == [step |-> IF t \in Interpreters THEN "lua" ELSE "java", kind |-> Nil]
  <1>1. \A t \in Threads : bottom(t) \in Frames
    BY DEF Frames, Steps
  <1>2. \A t \in Threads : frames[t] = <<bottom(t)>>
    BY DEF Init
  <1>3. frames \in [Threads -> Seq(Frames)] /\ \A t \in Threads : frames[t] # <<>>
    BY <1>1 DEF Init
  <1>4. \A t \in Threads : /\ DOMAIN frames[t] = 1..1
                           /\ frames[t][1].step \in {"java", "lua"}
                           /\ frames[t][1].step # "set"
    <2>1. \A t \in Threads : DOMAIN frames[t] = 1..1 /\ frames[t][1] = bottom(t)
      BY <1>2
    <2>2. \A t \in Threads : bottom(t).step \in {"java", "lua"}
      OBVIOUS
    <2> QED BY <2>1, <2>2
  <1>5. Bottom /\ KindFits
    BY <1>4 DEF Bottom, KindFits
  <1>6. \A t \in Threads : InCallback(t) = {}
    BY <1>4 DEF InCallback
  <1>7. InProgress = {}
    BY <1>6 DEF InProgress
  <1>8. IsFiniteSet(InProgress) /\ StackBalanced /\ Recorded
    BY <1>7, FS_EmptySet DEF Init, StackBalanced, Recorded
  <1>9. TypeOK
    BY <1>3, CallbacksAssumption DEF Init, TypeOK
  <1> QED BY <1>5, <1>8, <1>9 DEF Inv

THEOREM Invariance == Spec => []Inv
  <1>1. Inv /\ [Next]_vars => Inv'
    <2> SUFFICES ASSUME Inv, [Next]_vars PROVE Inv'
      OBVIOUS
    <2>1. CASE UNCHANGED vars
      <3>1. InProgress' = InProgress
        BY <2>1 DEF vars, InProgress, InCallback
      <3>2. Recorded' /\ StackBalanced' /\ IsFiniteSet(InProgress)'
        BY <2>1, <3>1 DEF vars, history, Inv, StackBalanced, Recorded
      <3> QED BY <2>1, <3>2 DEF vars, history, Inv, TypeOK, Bottom, KindFits, Depth
    <2>2. ASSUME NEW t \in Threads,
                 \/ CallbackStep(t)
                 \/ \E k \in Kinds : EventOccurs(t, k)
                 \/ \E k \in Registrable : SetEnables(t, k) \/ ClearDisables(t, k)
          PROVE  Inv'
      BY <2>2, WithinInv, OccursInv, PopInv, RegistrationInv DEF CallbackStep
    <2> QED BY <2>1, <2>2 DEF Next
  <1> QED BY <1>1, InitInv, PTL DEF Spec

---------------------------------------------------------------------------
(* Theorems *)

\* Types of the frames, the stack and the events, however callbacks nest.
THEOREM TypeCorrect == Spec => []TypeOK
  BY Invariance, PTL DEF Inv

\* Whatever the order in which threads enter and leave their callbacks and
\* whatever is registered in them, the stack of lj_L holds as many states as
\* there are callbacks in progress: it neither grows nor underflows.
THEOREM StackIsBalanced == Spec => []StackBalanced
  BY Invariance, PTL DEF Inv

\* Whatever the order in which the callbacks of all threads begin and end, one has
\* its state on the stack of lj_L, at its place in the order they began in, until
\* a callback that began before it ends.
THEOREM KeptUntilOvertaken == Spec => []KeptUnlessOvertaken
  <1>1. Inv => KeptUnlessOvertaken
    <2> SUFFICES ASSUME Inv, NEW c \in InProgress \ overtaken
                 PROVE  c \in ToSet(stack)
      BY DEF KeptUnlessOvertaken
    <2>1. PICK i \in DOMAIN began : began[i] = c
      BY DEF Inv, Recorded
    <2>2. stack[i] = c
      BY <2>1 DEF Inv, Recorded
    <2>3. i \in DOMAIN stack
      BY LenProperties DEF Inv, TypeOK, Recorded
    <2> QED BY <2>2, <2>3 DEF ToSet
  <1> QED BY <1>1, Invariance, PTL
---------------------------------------------------------------------------
(* A callback that nothing comes between *)

\* How far a callback of t at depth d is: lj_current_thread is t from SetCurrent
\* on, and what has been turned off is off.
Apart(t, d) ==
  /\ d \in DOMAIN frames[t] /\ d > 1
  /\ frames[t][d].step \in Within \cup {"lua", "enable"}
  /\ frames[t][d].step # "current" => current = t
  /\ frames[t][d].step = "disable_exit" => "single_step" \notin enabled[t]
  /\ frames[t][d].step = "lua" => enabled[t] \cap Stepping = {}

\* The other threads are in no callback and register nothing.
ApartFits ==
  \A c \in apart :
    /\ Apart(c[1], c[2])
    /\ \A u \in Threads \ {c[1]} : Depth(u) = 1

ApartInv == Inv /\ ApartFits

\* Names are pairs of a thread and a depth.
LEMMA ApartType ==
  ASSUME Inv, NEW c \in apart
  PROVE  c[1] \in Threads /\ c[2] \in Nat /\ c = <<c[1], c[2]>>
  BY DEF Inv, TypeOK

\* The depth of the threads that do nothing.
LEMMA DepthOfOthers ==
  ASSUME NEW t, \A u \in Threads \ {t} : frames'[u] = frames[u]
  PROVE  \A u \in Threads \ {t} : Depth(u)' = Depth(u)
  BY DEF Depth

\* While a thread is in a callback, only its own callbacks are apart.
LEMMA OnlyOwn ==
  ASSUME ApartInv, NEW t \in Threads, Depth(t) > 1
  PROVE  \A c \in apart : c[1] = t
  <1>1. Depth(t) # 1
    OBVIOUS
  <1> QED BY <1>1, ApartType DEF ApartInv, ApartFits

LEMMA ApartWithin ==
  ASSUME ApartInv, NEW t \in Threads,
         \/ SetCurrent(t) \/ DisableSingleStep(t) \/ DisableMethodExit(t)
         \/ LuaReturns(t) \/ PopState(t)
  PROVE  ApartFits'
  <1>1. PICK step \in {"disable_step", "disable_exit", "lua", "pop", "enable"} : GoOn(t, step)
    BY DEF SetCurrent, DisableSingleStep, DisableMethodExit, LuaReturns, PopState
  <1>2. Depth(t) > 1
    BY Below DEF ApartInv, SetCurrent, DisableSingleStep, DisableMethodExit, LuaReturns, PopState
  <1>3. /\ \A u \in Threads \ {t} : frames'[u] = frames[u]
        /\ DOMAIN frames'[t] = 1..Depth(t) /\ DOMAIN frames[t] = 1..Depth(t)
        /\ Depth(t) \in Nat
        /\ \A i \in 1..Depth(t) : i # Depth(t) => frames'[t][i] = frames[t][i]
        /\ frames'[t][Depth(t)] = [step |-> step, kind |-> frames[t][Depth(t)].kind]
    BY <1>1, GoOnProperties DEF ApartInv, Inv, Steps
  <1>4. apart' = apart
    BY DEF SetCurrent, DisableSingleStep, DisableMethodExit, LuaReturns, PopState, history
  <1>5. \A c \in apart : c[1] = t
    BY <1>2, OnlyOwn
  <1>6. /\ enabled'[t] \subseteq enabled[t]
        /\ \A c \in apart : current = t \/ frames[t][c[2]].step = "current"
        /\ current' \in {t, current}
    BY <1>5 DEF SetCurrent, DisableSingleStep, DisableMethodExit, LuaReturns, PopState,
       ApartInv, ApartFits, Apart, Inv, TypeOK
  <1>7. At(t, "current") \/ At(t, "disable_step") \/ At(t, "disable_exit") \/ At(t, "lua")
        \/ At(t, "pop")
    BY DEF SetCurrent, DisableSingleStep, DisableMethodExit, LuaReturns, PopState
  <1>8. ASSUME NEW c \in apart
        PROVE  Apart(t, c[2])'
    <2>1. Apart(t, c[2])
      BY <1>5 DEF ApartInv, ApartFits
    <2>2. CASE c[2] # Depth(t)
      BY <1>3, <1>6, <2>1, <2>2 DEF Apart
    <2>3. CASE c[2] = Depth(t)
      <3>1. frames'[t][c[2]].step = step
        BY <1>3, <2>3
      <3>2. frames[t][c[2]].step = Last(frames[t]).step
        BY <2>3 DEF Last, Depth
      <3>3. current' = t
        BY <2>1, <3>2 DEF Apart, At, SetCurrent, DisableSingleStep, DisableMethodExit,
           LuaReturns, PopState
      <3>4. step = "disable_exit" => "single_step" \notin enabled'[t]
        <4>1. CASE DisableSingleStep(t)
          BY <2>1, <3>2, <4>1 DEF Apart, At, DisableSingleStep, CurrentThread, ApartInv, Inv,
             TypeOK
        <4>2. ASSUME step = "disable_exit", ~DisableSingleStep(t)
              PROVE  FALSE
          <5>1. PICK other \in {"disable_step", "lua", "pop", "enable"} : GoOn(t, other)
            BY <4>2 DEF SetCurrent, DisableMethodExit, LuaReturns, PopState
          <5>2. frames'[t][Depth(t)] = [step |-> other, kind |-> frames[t][Depth(t)].kind]
            BY <5>1, GoOnProperties DEF ApartInv, Inv, Steps
          <5> QED BY <1>3, <4>2, <5>2
        <4> QED BY <4>1, <4>2
      <3>5. step = "lua" => enabled'[t] \cap Stepping = {}
        <4>1. CASE DisableMethodExit(t)
          BY <2>1, <3>2, <4>1 DEF Apart, At, DisableMethodExit, CurrentThread, ApartInv, Inv,
             TypeOK, Stepping
        <4>2. ASSUME step = "lua", ~DisableMethodExit(t)
              PROVE  FALSE
          <5>1. PICK other \in {"disable_step", "disable_exit", "pop", "enable"} : GoOn(t, other)
            BY <4>2 DEF SetCurrent, DisableSingleStep, LuaReturns, PopState
          <5>2. frames'[t][Depth(t)] = [step |-> other, kind |-> frames[t][Depth(t)].kind]
            BY <5>1, GoOnProperties DEF ApartInv, Inv, Steps
          <5> QED BY <1>3, <4>2, <5>2
        <4> QED BY <4>1, <4>2
      <3> QED BY <1>3, <2>1, <3>1, <3>3, <3>4, <3>5 DEF Apart, Within
    <2> QED BY <2>2, <2>3
  <1>9. \A u \in Threads \ {t} : Depth(u)' = Depth(u)
    BY <1>3, DepthOfOthers
  <1> QED BY <1>4, <1>5, <1>8, <1>9 DEF ApartInv, ApartFits

LEMMA ApartOccurs ==
  ASSUME ApartInv, NEW t \in Threads, NEW k \in Kinds, EventOccurs(t, k)
  PROVE  ApartFits'
  <1> DEFINE f == [step |-> "current", kind |-> Nil]
  <1>0. PICK n \in Nat : n = Depth(t) + 1
    BY DomainProperties DEF ApartInv, Inv, TypeOK, Depth
  <1>1. f \in Frames /\ f.step = "current"
    BY DEF Frames, Steps
  <1>2. frames' = [frames EXCEPT ![t] = Append(@, f)]
    BY DEF EventOccurs
  <1> HIDE DEF f
  <1>3. /\ \A u \in Threads \ {t} : frames'[u] = frames[u]
        /\ DOMAIN frames'[t] = 1..n /\ DOMAIN frames[t] = 1..Depth(t)
        /\ Depth(t) \in Nat /\ Depth(t) >= 1
        /\ \A i \in 1..Depth(t) : frames'[t][i] = frames[t][i]
        /\ frames'[t][n] = f
    BY <1>0, <1>1, <1>2, PushProperties DEF ApartInv, Inv
  <1>4. \A u \in Threads \ {t} : Depth(u)' = Depth(u)
    BY <1>3, DepthOfOthers
  <1>5. UNCHANGED <<current, enabled>>
    BY DEF EventOccurs
  <1>6. ASSUME NEW c \in OwnApart(t)
        PROVE  c[1] = t /\ Apart(t, c[2])' /\ \A u \in Threads \ {t} : Depth(u) = 1
    <2>1. c \in apart /\ c[1] = t
      BY DEF OwnApart
    <2>2. Apart(t, c[2]) /\ \A u \in Threads \ {t} : Depth(u) = 1
      BY <2>1 DEF ApartInv, ApartFits
    <2> QED BY <1>0, <1>3, <1>5, <2>1, <2>2 DEF Apart
  <1>7. Apart(t, n)'
    BY <1>0, <1>1, <1>3 DEF Apart, Within
  <1>8. \A c \in apart' : \/ c \in OwnApart(t)
                          \/ c = <<t, n>> /\ \A u \in Threads \ {t} : Depth(u) = 1
    BY <1>0 DEF EventOccurs
  <1> QED BY <1>4, <1>6, <1>7, <1>8 DEF ApartFits

LEMMA ApartRegisters ==
  ASSUME ApartInv, NEW t \in Threads,
         \/ EnableAndReturn(t) \/ SetRegisters(t) \/ ClearUnregisters(t)
         \/ \E k \in Registrable : SetEnables(t, k) \/ ClearDisables(t, k)
  PROVE  ApartFits'
  <1>1. CASE apart' = {}
    BY <1>1 DEF ApartFits
  <1>2. CASE SetRegisters(t) \/ ClearUnregisters(t)
    <2>1. PICK now \in {"set", "clear"} : At(t, now)
      BY <1>2 DEF SetRegisters, ClearUnregisters
    <2>2. Depth(t) > 1 /\ frames[t][Depth(t)].step \in {"set", "clear"}
      BY <2>1, Below DEF ApartInv
    <2>3. /\ \A u \in Threads \ {t} : frames'[u] = frames[u]
          /\ DOMAIN frames'[t] = 1..(Depth(t) - 1) /\ DOMAIN frames[t] = 1..Depth(t)
          /\ Depth(t) \in Nat
          /\ \A i \in 1..(Depth(t) - 1) : frames'[t][i] = frames[t][i]
      BY <1>2, DropProperties DEF SetRegisters, ClearUnregisters, ApartInv, Inv
    <2>4. UNCHANGED <<current, enabled, apart>>
      BY <1>2 DEF SetRegisters, ClearUnregisters, history
    <2>5. \A c \in apart : c[1] = t
      BY <2>2, OnlyOwn
    <2>6. ASSUME NEW c \in apart
          PROVE  Apart(t, c[2])'
      <3>1. Apart(t, c[2])
        BY <2>5 DEF ApartInv, ApartFits
      <3>2. c[2] # Depth(t)
        BY <2>2, <3>1 DEF Apart, Within
      <3>3. c[2] \in 1..(Depth(t) - 1)
        BY <2>3, <3>1, <3>2 DEF Apart
      <3> QED BY <2>3, <2>4, <3>1, <3>3 DEF Apart
    <2>7. \A u \in Threads \ {t} : Depth(u)' = Depth(u)
      BY <2>3, DepthOfOthers
    <2> QED BY <2>4, <2>5, <2>6, <2>7 DEF ApartInv, ApartFits
  <1>3. ASSUME NEW k \in Registrable, ClearDisables(t, k)
        PROVE  ApartFits'
    <2> DEFINE f == [step |-> "clear", kind |-> k]
    <2>1. f \in Frames
      BY CallbacksAssumption DEF Frames, Steps
    <2>2. frames' = [frames EXCEPT ![t] = Append(@, f)]
      BY <1>3 DEF ClearDisables
    <2> HIDE DEF f
    <2>3. /\ \A u \in Threads \ {t} : frames'[u] = frames[u]
          /\ DOMAIN frames'[t] = 1..(Depth(t) + 1) /\ DOMAIN frames[t] = 1..Depth(t)
          /\ Depth(t) \in Nat
          /\ \A i \in 1..Depth(t) : frames'[t][i] = frames[t][i]
      BY <2>1, <2>2, PushProperties DEF ApartInv, Inv
    <2>4. current' = current /\ enabled'[t] \subseteq enabled[t] /\ apart' = OwnApart(t)
      BY <1>3 DEF ClearDisables, ApartInv, Inv, TypeOK
    <2>5. ASSUME NEW c \in apart'
          PROVE  c \in apart /\ c[1] = t /\ Apart(t, c[2])'
      <3>1. c \in apart /\ c[1] = t
        BY <2>4 DEF OwnApart
      <3>2. Apart(t, c[2])
        BY <3>1 DEF ApartInv, ApartFits
      <3> QED BY <2>3, <2>4, <3>1, <3>2 DEF Apart
    <2>6. \A u \in Threads \ {t} : Depth(u)' = Depth(u)
      BY <2>3, DepthOfOthers
    <2> QED BY <2>5, <2>6 DEF ApartInv, ApartFits
  <1>4. apart' = {} \/ SetRegisters(t) \/ ClearUnregisters(t)
        \/ \E k \in Registrable : ClearDisables(t, k)
    BY DEF EnableAndReturn, SetEnables
  <1> QED BY <1>1, <1>2, <1>3, <1>4

\* However many threads there are and whatever thread an earlier callback has left
\* in lj_current_thread, a Lua function runs with the stepping events of its own
\* thread off as long as nothing has come between.
THEOREM NeverReentered == Spec => []NotReentered
  <1>1. Init => ApartFits
    BY DEF Init, ApartFits
  <1>2. Inv /\ ApartFits /\ [Next]_vars => ApartFits'
    <2> SUFFICES ASSUME ApartInv, [Next]_vars PROVE ApartFits'
      BY DEF ApartInv
    <2>1. CASE UNCHANGED vars
      BY <2>1 DEF vars, history, ApartInv, ApartFits, Apart, Depth
    <2>2. ASSUME NEW t \in Threads,
                 \/ CallbackStep(t)
                 \/ \E k \in Kinds : EventOccurs(t, k)
                 \/ \E k \in Registrable : SetEnables(t, k) \/ ClearDisables(t, k)
          PROVE  ApartFits'
      BY <2>2, ApartWithin, ApartOccurs, ApartRegisters DEF CallbackStep
    <2> QED BY <2>1, <2>2 DEF Next
  <1>3. ApartFits => NotReentered
    BY DEF ApartFits, Apart, NotReentered
  <1> QED BY <1>1, <1>2, <1>3, Invariance, PTL DEF Spec
=============================================================================
