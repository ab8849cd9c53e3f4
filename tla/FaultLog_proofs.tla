---------------------------- MODULE FaultLog_proofs ----------------------------
(***************************************************************************)
(* What is proved of the fault log for every MaxRecords, MaxSequence and   *)
(* MaxResets.                                                              *)
(***************************************************************************)
EXTENDS FaultLog, WellFoundedInduction, SequenceTheorems, TLAPS

-----------------------------------------------------------------------------
(* Induction over the numbers, from the library's well-founded relations: a *)
(* set that holds 0 and every successor of its members holds them all.      *)

Less == {pair \in Nat \X Nat : pair[1] < pair[2]}

LEMMA LessWellFounded == IsWellFoundedOn(Less, Nat)
BY NatLessThanWellFounded DEF OpToRel, Less

LEMMA LeastMember ==
  ASSUME NEW T \in SUBSET Nat, T # {}
  PROVE  \E m \in T : \A n \in T : m <= n
<1>1. PICK m \in T : \A n \in T : ~ (<<n, m>> \in Less)
  BY LessWellFounded, WFMin
<1>2. T \subseteq Nat
  OBVIOUS
<1>3. ASSUME NEW n \in T PROVE m <= n
  <2>1. n \in Nat /\ m \in Nat
    BY <1>2
  <2>2. n < m => <<n, m>> \in Less
    BY <2>1 DEF Less
  <2>3. QED
    BY <1>1, <2>1, <2>2
<1>4. QED
  BY <1>3

LEMMA NumbersByInduction ==
  ASSUME NEW S, 0 \in S, \A n \in Nat : n \in S => n + 1 \in S
  PROVE  Nat \subseteq S
<1> SUFFICES ASSUME Nat \ S # {} PROVE FALSE
  OBVIOUS
<1>1. PICK m \in Nat \ S : \A n \in Nat \ S : m <= n
  BY LeastMember
<1>2. m - 1 \in Nat /\ m = (m - 1) + 1
  BY <1>1
<1>3. m - 1 \in S
  BY <1>1, <1>2
<1>4. QED
  BY <1>1, <1>2, <1>3

-----------------------------------------------------------------------------
(* The two loops of loadFromFlash().                                        *)

KeptStep(kept, content, i) ==
  IF i = 0 THEN <<>>
  ELSE IF content[i] \in Record THEN Append(kept[i - 1], content[i])
  ELSE kept[i - 1]

\* The recursion is well founded.
LEMMA KeptDefined ==
  ASSUME NEW content
  PROVE  Kept(content) =
           [i \in 0 .. MaxRecords |-> KeptStep(Kept(content), content, i)]
<1> DEFINE Good == {n \in Nat : \E f : f = [i \in 0 .. n |-> KeptStep(f, content, i)]}
<1>1. 0 \in Good
  <2>1. [i \in 0 .. 0 |-> <<>>] =
          [i \in 0 .. 0 |-> KeptStep([j \in 0 .. 0 |-> <<>>], content, i)]
    BY DEF KeptStep
  <2>2. QED
    BY <2>1
<1>2. ASSUME NEW n \in Nat, n \in Good PROVE n + 1 \in Good
  <2>1. PICK f : f = [i \in 0 .. n |-> KeptStep(f, content, i)]
    BY <1>2
  <2> DEFINE g == [i \in 0 .. n + 1 |-> IF i = n + 1 THEN KeptStep(f, content, i)
                                                      ELSE f[i]]
  <2>2. \A i \in 0 .. n : f[i] = KeptStep(f, content, i)
    BY ONLY <2>1
  <2>3. \A i \in 0 .. n : g[i] = f[i]
    BY SMT
  <2>4. g[n + 1] = KeptStep(f, content, n + 1)
    OBVIOUS
  <2>5. \A i \in 0 .. n + 1 : g[i] = KeptStep(f, content, i)
    <3> HIDE DEF g
    <3> QED BY <2>2, <2>3, <2>4
  <2>6. \A i \in 0 .. n + 1 : KeptStep(g, content, i) = KeptStep(f, content, i)
    <3> HIDE DEF g
    <3> QED BY <2>3 DEF KeptStep
  <2>7. g = [i \in 0 .. n + 1 |-> g[i]]
    OBVIOUS
  <2>8. g = [i \in 0 .. n + 1 |-> KeptStep(g, content, i)]
    <3> HIDE DEF g
    <3> QED BY <2>5, <2>6, <2>7
  <2>9. \E h : h = [i \in 0 .. n + 1 |-> KeptStep(h, content, i)]
    <3> HIDE DEF g
    <3> QED BY <2>8
  <2>10. QED
    BY <2>9
<1>3. MaxRecords \in Good
  <2> HIDE DEF Good
  <2> QED BY <1>1, <1>2, NumbersByInduction, LimitsAssumption
<1>4. PICK f : f = [i \in 0 .. MaxRecords |-> KeptStep(f, content, i)]
  BY <1>3
<1>5. QED
  BY <1>4 DEF Kept, KeptStep

\* What is kept of n slots are at most n records.
LEMMA KeptType ==
  ASSUME NEW content, NEW n \in 0 .. MaxRecords
  PROVE  Kept(content)[n] \in Seq(Record) /\ Len(Kept(content)[n]) <= n
<1> DEFINE kept == Kept(content)
           Good == {k \in Nat : k <= MaxRecords =>
                                  kept[k] \in Seq(Record) /\ Len(kept[k]) <= k}
<1>1. \A k \in 0 .. MaxRecords : kept[k] = KeptStep(kept, content, k)
  <2> HIDE DEF kept
  <2> QED BY KeptDefined DEF kept
<1> HIDE DEF kept
<1>2. 0 \in Good
  <2>1. kept[0] = <<>>
    BY <1>1, LimitsAssumption DEF KeptStep
  <2>2. <<>> \in Seq(Record) /\ Len(<<>>) <= 0
    OBVIOUS
  <2>3. QED
    BY <2>1, <2>2
<1>3. ASSUME NEW k \in Nat, k \in Good PROVE k + 1 \in Good
  <2> SUFFICES ASSUME k + 1 <= MaxRecords
               PROVE  kept[k + 1] \in Seq(Record) /\ Len(kept[k + 1]) <= k + 1
    OBVIOUS
  <2>1. kept[k] \in Seq(Record) /\ Len(kept[k]) <= k
    BY <1>3, LimitsAssumption
  <2>2. kept[k + 1] = IF content[k + 1] \in Record
                        THEN Append(kept[k], content[k + 1]) ELSE kept[k]
    BY <1>1, LimitsAssumption DEF KeptStep
  <2>3. CASE content[k + 1] \in Record
    BY <2>1, <2>2, <2>3, AppendProperties
  <2>4. CASE content[k + 1] \notin Record
    BY <2>1, <2>2, <2>4
  <2>5. QED
    BY <2>3, <2>4
<1>4. n \in Good
  <2> HIDE DEF Good
  <2> QED BY <1>2, <1>3, NumbersByInduction, LimitsAssumption
<1>5. QED
  BY <1>4, LimitsAssumption DEF kept

\* It depends on those slots alone.
LEMMA KeptOfPrefix ==
  ASSUME NEW content, NEW other, NEW n \in 0 .. MaxRecords,
         \A i \in 1 .. n : content[i] = other[i]
  PROVE  Kept(content)[n] = Kept(other)[n]
<1> DEFINE Good == {k \in Nat : k <= n => Kept(content)[k] = Kept(other)[k]}
<1>1. /\ \A k \in 0 .. MaxRecords : 
           Kept(content)[k] = KeptStep(Kept(content), content, k)
      /\ \A k \in 0 .. MaxRecords : Kept(other)[k] = KeptStep(Kept(other), other, k)
  BY KeptDefined
<1>2. 0 \in Good
  BY <1>1, LimitsAssumption DEF KeptStep
<1>3. ASSUME NEW k \in Nat, k \in Good PROVE k + 1 \in Good
  <2> SUFFICES ASSUME k + 1 <= n
               PROVE  Kept(content)[k + 1] = Kept(other)[k + 1]
    OBVIOUS
  <2>1. Kept(content)[k] = Kept(other)[k]
    BY <1>3, LimitsAssumption
  <2>2. k + 1 \in 0 .. MaxRecords /\ content[k + 1] = other[k + 1]
    BY LimitsAssumption
  <2>3. QED
    BY <1>1, <2>1, <2>2 DEF KeptStep
<1>4. n \in Good
  <2> HIDE DEF Good
  <2> QED BY <1>2, <1>3, NumbersByInduction, LimitsAssumption
<1>5. QED
  BY <1>4, LimitsAssumption

\* One slot more.
LEMMA KeptOneMore ==
  ASSUME NEW content, NEW n \in 1 .. MaxRecords
  PROVE  Kept(content)[n] = IF content[n] \in Record
                              THEN Append(Kept(content)[n - 1], content[n])
                              ELSE Kept(content)[n - 1]
<1>1. Kept(content)[n] = KeptStep(Kept(content), content, n)
  BY KeptDefined, LimitsAssumption
<1>2. QED
  BY <1>1, LimitsAssumption DEF KeptStep

-----------------------------------------------------------------------------
(* The page.  Its used slots come first: it is only programmed at FirstFree *)
(* and only erased as a whole.                                              *)

Content == Record \cup {Erased, Torn}

UsedUpTo(content, n) ==
  /\ content \in [Slots -> Content]
  /\ n \in 0 .. MaxRecords
  /\ \A i \in Slots : content[i] = Erased <=> n < i

FreeOf(content) == {i \in Slots : content[i] = Erased}
LeastOf(free) == CHOOSE i \in free : \A j \in free : i <= j

LEMMA FreeOfUsed ==
  ASSUME NEW content, NEW n, UsedUpTo(content, n)
  PROVE  /\ n = MaxRecords => FreeOf(content) = {}
         /\ n < MaxRecords => FreeOf(content) # {} /\ LeastOf(FreeOf(content)) = n + 1
<1>1. n \in 0 .. MaxRecords /\ MaxRecords \in Nat
  BY LimitsAssumption DEF UsedUpTo
<1>2. FreeOf(content) = {i \in Slots : n < i}
  BY DEF UsedUpTo, FreeOf
<1>3. n = MaxRecords => FreeOf(content) = {}
  BY <1>1, <1>2 DEF Slots
<1>4. ASSUME n < MaxRecords
      PROVE  FreeOf(content) # {} /\ LeastOf(FreeOf(content)) = n + 1
  <2>1. n + 1 \in FreeOf(content) /\ \A j \in FreeOf(content) : n + 1 <= j
    BY <1>1, <1>2, <1>4 DEF Slots
  <2>2. FreeOf(content) \subseteq Nat
    BY <1>2 DEF Slots
  <2> DEFINE least == LeastOf(FreeOf(content))
  <2>3. least \in FreeOf(content) /\ \A j \in FreeOf(content) : least <= j
    BY <2>1 DEF LeastOf
  <2>4. least <= n + 1 /\ n + 1 <= least /\ least \in Nat
    BY <2>1, <2>2, <2>3
  <2>5. QED
    BY <1>1, <2>1, <2>4
<1>5. QED
  BY <1>1, <1>3, <1>4

\* What the page holds is told by how far it is used.
LEMMA LoadedIs ==
  ASSUME NEW n, UsedUpTo(flash, n)
  PROVE  /\ Used = n /\ Loaded = Kept(flash)[n]
         /\ FreeSlots = {} <=> n = MaxRecords
         /\ n < MaxRecords => FirstFree = n + 1
<1>1. n \in 0 .. MaxRecords /\ MaxRecords \in Nat
  BY LimitsAssumption DEF UsedUpTo
<1>2. FreeSlots = FreeOf(flash) /\ FirstFree = LeastOf(FreeOf(flash))
  BY DEF FreeSlots, FreeOf, FirstFree, LeastOf
<1>3. Used = n
  BY <1>1, <1>2, FreeOfUsed DEF Used
<1>4. QED
  BY <1>1, <1>2, <1>3, FreeOfUsed DEF Loaded

LEMMA LoadedIsNext ==
  ASSUME NEW n, UsedUpTo(flash', n)
  PROVE  Used' = n /\ Loaded' = Kept(flash')[n]
<1>1. n \in 0 .. MaxRecords /\ MaxRecords \in Nat
  BY LimitsAssumption DEF UsedUpTo
<1>2. FreeSlots' = FreeOf(flash') /\ FirstFree' = LeastOf(FreeOf(flash'))
  BY DEF FreeSlots, FreeOf, FirstFree, LeastOf
<1>3. Used' = n
  BY <1>1, <1>2, FreeOfUsed DEF Used
<1>4. QED
  BY <1>3 DEF Loaded

-----------------------------------------------------------------------------
(* s_next_sequence after a boot.                                            *)

NextStep(next, records, i) ==
  IF i = 0 THEN 1
  ELSE IF records[i].sequence >= next[i - 1]
    THEN (records[i].sequence + 1) % (MaxSequence + 1)
  ELSE next[i - 1]

LEMMA NextAfterDefined ==
  ASSUME NEW records \in Seq(Record)
  PROVE  NextAfter(records) =
           [i \in 0 .. Len(records) |-> NextStep(NextAfter(records), records, i)]
<1> DEFINE Good == {n \in Nat : \E f : f = [i \in 0 .. n |-> NextStep(f, records, i)]}
<1>1. 0 \in Good
  <2>1. [i \in 0 .. 0 |-> 1] =
          [i \in 0 .. 0 |-> NextStep([j \in 0 .. 0 |-> 1], records, i)]
    BY DEF NextStep
  <2>2. QED
    BY <2>1
<1>2. ASSUME NEW n \in Nat, n \in Good PROVE n + 1 \in Good
  <2>1. PICK f : f = [i \in 0 .. n |-> NextStep(f, records, i)]
    BY <1>2
  <2> DEFINE g == [i \in 0 .. n + 1 |-> IF i = n + 1 THEN NextStep(f, records, i)
                                                      ELSE f[i]]
  <2>2. \A i \in 0 .. n : f[i] = NextStep(f, records, i)
    BY ONLY <2>1
  <2>3. \A i \in 0 .. n : g[i] = f[i]
    BY SMT
  <2>4. g[n + 1] = NextStep(f, records, n + 1)
    OBVIOUS
  <2>5. \A i \in 0 .. n + 1 : g[i] = NextStep(f, records, i)
    <3> HIDE DEF g
    <3> QED BY <2>2, <2>3, <2>4
  <2>6. \A i \in 0 .. n + 1 : NextStep(g, records, i) = NextStep(f, records, i)
    <3> HIDE DEF g
    <3> QED BY <2>3 DEF NextStep
  <2>7. g = [i \in 0 .. n + 1 |-> g[i]]
    OBVIOUS
  <2>8. g = [i \in 0 .. n + 1 |-> NextStep(g, records, i)]
    <3> HIDE DEF g
    <3> QED BY <2>5, <2>6, <2>7
  <2>9. \E h : h = [i \in 0 .. n + 1 |-> NextStep(h, records, i)]
    <3> HIDE DEF g
    <3> QED BY <2>8
  <2>10. QED
    BY <2>9
<1>3. Len(records) \in Good
  <2> HIDE DEF Good
  <2> QED BY <1>1, <1>2, NumbersByInduction
<1>4. PICK f : f = [i \in 0 .. Len(records) |-> NextStep(f, records, i)]
  BY <1>3
<1>5. QED
  BY <1>4 DEF NextAfter, NextStep

\* It stays in 16 bits, and it is past the newest record unless that one has
\* the last number there is.
LEMMA SequenceAfterNewest ==
  ASSUME NEW records \in Seq(Record)
  PROVE  /\ SequenceAfter(records) \in 0 .. MaxSequence
         /\ records # <<>> =>
              LET newest == records[Len(records)].sequence
              IN  newest < SequenceAfter(records) \/ newest = MaxSequence
<1> DEFINE next == NextAfter(records)
           Good == {k \in Nat : k <= Len(records) => next[k] \in 0 .. MaxSequence}
<1>1. \A k \in 0 .. Len(records) : next[k] = NextStep(next, records, k)
  <2> HIDE DEF next
  <2> QED BY NextAfterDefined DEF next
<1> HIDE DEF next
<1>2. ASSUME NEW k \in 1 .. Len(records)
      PROVE  records[k].sequence \in 0 .. MaxSequence
  <2>1. records[k] \in Record
    BY ElementOfSeq
  <2>2. QED
    BY <2>1 DEF Record
<1>3. 0 \in Good
  <2>1. next[0] = 1
    BY <1>1 DEF NextStep
  <2>2. QED
    BY <2>1, LimitsAssumption
<1>4. ASSUME NEW k \in Nat, k + 1 <= Len(records), next[k] \in 0 .. MaxSequence
      PROVE  /\ next[k + 1] \in 0 .. MaxSequence
             /\ \/ records[k + 1].sequence < next[k + 1]
                \/ records[k + 1].sequence = MaxSequence
  <2> DEFINE r == records[k + 1].sequence
  <2> k + 1 \in 1 .. Len(records)
    BY <1>4, LenProperties
  <2>1. r \in 0 .. MaxSequence
    BY <1>2
  <2>2. next[k + 1] = IF r >= next[k] THEN (r + 1) % (MaxSequence + 1) ELSE next[k]
    BY <1>1 DEF NextStep
  <2> HIDE DEF r
  <2>3. r < MaxSequence => (r + 1) % (MaxSequence + 1) = r + 1
    BY <2>1, LimitsAssumption
  <2>4. r = MaxSequence => (r + 1) % (MaxSequence + 1) = 0
    BY <2>1, LimitsAssumption
  <2>5. next[k + 1] \in 0 .. MaxSequence /\ (r < next[k + 1] \/ r = MaxSequence)
    BY <1>4, <2>1, <2>2, <2>3, <2>4, LimitsAssumption
  <2>6. QED
    BY <2>5 DEF r
<1>5. \A k \in Nat : k \in Good => k + 1 \in Good
  BY <1>4
<1>6. Nat \subseteq Good
  <2> HIDE DEF Good
  <2> QED BY <1>3, <1>5, NumbersByInduction
<1>7. next[Len(records)] \in 0 .. MaxSequence
  BY <1>6
<1>8. ASSUME records # <<>>
      PROVE  \/ records[Len(records)].sequence < next[Len(records)]
             \/ records[Len(records)].sequence = MaxSequence
  <2> DEFINE k == Len(records) - 1
  <2>1. k \in Nat /\ k + 1 = Len(records)
    BY <1>8, EmptySeq
  <2>2. next[k] \in 0 .. MaxSequence
    BY <1>6, <2>1
  <2>3. QED
    BY <1>4, <2>1, <2>2
<1>9. QED
  BY <1>7, <1>8 DEF SequenceAfter, next

-----------------------------------------------------------------------------
(* What the flash operations do to the page and to what it would load.      *)

PageShape == UsedUpTo(flash, Used)

LEMMA LoadedType ==
  ASSUME PageShape
  PROVE  /\ Used \in 0 .. MaxRecords /\ Loaded = Kept(flash)[Used]
         /\ Loaded \in Seq(Record) /\ Len(Loaded) <= MaxRecords
<1>1. Used \in 0 .. MaxRecords /\ Loaded = Kept(flash)[Used]
  BY DEF PageShape, UsedUpTo, Loaded
<1>2. Loaded \in Seq(Record) /\ Len(Loaded) <= Used
  BY <1>1, KeptType
<1>3. QED
  BY <1>1, <1>2, LenProperties, LimitsAssumption

LEMMA PageLeftAlone ==
  ASSUME PageShape, UNCHANGED flash
  PROVE  PageShape' /\ Used' = Used /\ Loaded' = Loaded
<1>1. FreeSlots' = FreeSlots /\ FirstFree' = FirstFree
  BY DEF FreeSlots, FirstFree
<1>2. Used' = Used
  BY <1>1 DEF Used
<1>3. QED
  BY <1>2 DEF PageShape, Loaded

LEMMA PageErased ==
  ASSUME flash' = [i \in Slots |-> Erased]
  PROVE  PageShape' /\ Loaded' = <<>>
<1>1. UsedUpTo(flash', 0)
  BY LimitsAssumption DEF UsedUpTo, Content, Slots
<1>2. Used' = 0 /\ Loaded' = Kept(flash')[0]
  BY <1>1, LoadedIsNext
<1>3. Kept(flash')[0] = <<>>
  BY KeptDefined, LimitsAssumption DEF KeptStep
<1>4. QED
  BY <1>1, <1>2, <1>3 DEF PageShape

LEMMA PhantomType == Phantom \in Record
BY LimitsAssumption DEF Phantom, Record

LEMMA UnfinishedType ==
  ASSUME NEW entry \in Record
  PROVE  Unfinished(entry) \subseteq Record
BY PhantomType, LimitsAssumption DEF Unfinished, Record

\* The first halfword goes to the first free slot, behind all that is kept.
LEMMA FilledContent ==
  ASSUME NEW content, NEW n, UsedUpTo(content, n), n < MaxRecords,
         NEW c \in Content, c # Erased,
         NEW after, after = [content EXCEPT ![n + 1] = c]
  PROVE  /\ UsedUpTo(after, n + 1)
         /\ n + 1 \in Slots /\ after[n + 1] = c
         /\ Kept(after)[n] = Kept(content)[n]
<1>1. n \in 0 .. MaxRecords /\ MaxRecords \in Nat /\ content \in [Slots -> Content]
  BY LimitsAssumption DEF UsedUpTo
<1>2. n + 1 \in Slots
  BY <1>1 DEF Slots
<1>3. after[n + 1] = c /\ \A i \in Slots \ {n + 1} : after[i] = content[i]
  BY <1>1, <1>2
<1>4. UsedUpTo(after, n + 1)
  <2>1. after \in [Slots -> Content]
    BY <1>1
  <2>2. \A i \in Slots : after[i] = Erased <=> n + 1 < i
    BY <1>1, <1>2, <1>3 DEF UsedUpTo, Slots
  <2>3. QED
    BY <1>1, <2>1, <2>2 DEF UsedUpTo
<1>5. Kept(after)[n] = Kept(content)[n]
  <2>1. \A i \in 1 .. n : after[i] = content[i]
    BY <1>1, <1>3 DEF Slots
  <2>2. QED
    BY ONLY <1>1, <2>1, KeptOfPrefix
<1>6. QED
  BY <1>2, <1>3, <1>4, <1>5

LEMMA SlotStarted ==
  ASSUME PageShape, FreeSlots # {}, flash' = [flash EXCEPT ![FirstFree] = Phantom]
  PROVE  /\ PageShape' /\ Kept(flash')[FirstFree - 1] = Loaded
         /\ FirstFree \in Slots /\ Used' = FirstFree /\ flash'[FirstFree] = Phantom
<1>1. UsedUpTo(flash, Used) /\ Used \in 0 .. MaxRecords /\ MaxRecords \in Nat
  BY LimitsAssumption DEF PageShape, UsedUpTo
<1>2. Used < MaxRecords /\ FirstFree = Used + 1 /\ Loaded = Kept(flash)[Used]
  BY <1>1, LoadedIs
<1>3. flash' = [flash EXCEPT ![Used + 1] = Phantom]
  BY <1>2
<1>4. Phantom \in Content /\ Phantom # Erased
  BY PhantomType, LimitsAssumption DEF Content
<1>5. /\ UsedUpTo(flash', Used + 1)
      /\ Used + 1 \in Slots /\ flash'[Used + 1] = Phantom
      /\ Kept(flash')[Used] = Kept(flash)[Used]
  <2>1. \A c \in Content : c # Erased =>
          \A after : after = [flash EXCEPT ![Used + 1] = c] =>
            /\ UsedUpTo(after, Used + 1)
            /\ Used + 1 \in Slots /\ after[Used + 1] = c
            /\ Kept(after)[Used] = Kept(flash)[Used]
    BY ONLY <1>1, <1>2, FilledContent, Zenon
  <2>2. QED
    BY <1>3, <1>4, <2>1
<1>6. Used' = Used + 1
  BY <1>5, LoadedIsNext
<1>7. (Used + 1) - 1 = Used
  BY <1>1
<1>8. QED
  BY <1>2, <1>5, <1>6, <1>7 DEF PageShape

\* The halfwords after it change that slot and nothing before it.
LEMMA RewrittenContent ==
  ASSUME NEW content, NEW n \in Slots, UsedUpTo(content, n),
         NEW c \in Content, c # Erased, NEW after, after = [content EXCEPT ![n] = c]
  PROVE  /\ UsedUpTo(after, n) /\ after[n] = c
         /\ Kept(after)[n - 1] = Kept(content)[n - 1]
<1>1. n \in 1 .. MaxRecords /\ MaxRecords \in Nat /\ content \in [Slots -> Content]
  BY LimitsAssumption DEF UsedUpTo, Slots
<1>2. after[n] = c /\ \A i \in Slots \ {n} : after[i] = content[i]
  BY <1>1
<1>3. UsedUpTo(after, n)
  <2>1. after \in [Slots -> Content]
    BY <1>1
  <2>2. content[n] # Erased
    BY <1>1 DEF UsedUpTo
  <2>3. \A i \in Slots : after[i] = Erased <=> n < i
    BY <1>1, <1>2, <2>2 DEF UsedUpTo
  <2>4. QED
    BY <1>1, <2>1, <2>3 DEF UsedUpTo
<1>4. Kept(after)[n - 1] = Kept(content)[n - 1]
  <2>1. n - 1 \in 0 .. MaxRecords /\ \A i \in 1 .. n - 1 : after[i] = content[i]
    BY <1>1, <1>2 DEF Slots
  <2>2. QED
    BY ONLY <2>1, KeptOfPrefix
<1>5. QED
  BY <1>2, <1>3, <1>4

LEMMA SlotRewritten ==
  ASSUME PageShape, slot \in Slots, slot = Used,
         NEW c \in Content, c # Erased, flash' = [flash EXCEPT ![slot] = c]
  PROVE  /\ PageShape' /\ Used' = slot /\ flash'[slot] = c
         /\ Kept(flash')[slot - 1] = Kept(flash)[slot - 1]
         /\ c \in Record => Loaded' = Append(Kept(flash)[slot - 1], c)
<1>1. UsedUpTo(flash, slot)
  BY DEF PageShape
<1>2. /\ UsedUpTo(flash', slot) /\ flash'[slot] = c
      /\ Kept(flash')[slot - 1] = Kept(flash)[slot - 1]
  <2>1. \A after : after = [flash EXCEPT ![slot] = c] =>
          /\ UsedUpTo(after, slot) /\ after[slot] = c
          /\ Kept(after)[slot - 1] = Kept(flash)[slot - 1]
    BY ONLY <1>1, RewrittenContent, slot \in Slots, c \in Content, c # Erased, Zenon
  <2>2. QED
    BY <2>1
<1>3. Used' = slot /\ Loaded' = Kept(flash')[slot]
  BY <1>2, LoadedIsNext
<1>4. Kept(flash')[slot] = IF flash'[slot] \in Record
                             THEN Append(Kept(flash')[slot - 1], flash'[slot])
                             ELSE Kept(flash')[slot - 1]
  BY KeptOneMore DEF Slots
<1>5. QED
  BY <1>2, <1>3, <1>4 DEF PageShape

-----------------------------------------------------------------------------
(* Records put at the end of a sequence and taken from its front.           *)

LEMMA AppendedRecord ==
  ASSUME NEW s \in Seq(Record), NEW r \in Record
  PROVE  /\ Append(s, r) \in Seq(Record) /\ Append(s, r) # <<>>
         /\ Len(Append(s, r)) = Len(s) + 1
         /\ Last(Append(s, r)) = r /\ Front(Append(s, r)) = s
<1>1. /\ Append(s, r) \in Seq(Record) /\ Append(s, r) # <<>>
      /\ Len(Append(s, r)) = Len(s) + 1 /\ Len(s) \in Nat
      /\ Append(s, r)[Len(s) + 1] = r
      /\ \A i \in 1 .. Len(s) : Append(s, r)[i] = s[i]
  BY AppendProperties, LenProperties
<1>2. Last(Append(s, r)) = r
  BY <1>1 DEF Last
<1>3. Front(Append(s, r)) = SubSeq(Append(s, r), 1, Len(s))
  BY <1>1 DEF Front
<1>4. \A i \in 1 .. Len(s) : Append(s, r)[i] \in Record
  BY <1>1, ElementOfSeq
<1>5. /\ SubSeq(Append(s, r), 1, Len(s)) \in Seq(Record)
      /\ Len(SubSeq(Append(s, r), 1, Len(s))) = Len(s)
      /\ \A i \in 1 .. Len(s) : SubSeq(Append(s, r), 1, Len(s))[i] = Append(s, r)[i]
  BY <1>1, <1>4, SubSeqProperties
<1>6. SubSeq(Append(s, r), 1, Len(s)) = s
  BY <1>1, <1>5, SeqEqual
<1>7. QED
  BY <1>1, <1>2, <1>3, <1>6

LEMMA FrontAndLast ==
  ASSUME NEW s \in Seq(Record), s # <<>>
  PROVE  /\ Last(s) \in Record /\ Front(s) \in Seq(Record)
         /\ Append(Front(s), Last(s)) = s
<1>1. PICK front \in Seq(Record), r \in Record : s = Append(front, r)
  BY SequenceEmptyOrAppend
<1>2. Last(s) = r /\ Front(s) = front
  BY <1>1, AppendedRecord
<1>3. QED
  BY <1>1, <1>2

LEMMA OneRecord ==
  ASSUME NEW r \in Record
  PROVE  <<r>> \in Seq(Record) /\ Len(<<r>>) = 1 /\ <<r>> # <<>>
OBVIOUS

LEMMA HeadMoved ==
  ASSUME NEW s \in Seq(Record), NEW w \in Seq(Record), w # <<>>
  PROVE  /\ Head(w) \in Record /\ Tail(w) \in Seq(Record) /\ Len(Tail(w)) = Len(w) - 1
         /\ Append(s, Head(w)) \o Tail(w) = s \o w
         /\ Len(w) = 1 <=> Tail(w) = <<>>
         /\ Len(w) = 1 => Append(s, Head(w)) = s \o w
<1>1. Head(w) \in Record /\ Tail(w) \in Seq(Record) /\ Len(Tail(w)) = Len(w) - 1
  BY HeadTailProperties
<1>2. w = <<Head(w)>> \o Tail(w)
  <2>1. Len(w) \in Nat \ {0}
    BY EmptySeq
  <2>2. w = SubSeq(w, 1, Len(w)) /\ Head(w) = w[1] /\ Tail(w) = SubSeq(w, 2, Len(w))
    BY SubSeqFull, TailIsSubSeq, HeadTailProperties
  <2>3. SubSeq(w, 1, Len(w)) = <<w[1]>> \o SubSeq(w, 1 + 1, Len(w))
    BY <2>1, SubSeqRecursiveFirst
  <2>4. QED
    BY <2>2, <2>3
<1>3. Append(s, Head(w)) = s \o <<Head(w)>> /\ <<Head(w)>> \in Seq(Record)
  BY <1>1, AppendIsConcat
<1>4. Append(s, Head(w)) \o Tail(w) = s \o w
  BY <1>1, <1>2, <1>3, ConcatAssociative
<1>5. Len(w) = 1 <=> Tail(w) = <<>>
  <2>1. Len(Tail(w)) = 0 <=> Tail(w) = <<>>
    BY <1>1, EmptySeq
  <2>2. Len(w) \in Nat
    BY LenProperties
  <2>3. QED
    BY <1>1, <2>1, <2>2
<1>6. ASSUME Len(w) = 1 PROVE Append(s, Head(w)) = s \o w
  <2>1. w = <<Head(w)>>
    BY <1>2, <1>3, <1>5, <1>6, ConcatEmptySeq
  <2>2. QED
    BY <1>3, <2>1
<1>7. QED
  BY <1>1, <1>4, <1>5, <1>6

-----------------------------------------------------------------------------
(* The inductive invariant.  Between two calls the page loads what RAM     *)
(* holds; while a record is appended it holds all but that record, and a   *)
(* slot that may read as anything the halfwords written so far amount to;  *)
(* while the page is rewritten it holds what is not still to be written.   *)
(* After a flash operation failed nothing of it is claimed, but an erase   *)
(* makes it true again, since everything is written again behind it.       *)

Programming == pc \in {"program", "finish"}

Sound == damage # "present"

CallCoupling ==
  /\ Programming => writing # <<>>
  /\ Programming /\ ~rewriting => ram # <<>> /\ writing = <<Last(ram)>>
  /\ pc = "finish" =>
       slot = Used /\ flash[slot] \in Unfinished(Head(writing)) \cup {Torn}
  /\ pc = "erase" => ram # <<>>
  /\ pc = "clear" => ram = <<>>

PageCoupling ==
  /\ pc = "idle" /\ Sound => Loaded = ram
  /\ Programming /\ ~rewriting /\ Sound => Intact = Front(ram)
  /\ Programming /\ rewriting /\ Sound => Intact \o writing = ram

Coupled == PageShape /\ CallCoupling /\ PageCoupling

Sane == TypeOK /\ Coupled

\* What the slot being programmed makes of what a boot would load.
LEMMA SlotLoads ==
  ASSUME Sane, pc = "finish"
  PROVE  /\ writing \in Seq(Record) /\ writing # <<>> /\ Head(writing) \in Record
         /\ Unfinished(Head(writing)) \subseteq Record
         /\ slot \in Slots /\ slot = Used /\ PageShape
         /\ Intact = Kept(flash)[slot - 1] /\ Intact \in Seq(Record)
         /\ \/ flash[slot] = Torn /\ Half = <<>> /\ Loaded = Intact
            \/ /\ flash[slot] \in Unfinished(Head(writing))
               /\ Half = <<flash[slot]>> /\ Loaded = Append(Intact, flash[slot])
<1>1. /\ writing \in Seq(Record) /\ writing # <<>>
      /\ slot \in Slots /\ slot = Used /\ PageShape
      /\ flash[slot] \in Unfinished(Head(writing)) \cup {Torn}
  BY DEF Sane, TypeOK, Coupled, CallCoupling, Programming
<1>2. Head(writing) \in Record /\ Unfinished(Head(writing)) \subseteq Record
  BY <1>1, HeadTailProperties, UnfinishedType
<1>3. slot - 1 \in 0 .. MaxRecords /\ slot \in 1 .. MaxRecords
  BY <1>1, LimitsAssumption DEF Slots
<1>4. Intact = Kept(flash)[slot - 1] /\ Intact \in Seq(Record)
  BY <1>3, KeptType DEF Intact
<1>5. Loaded = IF flash[slot] \in Record THEN Append(Intact, flash[slot]) ELSE Intact
  BY <1>1, <1>3, <1>4, KeptOneMore, LoadedType
<1>6. CASE flash[slot] = Torn
  BY <1>1, <1>2, <1>4, <1>5, <1>6, LimitsAssumption DEF Half
<1>7. CASE flash[slot] # Torn
  BY <1>1, <1>2, <1>4, <1>5, <1>7 DEF Half
<1>8. QED
  BY <1>6, <1>7

\* At any time a boot would load what is intact and what is half written.
LEMMA LoadedIsIntactAndHalf ==
  ASSUME Sane
  PROVE  Intact \in Seq(Record) /\ Loaded = Intact \o Half
<1>1. CASE pc = "finish"
  <2>1. /\ Intact \in Seq(Record) /\ Unfinished(Head(writing)) \subseteq Record
        /\ \/ Half = <<>> /\ Loaded = Intact
           \/ /\ flash[slot] \in Unfinished(Head(writing))
              /\ Half = <<flash[slot]>> /\ Loaded = Append(Intact, flash[slot])
    BY <1>1, SlotLoads
  <2>2. CASE Half = <<>> /\ Loaded = Intact
    BY <2>1, <2>2, ConcatEmptySeq
  <2>3. CASE /\ flash[slot] \in Record
             /\ Half = <<flash[slot]>> /\ Loaded = Append(Intact, flash[slot])
    BY <2>1, <2>3, AppendIsConcat
  <2>4. QED
    BY <2>1, <2>2, <2>3
<1>2. CASE pc # "finish"
  BY <1>2, LoadedType, ConcatEmptySeq DEF Sane, Coupled, Intact, Half
<1>3. QED
  BY <1>1, <1>2

LEMMA InitSane == Init => Sane
<1> SUFFICES ASSUME Init PROVE Sane
  OBVIOUS
<1>1. /\ <<>> \in Seq(Record) /\ Len(<<>>) <= MaxRecords
      /\ 1 \in Slots /\ 1 \in 0 .. MaxSequence /\ 0 \in 0 .. MaxResets
  BY LimitsAssumption DEF Slots
<1>2. TypeOK
  BY <1>1 DEF Init, TypeOK
<1>3. PageShape
  <2>1. UsedUpTo(flash, 0)
    BY LimitsAssumption DEF Init, UsedUpTo, Content, Slots
  <2>2. QED
    BY <2>1, LoadedIs DEF PageShape
<1>4. CallCoupling /\ PageCoupling
  BY DEF Init, CallCoupling, PageCoupling, Programming
<1>5. QED
  BY <1>2, <1>3, <1>4 DEF Sane, Coupled

LEMMA BootSane ==
  ASSUME Sane, Boot
  PROVE  Sane'
<1>1. Loaded \in Seq(Record) /\ Len(Loaded) <= MaxRecords
  BY LoadedType DEF Sane, Coupled
<1>2. SequenceAfter(Loaded) \in 0 .. MaxSequence
  BY <1>1, SequenceAfterNewest
<1>3. reset_count' \in 0 .. MaxResets
  <2> DEFINE before == IF Loaded = <<>> THEN 0 ELSE Last(Loaded).reset_count
  <2>1. before \in 0 .. MaxResets
    <3>1. CASE Loaded = <<>>
      BY <3>1, LimitsAssumption
    <3>2. CASE Loaded # <<>>
      BY <1>1, <3>2, FrontAndLast DEF Record
    <3>3. QED
      BY <3>1, <3>2
  <2>2. reset_count' = IF before = MaxResets THEN before ELSE before + 1
    BY DEF Boot
  <2> HIDE DEF before
  <2>3. QED
    BY <2>1, <2>2, LimitsAssumption
<1>4. TypeOK'
  BY <1>1, <1>2, <1>3 DEF Boot, Sane, TypeOK, page
<1>5. PageShape' /\ Loaded' = Loaded
  BY PageLeftAlone DEF Boot, Sane, Coupled, page
<1>6. CallCoupling' /\ PageCoupling'
  BY <1>5 DEF Boot, CallCoupling, PageCoupling, Programming
<1>7. QED
  BY <1>4, <1>5, <1>6 DEF Sane, Coupled

LEMMA ResetSane ==
  ASSUME Sane, Reset
  PROVE  Sane'
<1>1. /\ <<>> \in Seq(Record) /\ Len(<<>>) <= MaxRecords
      /\ 1 \in Slots /\ 1 \in 0 .. MaxSequence /\ 0 \in 0 .. MaxResets
  BY LimitsAssumption DEF Slots
<1>2. TypeOK'
  BY <1>1 DEF Reset, Sane, TypeOK
<1>3. PageShape'
  BY PageLeftAlone DEF Reset, Sane, Coupled
<1>4. CallCoupling' /\ PageCoupling'
  BY DEF Reset, CallCoupling, PageCoupling, Programming
<1>5. QED
  BY <1>2, <1>3, <1>4 DEF Sane, Coupled

LEMMA RecordFaultSane ==
  ASSUME Sane, RecordFault
  PROVE  Sane'
<1>1. /\ ram \in Seq(Record) /\ Len(ram) \in Nat /\ Len(ram) <= MaxRecords
      /\ pc = "idle"
  BY LenProperties DEF Sane, TypeOK, RecordFault
<1>2. NewRecord \in Record
  BY DEF Sane, TypeOK, NewRecord, Record
<1>3. next_sequence' \in 0 .. MaxSequence
  BY LimitsAssumption DEF Sane, TypeOK, RecordFault
<1>4. PageShape' /\ Used' = Used /\ Loaded' = Loaded
  BY PageLeftAlone DEF Sane, Coupled, RecordFault
<1>5. CASE Len(ram) < MaxRecords
  <2>1. /\ pc' = "program" /\ ram' = Append(ram, NewRecord)
        /\ writing' = <<NewRecord>> /\ rewriting' = FALSE
        /\ UNCHANGED <<reset_count, flash, slot, damage>>
    BY <1>5 DEF RecordFault
  <2>2. /\ ram' \in Seq(Record) /\ Len(ram') = Len(ram) + 1 /\ ram' # <<>>
        /\ Last(ram') = NewRecord /\ Front(ram') = ram
    BY <1>1, <1>2, <2>1, AppendedRecord
  <2>a. Len(ram') <= MaxRecords
    BY <1>1, <1>5, <2>2, LimitsAssumption
  <2>3. writing' \in Seq(Record) /\ Len(writing') = 1 /\ writing' # <<>>
    BY <1>2, <2>1, OneRecord
  <2>b. Len(writing') <= MaxRecords
    BY <2>3, LimitsAssumption
  <2>4. TypeOK'
    BY <1>3, <2>1, <2>2, <2>a, <2>3, <2>b DEF Sane, TypeOK
  <2>5. CallCoupling'
    BY <2>1, <2>2, <2>3 DEF CallCoupling, Programming
  <2>6. PageCoupling'
    BY <1>1, <1>4, <2>1, <2>2
    DEF Sane, Coupled, PageCoupling, Programming, Sound, Intact
  <2>7. QED
    BY <1>4, <2>4, <2>5, <2>6 DEF Sane, Coupled
<1>6. CASE ~(Len(ram) < MaxRecords)
  <2>1. /\ pc' = "erase" /\ ram' = Append(Tail(ram), NewRecord)
        /\ rewriting' = FALSE
        /\ UNCHANGED <<writing, reset_count, flash, slot, damage>>
    BY <1>6 DEF RecordFault
  <2>2. ram # <<>>
    BY <1>1, <1>6, LimitsAssumption
  <2>3. Tail(ram) \in Seq(Record) /\ Len(Tail(ram)) = Len(ram) - 1
    BY <1>1, <2>2, HeadTailProperties
  <2>4. ram' \in Seq(Record) /\ Len(ram') <= MaxRecords /\ ram' # <<>>
    BY <1>1, <1>2, <2>1, <2>3, AppendedRecord
  <2>5. TypeOK'
    BY <1>3, <2>1, <2>4 DEF Sane, TypeOK
  <2>6. CallCoupling' /\ PageCoupling'
    BY <2>1, <2>4 DEF CallCoupling, PageCoupling, Programming
  <2>7. QED
    BY <1>4, <2>5, <2>6 DEF Sane, Coupled
<1>7. QED
  BY <1>5, <1>6

LEMMA ClearSane ==
  ASSUME Sane, Clear
  PROVE  Sane'
<1>1. /\ <<>> \in Seq(Record) /\ Len(<<>>) <= MaxRecords
      /\ 1 \in Slots /\ 1 \in 0 .. MaxSequence /\ 0 \in 0 .. MaxResets
  BY LimitsAssumption DEF Slots
<1>2. TypeOK'
  BY <1>1 DEF Clear, Sane, TypeOK, page
<1>3. PageShape'
  BY PageLeftAlone DEF Clear, Sane, Coupled, page
<1>4. CallCoupling' /\ PageCoupling'
  BY DEF Clear, CallCoupling, PageCoupling, Programming
<1>5. QED
  BY <1>2, <1>3, <1>4 DEF Sane, Coupled

\* Both callers of flashErasePage(): the page is empty, or it failed.
LEMMA WipedPage ==
  ASSUME Sane, NEW ok \in BOOLEAN, Wiped(ok)
  PROVE  /\ PageShape' /\ flash' \in [Slots -> Content]
         /\ damage' \in {"none", "present", "repaired"}
         /\ Sound' => ok /\ Loaded' = <<>>
<1>1. CASE ok
  <2>1. flash' = [i \in Slots |-> Erased]
    BY <1>1 DEF Wiped
  <2>2. PageShape' /\ Loaded' = <<>>
    BY <2>1, PageErased
  <2>3. QED
    BY <1>1, <2>1, <2>2 DEF Wiped, Sane, TypeOK, Content
<1>2. CASE ~ok
  <2>1. flash' = flash /\ damage' = "present"
    BY <1>2 DEF Wiped
  <2>2. QED
    BY <2>1, PageLeftAlone DEF Sane, Coupled, TypeOK, Content, Sound
<1>3. QED
  BY <1>1, <1>2

LEMMA ClearEraseSane ==
  ASSUME Sane, NEW ok \in BOOLEAN, ClearErase(ok)
  PROVE  Sane'
<1>1. /\ pc = "clear" /\ pc' = "idle" /\ ram = <<>> /\ Wiped(ok)
      /\ UNCHANGED <<log, writing, rewriting, slot>>
  BY DEF ClearErase, Sane, Coupled, CallCoupling
<1>2. TypeOK'
  BY <1>1, WipedPage DEF Sane, TypeOK, log, Content
<1>3. PageShape' /\ CallCoupling' /\ PageCoupling'
  BY <1>1, WipedPage DEF CallCoupling, PageCoupling, Programming, log
<1>4. QED
  BY <1>2, <1>3 DEF Sane, Coupled

LEMMA EraseSane ==
  ASSUME Sane, NEW ok \in BOOLEAN, Erase(ok)
  PROVE  Sane'
<1>1. /\ pc = "erase" /\ pc' = "program" /\ ram # <<>> /\ Wiped(ok)
      /\ writing' = ram /\ rewriting' = TRUE
      /\ UNCHANGED <<log, slot>>
  BY DEF Erase, Sane, Coupled, CallCoupling
<1>2. TypeOK'
  BY <1>1, WipedPage DEF Sane, TypeOK, log, Content
<1>3. <<>> \o ram = ram
  BY ConcatEmptySeq DEF Sane, TypeOK
<1>4. PageShape' /\ CallCoupling' /\ PageCoupling'
  BY <1>1, <1>3, WipedPage DEF CallCoupling, PageCoupling, Programming, log, Intact
<1>5. QED
  BY <1>2, <1>4 DEF Sane, Coupled

\* flashAppend() is done with a record, and the call has others or ends.
LEMMA AppendedSane ==
  ASSUME Sane, Programming, NEW ok \in BOOLEAN, Appended(ok)
  PROVE  /\ ram' = ram /\ rewriting' = rewriting /\ rewriting \in BOOLEAN
         /\ writing' \in Seq(Record) /\ Len(writing') <= MaxRecords
         /\ pc' \in {"idle", "erase", "program"}
         /\ pc' = "erase" <=> ~ok /\ ~rewriting
         /\ pc' = "program" => rewriting /\ writing' # <<>>
         /\ CallCoupling'
<1>1. /\ writing \in Seq(Record) /\ Len(writing) <= MaxRecords /\ writing # <<>>
      /\ rewriting \in BOOLEAN
      /\ ~rewriting => ram # <<>> /\ Len(writing) = 1
  BY OneRecord, FrontAndLast DEF Sane, TypeOK, Coupled, CallCoupling
<1>2. /\ writing' = Tail(writing) /\ ram' = ram /\ rewriting' = rewriting
      /\ pc' = IF ~ok /\ ~rewriting THEN "erase"
               ELSE IF Len(writing) = 1 THEN "idle"
               ELSE "program"
  BY DEF Appended, log
<1>3. /\ writing' \in Seq(Record) /\ Len(writing') = Len(writing) - 1
      /\ Len(writing) = 1 <=> writing' = <<>>
      /\ Len(writing) \in Nat
  BY <1>1, <1>2, HeadMoved, LenProperties
<1>4. Len(writing') <= MaxRecords
  BY <1>1, <1>3, LimitsAssumption
<1>5. CallCoupling'
  BY <1>1, <1>2, <1>3 DEF CallCoupling, Programming
<1>6. QED
  BY <1>1, <1>2, <1>3, <1>4, <1>5

LEMMA ProgramNothingSane ==
  ASSUME Sane, ProgramNothing
  PROVE  Sane'
<1>1. /\ pc = "program" /\ Appended(FALSE) /\ UNCHANGED <<flash, slot>>
      /\ damage' = IF FreeSlots = {} /\ ~rewriting THEN damage ELSE "present"
  BY DEF ProgramNothing
<1>2. /\ rewriting' = rewriting /\ rewriting \in BOOLEAN
      /\ writing' \in Seq(Record) /\ Len(writing') <= MaxRecords
      /\ pc' \in {"idle", "erase", "program"}
      /\ pc' = "erase" <=> ~rewriting
      /\ CallCoupling'
  BY <1>1, AppendedSane DEF Programming
<1>3. TypeOK'
  BY <1>1, <1>2 DEF Sane, TypeOK, Appended, log
<1>4. PageShape'
  BY <1>1, PageLeftAlone DEF Sane, Coupled
<1>5. PageCoupling'
  BY <1>1, <1>2 DEF PageCoupling, Programming, Sound
<1>6. QED
  BY <1>2, <1>3, <1>4, <1>5 DEF Sane, Coupled

LEMMA ProgramStartSane ==
  ASSUME Sane, ProgramStart
  PROVE  Sane' /\ Intact' = Intact
<1>1. /\ pc = "program" /\ pc' = "finish" /\ FreeSlots # {}
      /\ slot' = FirstFree /\ flash' = [flash EXCEPT ![FirstFree] = Phantom]
      /\ UNCHANGED <<log, writing, rewriting, damage>>
  BY DEF ProgramStart
<1>2. /\ PageShape' /\ Kept(flash')[FirstFree - 1] = Loaded
      /\ FirstFree \in Slots /\ Used' = FirstFree /\ flash'[FirstFree] = Phantom
  BY <1>1, SlotStarted DEF Sane, Coupled
<1>3. Intact' = Loaded /\ Intact = Loaded
  BY <1>1, <1>2 DEF Intact
<1>4. TypeOK'
  BY <1>1, <1>2, PhantomType DEF Sane, TypeOK, log
<1>5. CallCoupling'
  BY <1>1, <1>2 DEF Sane, Coupled, CallCoupling, Programming, log, Unfinished
<1>6. PageCoupling'
  BY <1>1, <1>3 DEF Sane, Coupled, PageCoupling, Programming, Sound, log
<1>7. QED
  BY <1>2, <1>3, <1>4, <1>5, <1>6 DEF Sane, Coupled

LEMMA ProgramMoreSane ==
  ASSUME Sane, ProgramMore
  PROVE  Sane' /\ Intact' = Intact
<1>1. /\ pc = "finish" /\ UNCHANGED <<pc, log, writing, rewriting, slot, damage>>
      /\ slot \in Slots /\ slot = Used /\ PageShape /\ Intact = Kept(flash)[slot - 1]
      /\ Unfinished(Head(writing)) \subseteq Record
  BY SlotLoads DEF ProgramMore
<1>2. PICK content \in Unfinished(Head(writing)) \cup {Torn} :
        flash' = [flash EXCEPT ![slot] = content]
  BY DEF ProgramMore
<1>3. content \in Content /\ content # Erased
  BY <1>1, LimitsAssumption DEF Content
<1>4. /\ PageShape' /\ Used' = slot /\ flash'[slot] = content
      /\ Kept(flash')[slot - 1] = Kept(flash)[slot - 1]
  BY <1>1, <1>2, <1>3, SlotRewritten
<1>5. Intact' = Intact
  BY <1>1, <1>4 DEF Intact
<1>6. TypeOK'
  BY <1>1, <1>2, <1>3 DEF Sane, TypeOK, log, Content
<1>7. CallCoupling'
  BY <1>1, <1>2, <1>4 DEF Sane, Coupled, CallCoupling, Programming, log
<1>8. PageCoupling'
  BY <1>1, <1>5 DEF Sane, Coupled, PageCoupling, Programming, Sound, log
<1>9. QED
  BY <1>4, <1>5, <1>6, <1>7, <1>8 DEF Sane, Coupled

\* The slot holds the record in the end, or what it held stays there.
LEMMA SlotFinished ==
  ASSUME Sane, NEW ok \in BOOLEAN, ProgramFinish(ok)
  PROVE  /\ PageShape' /\ flash' \in [Slots -> Content]
         /\ Loaded' = IF ok THEN Append(Intact, Head(writing)) ELSE Loaded
<1>1. /\ pc = "finish"
      /\ flash' = IF ok THEN [flash EXCEPT ![slot] = Head(writing)] ELSE flash
      /\ slot \in Slots /\ slot = Used /\ PageShape /\ Intact = Kept(flash)[slot - 1]
      /\ Head(writing) \in Record /\ flash \in [Slots -> Content]
  BY SlotLoads DEF ProgramFinish, Sane, TypeOK, Content
<1>2. CASE ok
  <2>1. Head(writing) \in Content /\ Head(writing) # Erased
    BY <1>1, LimitsAssumption DEF Content
  <2>2. PageShape' /\ Loaded' = Append(Intact, Head(writing))
    BY <1>1, <1>2, <2>1, SlotRewritten
  <2>3. QED
    BY <1>1, <1>2, <2>1, <2>2
<1>3. CASE ~ok
  BY <1>1, <1>3, PageLeftAlone
<1>4. QED
  BY <1>2, <1>3

LEMMA ProgramFinishSane ==
  ASSUME Sane, NEW ok \in BOOLEAN, ProgramFinish(ok)
  PROVE  Sane'
<1>1. /\ pc = "finish" /\ Appended(ok) /\ UNCHANGED slot
      /\ damage' = IF ok THEN damage ELSE "present"
  BY DEF ProgramFinish
<1>2. /\ Programming /\ ram \in Seq(Record)
      /\ writing \in Seq(Record) /\ writing # <<>>
      /\ Head(writing) \in Record /\ Intact \in Seq(Record)
  BY <1>1, SlotLoads DEF Sane, TypeOK, Programming
<1>3. /\ ram' = ram /\ rewriting' = rewriting /\ rewriting \in BOOLEAN
      /\ writing' \in Seq(Record) /\ Len(writing') <= MaxRecords
      /\ pc' \in {"idle", "erase", "program"}
      /\ pc' = "erase" <=> ~ok /\ ~rewriting
      /\ pc' = "program" => rewriting
      /\ CallCoupling'
  BY <1>1, <1>2, AppendedSane
<1>4. /\ Append(Intact, Head(writing)) \o Tail(writing) = Intact \o writing
      /\ Len(writing) = 1 => Append(Intact, Head(writing)) = Intact \o writing
  BY <1>2, HeadMoved
<1>5. /\ PageShape' /\ flash' \in [Slots -> Content]
      /\ Loaded' = IF ok THEN Append(Intact, Head(writing)) ELSE Loaded
  BY SlotFinished
<1>6. TypeOK'
  BY <1>1, <1>3, <1>5 DEF Sane, TypeOK, Appended, log, Content
<1>7. CASE ok
  <2>1. Intact' = Append(Intact, Head(writing)) /\ Loaded' = Intact'
    BY <1>3, <1>5, <1>7 DEF Intact
  <2>2. writing' = Tail(writing) /\ (pc' = "idle" => Len(writing) = 1)
    BY <1>1, <1>7 DEF Appended
  <2>3. ASSUME Sound', rewriting
        PROVE  IF pc' = "idle" THEN Loaded' = ram' ELSE Intact' \o writing' = ram'
    <3>1. Intact \o writing = ram
      BY <1>1, <1>2, <1>7, <2>3 DEF Sane, Coupled, PageCoupling, Sound
    <3>2. QED
      BY <1>3, <1>4, <2>1, <2>2, <3>1
  <2>4. ASSUME Sound', ~rewriting
        PROVE  Loaded' = ram'
    <3>1. Intact = Front(ram) /\ ram # <<>> /\ writing = <<Last(ram)>>
      BY <1>1, <1>2, <1>7, <2>4
      DEF Sane, Coupled, PageCoupling, CallCoupling, Sound
    <3>2. Head(writing) = Last(ram)
      BY <3>1
    <3>3. QED
      BY <1>2, <1>3, <2>1, <3>1, <3>2, FrontAndLast
  <2>5. PageCoupling'
    BY <1>3, <1>7, <2>3, <2>4 DEF PageCoupling, Programming
  <2>6. QED
    BY <1>3, <1>5, <1>6, <2>5 DEF Sane, Coupled
<1>8. CASE ~ok
  <2>1. PageCoupling'
    BY <1>1, <1>8 DEF PageCoupling, Sound
  <2>2. QED
    BY <1>3, <1>5, <1>6, <2>1 DEF Sane, Coupled
<1>9. QED
  BY <1>7, <1>8

LEMMA SanePreserved == Sane /\ [Next]_vars => Sane'
<1> SUFFICES ASSUME Sane, [Next]_vars PROVE Sane'
  OBVIOUS
<1>1. CASE Boot
  BY <1>1, BootSane
<1>2. CASE Reset
  BY <1>2, ResetSane
<1>3. CASE RecordFault
  BY <1>3, RecordFaultSane
<1>4. CASE Clear
  BY <1>4, ClearSane
<1>5. ASSUME NEW ok \in BOOLEAN, ClearErase(ok) \/ Erase(ok) \/ ProgramFinish(ok)
      PROVE  Sane'
  BY <1>5, ClearEraseSane, EraseSane, ProgramFinishSane
<1>6. CASE ProgramNothing
  BY <1>6, ProgramNothingSane
<1>7. CASE ProgramStart \/ ProgramMore
  BY <1>7, ProgramStartSane, ProgramMoreSane
<1>8. CASE UNCHANGED vars
  <2>1. PageShape' /\ Used' = Used /\ Loaded' = Loaded
    BY <1>8, PageLeftAlone DEF Sane, Coupled, vars, page
  <2>2. Intact' = Intact
    BY <1>8, <2>1 DEF vars, page, Intact
  <2>3. QED
    BY <1>8, <2>1, <2>2
    DEF Sane, Coupled, CallCoupling, PageCoupling, Programming, Sound, TypeOK,
        vars, log, page
<1>9. QED
  BY <1>1, <1>2, <1>3, <1>4, <1>5, <1>6, <1>7, <1>8 DEF Next

LEMMA AlwaysSane == Spec => []Sane
<1>1. QED
  BY InitSane, SanePreserved, PTL DEF Spec

\* Every variable keeps its type: neither the FIFO nor what loadFromFlash()
\* makes of a page overruns s_records, and the saturating counters stay in
\* their 16 bits.
THEOREM TypeCorrect == Spec => []TypeOK
<1>1. Sane => TypeOK
  BY DEF Sane
<1>2. QED
  BY <1>1, AlwaysSane, PTL

-----------------------------------------------------------------------------
(* What a reset leaves.                                                     *)

\* When rewriteAll() is about to erase the page, the page holds all but the record
\* that made it necessary, and perhaps the one that made way for it.
EraseCoupling ==
  pc = "erase" /\ Sound => Front(ram) = Loaded \/ Front(ram) = Tail(Loaded)

LEMMA EraseCouplingPreserved ==
  ASSUME Sane, EraseCoupling, [Next]_vars
  PROVE  EraseCoupling'
<1>1. CASE RecordFault
  <2> SUFFICES ASSUME pc' = "erase", Sound' PROVE Front(ram') = Tail(Loaded')
    BY DEF EraseCoupling
  <2>1. /\ pc = "idle" /\ Sound /\ ~(Len(ram) < MaxRecords)
        /\ ram' = Append(Tail(ram), NewRecord) /\ flash' = flash
    BY <1>1 DEF RecordFault, Sound
  <2>2. Loaded' = Loaded /\ Loaded = ram
    BY <2>1, PageLeftAlone DEF Sane, Coupled, PageCoupling
  <2>3. ram \in Seq(Record) /\ ram # <<>>
    BY <2>1, LimitsAssumption DEF Sane, TypeOK
  <2>4. Tail(ram) \in Seq(Record) /\ NewRecord \in Record
    BY <2>3, HeadTailProperties DEF Sane, TypeOK, NewRecord, Record
  <2>5. Front(ram') = Tail(ram)
    BY <2>1, <2>4, AppendedRecord
  <2>6. QED
    BY <2>2, <2>5
<1>2. CASE ProgramNothing
  <2> SUFFICES ASSUME pc' = "erase", Sound' PROVE Front(ram') = Loaded'
    BY DEF EraseCoupling
  <2>1. /\ pc = "program" /\ Appended(FALSE) /\ flash' = flash
        /\ damage' = IF FreeSlots = {} /\ ~rewriting THEN damage ELSE "present"
    BY <1>2 DEF ProgramNothing
  <2>2. ram' = ram /\ ~rewriting /\ Sound /\ Programming
    BY <2>1 DEF Appended, log, Sound, Programming
  <2>3. Loaded' = Loaded /\ Intact = Loaded
    BY <2>1, PageLeftAlone DEF Sane, Coupled, Intact
  <2>4. QED
    BY <2>2, <2>3 DEF Sane, Coupled, PageCoupling
<1>3. ASSUME NEW ok \in BOOLEAN, ProgramFinish(ok) PROVE EraseCoupling'
  BY <1>3 DEF ProgramFinish, Appended, EraseCoupling, Sound
<1>4. ASSUME NEW ok \in BOOLEAN, ClearErase(ok) \/ Erase(ok) PROVE EraseCoupling'
  BY <1>4 DEF ClearErase, Erase, EraseCoupling
<1>5. CASE Boot \/ Reset \/ Clear \/ ProgramStart \/ ProgramMore
  BY <1>5 DEF Boot, Reset, Clear, ProgramStart, ProgramMore, EraseCoupling
<1>6. CASE UNCHANGED vars
  <2>1. Loaded' = Loaded
    BY <1>6, PageLeftAlone DEF Sane, Coupled, vars, page
  <2>2. QED
    BY <1>6, <2>1 DEF vars, log, EraseCoupling, Sound
<1>7. QED
  BY <1>1, <1>2, <1>3, <1>4, <1>5, <1>6 DEF Next

LEMMA CoupledHalves ==
  ASSUME Sane, Sound, Programming
  PROVE  Intact \o writing = ram /\ (Len(writing) = 1 \/ rewriting)
<1>1. CASE rewriting
  BY <1>1 DEF Sane, Coupled, PageCoupling
<1>2. CASE ~rewriting
  <2>1. ram \in Seq(Record) /\ ram # <<>> /\ writing = <<Last(ram)>> /\ Intact = Front(ram)
    BY <1>2 DEF Sane, TypeOK, Coupled, CallCoupling, PageCoupling
  <2>2. Last(ram) \in Record /\ Intact \in Seq(Record) /\ Append(Intact, Last(ram)) = ram
    BY <2>1, FrontAndLast
  <2>3. writing \in Seq(Record) /\ Len(writing) = 1 /\ writing # <<>> /\ Head(writing) = Last(ram)
    BY <2>1, <2>2, OneRecord
  <2>4. Append(Intact, Head(writing)) = Intact \o writing
    BY <2>2, <2>3, HeadMoved
  <2>5. QED
    BY <2>2, <2>3, <2>4
<1>3. QED
  BY <1>1, <1>2 DEF Sane, TypeOK

LEMMA CoupledSurvives == Sane /\ EraseCoupling => SurvivesReset
<1> SUFFICES ASSUME Sane, EraseCoupling, Sound PROVE SurvivesReset
  BY DEF SurvivesReset, Sound
<1>1. Programming => Intact \o writing = ram /\ (Len(writing) = 1 \/ rewriting)
  BY CoupledHalves
<1>2. pc = "idle" => Loaded = ram
  BY DEF Sane, Coupled, PageCoupling
<1>3. pc = "finish" =>
        \/ Loaded = Intact
        \/ \E spoilt \in Unfinished(Head(writing)) : Loaded = Append(Intact, spoilt)
  BY SlotLoads
<1>4. QED
  BY <1>1, <1>2, <1>3 DEF SurvivesReset, Programming, EraseCoupling

\* A reset costs what the call in progress has not made durable and no more: nothing
\* between two calls; the record being appended, of which a spoilt one may be read
\* instead; or what rewriteAll() has still to write.  Resets and spoilt slots before
\* do not add to it.
THEOREM ResetLosesNoMore == Spec => []SurvivesReset
<1>1. Init => EraseCoupling
  BY DEF Init, EraseCoupling
<1>2. Spec => [](Sane /\ EraseCoupling)
  BY InitSane, SanePreserved, <1>1, EraseCouplingPreserved, PTL DEF Spec
<1>3. QED
  BY <1>2, CoupledSurvives, PTL

-----------------------------------------------------------------------------
(* The order of the history.  It has to hold of the page as well as of RAM, *)
(* since a boot makes the one the other, and the newest record bounds the   *)
(* counters the next one gets.  A record spoilt in its slot does not break  *)
(* the order: the fields it lacks read as the maximum.                      *)

Before(r, t) ==
  /\ r.sequence < t.sequence \/ r.sequence = MaxSequence
  /\ r.reset_count <= t.reset_count

InOrder(s) == \A i \in 1 .. Len(s) - 1 : Before(s[i], s[i + 1])

Chronology ==
  damage = "none" =>
    /\ InOrder(ram)
    /\ pc # "finish" => InOrder(Loaded)
    /\ ram # <<>> =>
         /\ Last(ram).sequence < next_sequence \/ Last(ram).sequence = MaxSequence
         /\ Last(ram).reset_count <= reset_count

LEMMA EmptyInOrder == InOrder(<<>>)
BY DEF InOrder

LEMMA AppendInOrder ==
  ASSUME NEW s \in Seq(Record), NEW r \in Record, InOrder(s),
         s # <<>> => Before(Last(s), r)
  PROVE  InOrder(Append(s, r))
<1>1. /\ Len(Append(s, r)) = Len(s) + 1 /\ Len(s) \in Nat
      /\ Append(s, r)[Len(s) + 1] = r
      /\ \A i \in 1 .. Len(s) : Append(s, r)[i] = s[i]
  BY AppendProperties, LenProperties
<1>2. ASSUME NEW i \in 1 .. Len(s) PROVE Before(Append(s, r)[i], Append(s, r)[i + 1])
  <2>1. CASE i = Len(s)
    BY <1>1, <2>1 DEF Last
  <2>2. CASE i # Len(s)
    BY <1>1, <2>2 DEF InOrder
  <2>3. QED
    BY <2>1, <2>2
<1>3. QED
  BY <1>1, <1>2 DEF InOrder

LEMMA TailInOrder ==
  ASSUME NEW s \in Seq(Record), s # <<>>, InOrder(s)
  PROVE  /\ Tail(s) \in Seq(Record) /\ InOrder(Tail(s))
         /\ Tail(s) # <<>> => Last(Tail(s)) = Last(s)
<1>1. /\ Tail(s) \in Seq(Record) /\ Len(Tail(s)) = Len(s) - 1 /\ Len(s) \in Nat
      /\ \A i \in 1 .. Len(Tail(s)) : Tail(s)[i] = s[i + 1]
  BY HeadTailProperties, LenProperties
<1>2. InOrder(Tail(s))
  BY <1>1 DEF InOrder
<1>3. ASSUME Tail(s) # <<>> PROVE Last(Tail(s)) = Last(s)
  <2>1. Len(Tail(s)) \in Nat \ {0}
    BY <1>1, <1>3, EmptySeq
  <2>2. QED
    BY <1>1, <2>1 DEF Last
<1>4. QED
  BY <1>1, <1>2, <1>3

LEMMA PrefixInOrder ==
  ASSUME NEW s \in Seq(Record), NEW t \in Seq(Record), InOrder(s \o t)
  PROVE  InOrder(s)
<1>1. /\ Len(s \o t) = Len(s) + Len(t) /\ Len(s) \in Nat /\ Len(t) \in Nat
      /\ \A i \in 1 .. Len(s) : (s \o t)[i] = s[i]
  BY ConcatProperties, LenProperties
<1>2. QED
  BY <1>1 DEF InOrder

\* Whatever of the next record reads as its maximum comes after what is intact.
LEMMA SpoiltInOrder ==
  ASSUME Sane, pc = "finish", Sound, InOrder(ram)
  PROVE  InOrder(Loaded)
<1>1. /\ Intact \in Seq(Record) /\ writing \in Seq(Record) /\ writing # <<>>
      /\ Head(writing) \in Record /\ Unfinished(Head(writing)) \subseteq Record
      /\ \/ Loaded = Intact
         \/ /\ flash[slot] \in Unfinished(Head(writing))
            /\ Loaded = Append(Intact, flash[slot])
  BY SlotLoads
<1>2. Intact \o writing = ram
  BY CoupledHalves DEF Programming
<1>3. InOrder(Intact)
  BY <1>1, <1>2, PrefixInOrder
<1>4. ASSUME Intact # <<>>, NEW spoilt \in Unfinished(Head(writing))
      PROVE  Before(Last(Intact), spoilt)
  <2>1. /\ Len(Intact) \in Nat /\ Len(writing) \in Nat
        /\ Len(Intact) # 0 /\ Len(writing) # 0
        /\ Len(Intact \o writing) = Len(Intact) + Len(writing)
        /\ \A i \in 1 .. Len(Intact) + Len(writing) :
             (Intact \o writing)[i] =
               IF i <= Len(Intact) THEN Intact[i] ELSE writing[i - Len(Intact)]
    BY <1>1, <1>4, LenProperties, ConcatProperties, EmptySeq
  <2>2. /\ Len(Intact) \in 1 .. Len(ram) - 1
        /\ ram[Len(Intact)] = Intact[Len(Intact)]
        /\ ram[Len(Intact) + 1] = writing[1]
    <3>1. \A a, b \in Nat : a # 0 /\ b # 0 =>
            /\ a \in 1 .. (a + b) - 1 /\ a \in 1 .. a + b /\ a + 1 \in 1 .. a + b
            /\ ~(a + 1 <= a) /\ (a + 1) - a = 1 /\ a <= a
      OBVIOUS
    <3>2. QED
      BY ONLY <1>2, <2>1, <3>1
  <2>3. Last(Intact) = ram[Len(Intact)] /\ Head(writing) = ram[Len(Intact) + 1]
    BY <1>1, <2>2, HeadTailProperties DEF Last
  <2>4. Before(Last(Intact), Head(writing))
    BY <2>2, <2>3 DEF InOrder
  <2>5. Last(Intact) \in Record
    BY <1>1, <1>4, FrontAndLast
  <2>6. QED
    BY <1>1, <2>4, <2>5, LimitsAssumption DEF Before, Unfinished, Phantom, Record
<1>5. QED
  BY <1>1, <1>3, <1>4, AppendInOrder

LEMMA PageInOrder ==
  ASSUME Sane, Chronology, damage = "none"
  PROVE  InOrder(Loaded)
BY SpoiltInOrder DEF Chronology, Sound

LEMMA InitChronology == Init => Chronology
<1> SUFFICES ASSUME Init PROVE Chronology
  OBVIOUS
<1>1. Loaded = <<>>
  <2>1. UsedUpTo(flash, 0)
    BY LimitsAssumption DEF Init, UsedUpTo, Content, Slots
  <2>2. Loaded = Kept(flash)[0] /\ Kept(flash)[0] = <<>>
    BY <2>1, LoadedIs, KeptDefined, LimitsAssumption DEF KeptStep
  <2>3. QED
    BY <2>2
<1>2. QED
  BY <1>1, EmptyInOrder DEF Init, Chronology

LEMMA BootChronology ==
  ASSUME Sane, Chronology, Boot
  PROVE  Chronology'
<1> SUFFICES ASSUME damage' = "none"
             PROVE  /\ InOrder(ram') /\ InOrder(Loaded')
                    /\ ram' # <<>> =>
                         /\ \/ Last(ram').sequence < next_sequence'
                            \/ Last(ram').sequence = MaxSequence
                         /\ Last(ram').reset_count <= reset_count'
  BY DEF Chronology
<1>1. damage = "none" /\ ram' = Loaded /\ next_sequence' = SequenceAfter(Loaded)
  BY DEF Boot
<1>2. InOrder(Loaded) /\ Loaded' = Loaded /\ Loaded \in Seq(Record)
  BY <1>1, PageLeftAlone, LoadedType, PageInOrder DEF Boot, Sane, Coupled, page
<1>3. ASSUME Loaded # <<>>
      PROVE  /\ \/ Last(Loaded).sequence < next_sequence'
                \/ Last(Loaded).sequence = MaxSequence
             /\ Last(Loaded).reset_count <= reset_count'
  <2>1. Last(Loaded) \in Record
    BY <1>2, <1>3, FrontAndLast
  <2>2. Last(Loaded).reset_count \in 0 .. MaxResets
    BY <2>1 DEF Record
  <2>3. reset_count' = IF Last(Loaded).reset_count = MaxResets
                         THEN Last(Loaded).reset_count
                         ELSE Last(Loaded).reset_count + 1
    BY <1>3 DEF Boot
  <2>4. Last(Loaded).reset_count <= reset_count'
    BY <2>2, <2>3, LimitsAssumption
  <2>5. QED
    BY <1>1, <1>2, <1>3, <2>4, SequenceAfterNewest DEF Last
<1>4. QED
  BY <1>1, <1>2, <1>3

LEMMA RecordFaultChronology ==
  ASSUME Sane, Chronology, RecordFault
  PROVE  Chronology'
<1>1. CASE damage' # "none"
  BY <1>1 DEF Chronology
<1>2. CASE damage' = "none"
  <2>1. /\ damage = "none" /\ Loaded' = Loaded /\ reset_count' = reset_count
        /\ next_sequence' = IF next_sequence = MaxSequence THEN MaxSequence
                                                           ELSE next_sequence + 1
    BY <1>2, PageLeftAlone DEF RecordFault, Sane, Coupled
  <2>2. /\ ram \in Seq(Record) /\ next_sequence \in 0 .. MaxSequence
        /\ reset_count \in 0 .. MaxResets
    BY DEF Sane, TypeOK
  <2>3. /\ NewRecord \in Record /\ NewRecord.sequence = next_sequence
        /\ NewRecord.reset_count = reset_count
    BY <2>2 DEF NewRecord, Record
  <2>4. InOrder(ram) /\ (ram # <<>> => Before(Last(ram), NewRecord))
    BY <2>1, <2>3 DEF Chronology, Before
  <2>5. PICK s \in Seq(Record) : /\ ram' = Append(s, NewRecord) /\ InOrder(s)
                                 /\ s # <<>> => Before(Last(s), NewRecord)
    <3>1. CASE Len(ram) < MaxRecords
      BY <2>2, <2>4, <3>1 DEF RecordFault
    <3>2. CASE ~(Len(ram) < MaxRecords)
      <4>1. ram # <<>> /\ ram' = Append(Tail(ram), NewRecord)
        BY <3>2, LimitsAssumption DEF RecordFault
      <4>2. QED
        BY <2>2, <2>4, <4>1, TailInOrder
    <3>3. QED
      BY <3>1, <3>2
  <2>6. InOrder(ram') /\ Last(ram') = NewRecord
    BY <2>3, <2>5, AppendInOrder, AppendedRecord
  <2>7. NewRecord.sequence < next_sequence' \/ NewRecord.sequence = MaxSequence
    BY <2>1, <2>2, <2>3, LimitsAssumption
  <2>8. NewRecord.reset_count <= reset_count'
    BY <2>1, <2>2, <2>3, LimitsAssumption
  <2>9. QED
    BY <2>1, <2>6, <2>7, <2>8, PageInOrder DEF Chronology
<1>3. QED
  BY <1>1, <1>2

LEMMA ProgramFinishChronology ==
  ASSUME Sane, Chronology, NEW ok \in BOOLEAN, ProgramFinish(ok)
  PROVE  Chronology'
<1>1. CASE damage' # "none"
  BY <1>1 DEF Chronology
<1>2. CASE damage' = "none"
  <2>1. ok /\ damage = "none"
    BY <1>2 DEF ProgramFinish
  <2>2. UNCHANGED log /\ ram' = ram
    BY DEF ProgramFinish, Appended, log
  <2>3. Sane'
    BY ProgramFinishSane
  <2>4. Head(writing) \in Record /\ Intact \in Seq(Record)
    BY SlotLoads DEF ProgramFinish
  <2>5. Loaded' \in Seq(Record)
    <3>1. Loaded' = Append(Intact, Head(writing))
      BY <2>1, SlotFinished
    <3>2. QED
      BY <2>4, <3>1, AppendedRecord
  <2>6. Sound' /\ writing' \in Seq(Record) /\ InOrder(ram')
    BY <1>2, <2>1, <2>2, <2>3 DEF Sound, Sane, TypeOK, Chronology
  <2>7. pc' = "idle" \/ (pc' = "program" /\ rewriting')
    <3>1. Programming /\ Appended(ok)
      BY DEF ProgramFinish, Programming
    <3>2. /\ pc' \in {"idle", "erase", "program"}
          /\ pc' = "erase" <=> ~ok /\ ~rewriting
          /\ pc' = "program" => rewriting
          /\ rewriting' = rewriting
      BY <3>1, AppendedSane
    <3>3. CASE pc' = "program"
      BY <3>2, <3>3, Zenon
    <3>4. pc' # "erase"
      BY <2>1, <3>2
    <3>5. pc' = "idle" \/ pc' = "program"
      BY ONLY <3>2, <3>4
    <3>6. QED
      BY <3>3, <3>5
  <2>8. InOrder(Loaded')
    <3>1. CASE pc' = "idle"
      BY <2>3, <2>6, <3>1 DEF Sane, Coupled, PageCoupling
    <3>2. CASE pc' = "program" /\ rewriting'
      <4>1. Loaded' \o writing' = ram'
        BY <2>3, <2>6, <3>2 DEF Sane, Coupled, PageCoupling, Programming, Intact
      <4>2. QED
        BY <2>5, <2>6, <4>1, PrefixInOrder
    <3>3. QED
      BY <2>7, <3>1, <3>2
  <2>9. QED
    BY <2>1, <2>2, <2>6, <2>8 DEF Chronology, log
<1>3. QED
  BY <1>1, <1>2

\* A step that leaves RAM alone, and the page in order or empty.
LEMMA LogUntouched ==
  ASSUME Chronology, UNCHANGED log, damage' = "none" => damage = "none",
         damage' = "none" /\ pc' # "finish" => Loaded' = <<>> \/ InOrder(Loaded')
  PROVE  Chronology'
BY EmptyInOrder DEF Chronology, log

LEMMA ChronologyPreserved == Sane /\ Chronology /\ [Next]_vars => Chronology'
<1> SUFFICES ASSUME Sane, Chronology, [Next]_vars PROVE Chronology'
  OBVIOUS
<1>1. CASE Boot
  BY <1>1, BootChronology
<1>2. CASE Reset
  BY <1>2, PageLeftAlone, EmptyInOrder, PageInOrder DEF Reset, Chronology, Sane, Coupled
<1>3. CASE RecordFault
  BY <1>3, RecordFaultChronology
<1>4. CASE Clear
  BY <1>4, PageLeftAlone, EmptyInOrder DEF Clear, Chronology, Sane, Coupled, page
<1>5. ASSUME NEW ok \in BOOLEAN, ClearErase(ok) \/ Erase(ok)
      PROVE  Chronology'
  <2>1. Wiped(ok) /\ UNCHANGED log
    BY <1>5 DEF ClearErase, Erase
  <2>2. damage' = "none" => damage = "none" /\ Loaded' = <<>>
    BY <2>1, WipedPage DEF Wiped, Sound
  <2>3. QED
    BY <2>1, <2>2, LogUntouched
<1>6. ASSUME NEW ok \in BOOLEAN, ProgramFinish(ok) PROVE Chronology'
  BY <1>6, ProgramFinishChronology
<1>7. CASE ProgramNothing
  <2>1. UNCHANGED log /\ Loaded' = Loaded /\ (damage' = "none" => damage = "none")
    BY <1>7, PageLeftAlone DEF ProgramNothing, Appended, Sane, Coupled
  <2>2. QED
    BY <2>1, PageInOrder, LogUntouched
<1>8. CASE ProgramStart \/ ProgramMore
  BY <1>8 DEF ProgramStart, ProgramMore, Chronology, log
<1>9. CASE UNCHANGED vars
  <2>1. UNCHANGED log /\ Loaded' = Loaded /\ damage' = damage
    BY <1>9, PageLeftAlone DEF vars, page, Sane, Coupled
  <2>2. QED
    BY <2>1, PageInOrder, LogUntouched
<1>10. QED
  BY <1>1, <1>2, <1>3, <1>4, <1>5, <1>6, <1>7, <1>8, <1>9 DEF Next

LEMMA AlwaysChronology == Spec => []Chronology
<1>1. QED
  BY InitChronology, ChronologyPreserved, AlwaysSane, PTL DEF Spec

\* On flash that never failed the records RG reads are in the order of their
\* sequences, through any number of resets, overflows of the FIFO and clears,
\* and whatever records were cut short: the numbers restart only after the last
\* 16-bit one, which a record cut short after its magic is loaded with.
THEOREM HistoryInSequence == Spec => []SequencesInOrder
<1>1. Chronology => SequencesInOrder
  BY DEF Chronology, InOrder, Before, SequencesInOrder
<1>2. QED
  BY <1>1, AlwaysChronology, PTL

\* Nor do the counts of resets in them ever go backwards, and none is above the
\* count RG reads of the device, which stays at its maximum once a record cut
\* short has been loaded with it.
THEOREM ResetsInSequence == Spec => []ResetCountsInOrder
<1>1. Sane /\ Chronology => ResetCountsInOrder
  <2> SUFFICES ASSUME Sane, Chronology, damage = "none", NEW i \in 1 .. Len(ram)
               PROVE  ram[i].reset_count <= IF i < Len(ram) THEN ram[i+1].reset_count
                                                             ELSE reset_count
    BY DEF ResetCountsInOrder
  <2>1. Len(ram) \in Nat /\ ram # <<>>
    BY LenProperties DEF Sane, TypeOK
  <2>2. CASE i < Len(ram)
    BY <2>1, <2>2 DEF Chronology, InOrder, Before
  <2>3. CASE i = Len(ram)
    BY <2>1, <2>3 DEF Chronology, Last
  <2>4. QED
    BY <2>1, <2>2, <2>3
<1>2. QED
  BY <1>1, AlwaysSane, AlwaysChronology, PTL

-----------------------------------------------------------------------------
(* The page implements DurableLog.                                          *)

LEMMA DurableInit == Init => Durable!Init
<1> SUFFICES ASSUME Init PROVE Durable!Init
  OBVIOUS
<1>1. UsedUpTo(flash, 0)
  BY LimitsAssumption DEF Init, UsedUpTo, Content, Slots
<1>2. Loaded = Kept(flash)[0]
  BY <1>1, LoadedIs
<1>3. Kept(flash)[0] = <<>>
  BY KeptDefined, LimitsAssumption DEF KeptStep
<1>4. QED
  BY <1>2, <1>3 DEF Init, Phase, Intact, Half, Durable!Init

\* Outside flashAppend() nothing is half written.
LEMMA Whole == ASSUME pc # "finish" PROVE Intact = Loaded /\ Half = <<>>
BY DEF Intact, Half

\* A step that leaves the page alone, and ends what was being programmed.
LEMMA PageCut ==
  ASSUME Sane, UNCHANGED flash, pc' # "finish"
  PROVE  /\ Durable!cut
         /\ pc # "finish" => Intact' = Intact /\ Half' = Half
<1>1. Loaded' = Loaded
  BY PageLeftAlone DEF Sane, Coupled
<1>2. Intact' = Loaded /\ Half' = <<>>
  BY <1>1 DEF Intact, Half
<1>3. Loaded = Intact \o Half
  BY LoadedIsIntactAndHalf
<1>4. QED
  BY <1>2, <1>3, Whole DEF Durable!cut

LEMMA DurableBoot == Sane /\ Boot => Durable!boot
<1> SUFFICES ASSUME Sane, Boot PROVE Durable!boot
  OBVIOUS
<1>1. Intact' = Intact /\ Half' = Half /\ Intact = Loaded
  BY PageCut, Whole DEF Boot, page
<1>2. Phase = "down" /\ Phase' = "idle"
  BY DEF Boot, Phase
<1>3. ram' = Loaded /\ ~(damage' = "present")
  BY DEF Boot
<1>4. QED
  BY <1>1, <1>2, <1>3 DEF Durable!boot

LEMMA DurableReset == Sane /\ Reset => Durable!reset
<1> SUFFICES ASSUME Sane, Reset PROVE Durable!reset
  OBVIOUS
<1>1. Durable!cut
  BY PageCut DEF Reset
<1>2. Phase # "down" /\ Phase' = "down"
  BY DEF Reset, Phase, Sane, TypeOK
<1>3. QED
  BY <1>1, <1>2 DEF Reset, Durable!reset

LEMMA DurableRecord ==
  Sane /\ RecordFault => \E entry \in Record : Durable!record(entry)
<1> SUFFICES ASSUME Sane, RecordFault PROVE Durable!record(NewRecord) /\ NewRecord \in Record
  OBVIOUS
<1>1. NewRecord \in Record
  BY DEF Sane, TypeOK, NewRecord, Record
<1>2. Intact' = Intact /\ Half' = Half
  BY PageCut DEF RecordFault
<1>3. Phase = "idle" /\ Phase' = IF Len(ram) < MaxRecords THEN "append" ELSE "rewrite"
  BY DEF RecordFault, Phase
<1>4. QED
  BY <1>1, <1>2, <1>3 DEF RecordFault, Durable!record

LEMMA DurableClear == Sane /\ Clear => Durable!clear
<1> SUFFICES ASSUME Sane, Clear PROVE Durable!clear
  OBVIOUS
<1>1. Intact' = Intact /\ Half' = Half
  BY PageCut DEF Clear, page
<1>2. Phase = "idle" /\ Phase' = "clear"
  BY DEF Clear, Phase
<1>3. QED
  BY <1>1, <1>2 DEF Clear, Durable!clear

\* The page is empty and everything true of it again, or it is as it was.
LEMMA DurableErase ==
  ASSUME Sane, NEW ok \in BOOLEAN, ClearErase(ok) \/ Erase(ok)
  PROVE  Durable!erase
<1>1. Wiped(ok) /\ ram' = ram
  BY DEF ClearErase, Erase, log
<1>2. /\ Phase \in {"rewrite", "clear"}
      /\ Phase' = IF Phase = "clear" THEN "idle" ELSE "regrow"
  BY DEF ClearErase, Erase, Phase
<1>a. /\ pc # "finish" /\ pc' # "finish"
      /\ Intact' = Loaded' /\ Half' = <<>> /\ Intact = Loaded /\ Half = <<>>
  BY DEF ClearErase, Erase, Intact, Half
<1>3. CASE ok
  <2>1. Loaded' = <<>>
    BY <1>1, <1>3, PageErased DEF Wiped
  <2>2. ~(damage' = "present")
    BY <1>1, <1>3 DEF Wiped
  <2>3. QED
    BY <1>1, <1>2, <1>a, <2>1, <2>2 DEF Durable!erase
<1>4. CASE ~ok
  <2>1. Loaded' = Loaded /\ damage' = "present"
    BY <1>1, <1>4, PageLeftAlone DEF Wiped, Sane, Coupled
  <2>2. QED
    BY <1>1, <1>2, <1>a, <2>1 DEF Durable!erase
<1>5. QED
  BY <1>3, <1>4

LEMMA DurableNothing == Sane /\ ProgramNothing => Durable!fallBack \/ Durable!falter
<1> SUFFICES ASSUME Sane, ProgramNothing PROVE Durable!fallBack \/ Durable!falter
  OBVIOUS
<1>1. /\ pc = "program" /\ Appended(FALSE) /\ UNCHANGED <<flash, slot>>
      /\ damage' = IF FreeSlots = {} /\ ~rewriting THEN damage ELSE "present"
  BY DEF ProgramNothing
<1>2. /\ ram' = ram /\ rewriting' = rewriting /\ rewriting \in BOOLEAN
      /\ pc' \in {"idle", "erase", "program"}
      /\ pc' = "erase" <=> ~rewriting
  BY <1>1, AppendedSane DEF Programming
<1>3. Durable!cut
  BY <1>1, <1>2, PageCut
<1>4. CASE rewriting
  <2>1. Phase = "regrow" /\ Phase' \in {"regrow", "idle"} /\ damage' = "present"
    BY <1>1, <1>2, <1>4 DEF Phase
  <2>2. QED
    BY <1>2, <1>3, <2>1 DEF Durable!falter
<1>5. CASE ~rewriting
  <2>1. Phase = "append" /\ Phase' = "rewrite" /\ damage' \in {damage, "present"}
    BY <1>1, <1>2, <1>5 DEF Phase
  <2>2. QED
    BY <1>2, <1>3, <2>1 DEF Durable!fallBack
<1>6. QED
  BY <1>2, <1>4, <1>5

\* Even on flash that fails, rewriteAll() writes records of the history only.
FromHistory ==
  Programming /\ rewriting
    => \A j \in 1 .. Len(writing) : \E i \in 1 .. Len(ram) : writing[j] = ram[i]

LEMMA FromHistoryPreserved ==
  ASSUME Sane, FromHistory, [Next]_vars
  PROVE  FromHistory'
<1>1. ASSUME NEW ok \in BOOLEAN, Erase(ok) PROVE FromHistory'
  BY <1>1 DEF Erase, log, FromHistory
<1>2. ASSUME NEW ok \in BOOLEAN, Appended(ok), Programming PROVE FromHistory'
  <2> SUFFICES ASSUME rewriting', NEW j \in 1 .. Len(writing')
               PROVE  \E i \in 1 .. Len(ram') : writing'[j] = ram'[i]
    BY DEF FromHistory
  <2>1. ram' = ram /\ rewriting /\ writing' = Tail(writing)
    BY <1>2 DEF Appended, log
  <2>2. writing \in Seq(Record) /\ writing # <<>>
    BY <1>2 DEF Sane, TypeOK, Coupled, CallCoupling
  <2>3. Len(writing) \in Nat /\ Len(Tail(writing)) = Len(writing) - 1
        /\ \A k \in 1 .. Len(Tail(writing)) : Tail(writing)[k] = writing[k + 1]
    BY <2>2, HeadTailProperties, LenProperties
  <2>4. j + 1 \in 1 .. Len(writing) /\ writing'[j] = writing[j + 1]
    BY <2>1, <2>3
  <2>5. QED
    BY <1>2, <2>1, <2>4 DEF FromHistory
<1>3. CASE RecordFault \/ Boot \/ Reset \/ Clear \/ \E ok \in BOOLEAN : ClearErase(ok)
  BY <1>3 DEF RecordFault, Boot, Reset, Clear, ClearErase, FromHistory, Programming, page
<1>4. CASE ProgramStart \/ ProgramMore \/ UNCHANGED vars
  BY <1>4 DEF ProgramStart, ProgramMore, vars, log, page, FromHistory, Programming
<1>5. CASE ProgramNothing \/ \E ok \in BOOLEAN : ProgramFinish(ok)
  BY <1>2, <1>5 DEF ProgramNothing, ProgramFinish, Programming
<1>6. QED
  BY <1>1, <1>3, <1>4, <1>5 DEF Next

\* A history of which all but the last records are loaded already.
LEMMA NextOfHistory ==
  ASSUME NEW s \in Seq(Record), NEW w \in Seq(Record), w # <<>>
  PROVE  /\ Head(w) = (s \o w)[Len(s) + 1]
         /\ Append(s, Head(w)) = s \o w <=> Len(w) = 1
<1>1. /\ Len(s) \in Nat /\ Len(w) \in Nat /\ Len(w) # 0
      /\ Len(s \o w) = Len(s) + Len(w)
      /\ \A i \in 1 .. Len(s) + Len(w) :
           (s \o w)[i] = IF i <= Len(s) THEN s[i] ELSE w[i - Len(s)]
  BY LenProperties, ConcatProperties, EmptySeq
<1>2. Len(s) + 1 \in 1 .. Len(s) + Len(w) /\ ~(Len(s) + 1 <= Len(s))
      /\ (Len(s) + 1) - Len(s) = 1
  BY <1>1
<1>3. (s \o w)[Len(s) + 1] = w[1]
  BY <1>1, <1>2
<1>4. Head(w) = w[1] /\ Head(w) \in Record
  BY HeadTailProperties
<1>5. Len(Append(s, Head(w))) = Len(s) + 1
  BY <1>4, AppendedRecord
<1>6. ASSUME Append(s, Head(w)) = s \o w PROVE Len(w) = 1
  <2>1. Len(s) + 1 = Len(s) + Len(w)
    BY <1>1, <1>5, <1>6, Zenon
  <2>2. \A a, b \in Nat : a + 1 = a + b => b = 1
    OBVIOUS
  <2>3. QED
    BY ONLY <1>1, <2>1, <2>2
<1>7. Len(w) = 1 => Append(s, Head(w)) = s \o w
  BY HeadMoved
<1>8. QED
  BY <1>3, <1>4, <1>6, <1>7

\* The record being programmed is one DurableLog expects.
LEMMA HeadIsDue ==
  ASSUME Sane, FromHistory, Programming
  PROVE  Head(writing) \in Durable!Due
<1>1. /\ writing \in Seq(Record) /\ writing # <<>> /\ ram \in Seq(Record)
      /\ rewriting \in BOOLEAN /\ Intact \in Seq(Record)
  BY LoadedIsIntactAndHalf DEF Sane, TypeOK, Coupled, CallCoupling
<1>2. CASE damage # "present"
  <2>1. Intact \o writing = ram
    BY <1>2, CoupledHalves DEF Sound
  <2>2. Head(writing) = ram[Len(Intact) + 1]
    BY <1>1, <2>1, NextOfHistory
  <2>3. QED
    BY <1>2, <2>2 DEF Durable!Due
<1>3. CASE damage = "present"
  <2>1. \E i \in 1 .. Len(ram) : Head(writing) = ram[i]
    <3>1. Head(writing) = writing[1] /\ 1 \in 1 .. Len(writing)
      BY <1>1, HeadTailProperties, EmptySeq
    <3>2. CASE rewriting
      BY <3>1, <3>2 DEF FromHistory
    <3>3. CASE ~rewriting
      <4>1. ram # <<>> /\ writing = <<Last(ram)>>
        BY <3>3 DEF Sane, Coupled, CallCoupling
      <4>2. Head(writing) = ram[Len(ram)]
        BY <4>1 DEF Last
      <4>3. Len(ram) \in 1 .. Len(ram)
        BY <1>1, <4>1, EmptySeq, LenProperties
      <4>4. QED
        BY <4>2, <4>3
    <3>4. QED
      BY <1>1, <3>2, <3>3
  <2>2. DOMAIN ram = 1 .. Len(ram)
    BY <1>1, LenProperties
  <2>3. QED
    BY <1>3, <2>1, <2>2 DEF Durable!Due
<1>4. QED
  BY <1>2, <1>3

LEMMA DurableWrite ==
  ASSUME Sane, FromHistory, ProgramStart \/ ProgramMore
  PROVE  Durable!write
<1>1. /\ Programming /\ pc' = "finish"
      /\ UNCHANGED <<log, writing, rewriting, damage>>
  BY DEF ProgramStart, ProgramMore, Programming
<1>2. Phase' = Phase /\ Phase \in {"append", "regrow"}
  BY <1>1 DEF Phase, Programming, Sane, TypeOK
<1>3. Intact' = Intact
  BY ProgramStartSane, ProgramMoreSane
<1>4. Half' = <<>> \/ \E spoilt \in Unfinished(Head(writing)) : Half' = <<spoilt>>
  <2>1. CASE ProgramStart
    <3>1. flash'[slot'] = Phantom
      BY <2>1, SlotStarted DEF ProgramStart, Sane, Coupled
    <3>2. Half' = <<Phantom>>
      BY <1>1, <3>1, PhantomType, LimitsAssumption DEF Half
    <3>3. QED
      BY <3>2 DEF Unfinished
  <2>2. CASE ProgramMore
    <3>1. PICK content \in Unfinished(Head(writing)) \cup {Torn} :
            flash' = [flash EXCEPT ![slot] = content]
      BY <2>2 DEF ProgramMore
    <3>2. flash'[slot'] = content
      BY <2>2, <3>1 DEF ProgramMore, Sane, TypeOK
    <3>3. QED
      BY <1>1, <3>1, <3>2 DEF Half
  <2>3. QED
    BY <2>1, <2>2
<1>5. Head(writing) \in Durable!Due
  BY <1>1, HeadIsDue
<1>6. QED
  BY <1>1, <1>2, <1>3, <1>4, <1>5 DEF Durable!write, log

LEMMA DurableFinish ==
  ASSUME Sane, FromHistory, NEW ok \in BOOLEAN, ProgramFinish(ok)
  PROVE  Durable!commit \/ Durable!fallBack \/ Durable!regrow \/ Durable!falter
<1>1. /\ pc = "finish" /\ Programming /\ Appended(ok) /\ UNCHANGED slot
      /\ flash' = IF ok THEN [flash EXCEPT ![slot] = Head(writing)] ELSE flash
      /\ damage' = IF ok THEN damage ELSE "present"
  BY DEF ProgramFinish, Programming
<1>2. /\ writing \in Seq(Record) /\ writing # <<>> /\ ram \in Seq(Record)
      /\ Head(writing) \in Record /\ Intact \in Seq(Record)
  BY <1>1, SlotLoads DEF Sane, TypeOK
<1>3. /\ ram' = ram /\ rewriting' = rewriting /\ rewriting \in BOOLEAN
      /\ pc' \in {"idle", "erase", "program"}
      /\ pc' = "erase" <=> ~ok /\ ~rewriting
      /\ pc' = "program" => rewriting
  BY <1>1, <1>2, AppendedSane
<1>4. Phase = IF rewriting THEN "regrow" ELSE "append"
  BY <1>1, <1>3 DEF Phase
<1>5. CASE ~ok
  <2>1. Durable!cut /\ damage' = "present"
    BY <1>1, <1>3, <1>5, PageCut
  <2>2. IF rewriting THEN Phase' \in {"regrow", "idle"} ELSE Phase' = "rewrite"
    BY <1>3, <1>5 DEF Phase
  <2>3. QED
    BY <1>3, <1>4, <2>1, <2>2 DEF Durable!fallBack, Durable!falter
<1>6. CASE ok
  <2>1. Intact' = Append(Intact, Head(writing)) /\ Half' = <<>> /\ damage' = damage
    BY <1>1, <1>3, <1>6, SlotFinished DEF Intact, Half
  <2>2. pc' = IF Len(writing) = 1 THEN "idle" ELSE "program"
    BY <1>1, <1>6 DEF Appended
  <2>3. CASE ~rewriting
    <3>1. ram # <<>> /\ writing = <<Last(ram)>>
      BY <1>1, <2>3 DEF Sane, Coupled, CallCoupling
    <3>2. Len(writing) = 1 /\ Head(writing) = Last(ram) /\ Last(ram) = ram[Len(ram)]
      BY <3>1 DEF Last
    <3>3. damage # "present" => Intact' = ram
      <4>1. damage # "present" => Intact = Front(ram)
        BY <1>1, <2>3 DEF Sane, Coupled, PageCoupling, Sound
      <4>2. QED
        BY <1>2, <2>1, <3>1, <3>2, <4>1, FrontAndLast
    <3>4. Phase = "append" /\ Phase' = "idle"
      BY <1>4, <2>2, <2>3, <3>2 DEF Phase
    <3>5. Durable!commit
      BY <1>3, <2>1, <3>2, <3>3, <3>4 DEF Durable!commit
    <3>6. QED
      BY <3>5
  <2>4. CASE rewriting
    <3>1. Phase = "regrow" /\ Phase' = IF Len(writing) = 1 THEN "idle" ELSE "regrow"
      BY <1>3, <1>4, <2>2, <2>4 DEF Phase
    <3>2. CASE damage # "present"
      <4>1. Intact \o writing = ram
        BY <1>1, <2>4, <3>2 DEF Sane, Coupled, PageCoupling, Sound
      <4>2. Head(writing) = ram[Len(Intact) + 1] /\ (Intact' = ram <=> Len(writing) = 1)
        BY <1>2, <2>1, <4>1, NextOfHistory
      <4>3. Durable!regrow
        BY <1>3, <2>1, <3>1, <3>2, <4>2 DEF Durable!regrow
      <4>4. QED
        BY <4>3
    <3>3. CASE damage = "present"
      <4>1. Head(writing) \in Durable!Due
        BY <1>1, HeadIsDue
      <4>2. Durable!falter
        BY <1>3, <2>1, <3>1, <3>3, <4>1 DEF Durable!falter
      <4>3. QED
        BY <4>2
    <3>4. QED
      BY <3>2, <3>3
  <2>5. QED
    BY <1>3, <2>3, <2>4
<1>7. QED
  BY <1>5, <1>6

LEMMA DurableStep ==
  ASSUME Sane, FromHistory, [Next]_vars
  PROVE  [Durable!Next]_<<Phase, ram, Intact, Half, damage = "present">>
<1>1. CASE Boot \/ Reset \/ RecordFault \/ Clear
  BY <1>1, DurableBoot, DurableReset, DurableRecord, DurableClear DEF Durable!Next
<1>2. ASSUME NEW ok \in BOOLEAN, ClearErase(ok) \/ Erase(ok) PROVE Durable!Next
  BY <1>2, DurableErase DEF Durable!Next
<1>3. CASE ProgramNothing
  BY <1>3, DurableNothing DEF Durable!Next
<1>4. ASSUME NEW ok \in BOOLEAN, ProgramFinish(ok) PROVE Durable!Next
  BY <1>4, DurableFinish DEF Durable!Next
<1>5. CASE ProgramStart \/ ProgramMore
  BY <1>5, DurableWrite DEF Durable!Next
<1>6. CASE UNCHANGED vars
  <2>1. Loaded' = Loaded
    BY <1>6, PageLeftAlone DEF Sane, Coupled, vars, page
  <2>2. QED
    BY <1>6, <2>1 DEF vars, log, page, Phase, Intact, Half
<1>7. QED
  BY <1>1, <1>2, <1>3, <1>4, <1>5, <1>6 DEF Next

\* The page with its halfwords, slots cut short, checksums and refused writes is
\* the log of DurableLog: what a boot would bring back changes only as it says,
\* whatever reset or failure comes between two halfwords, for pages of any size.
THEOREM PageIsDurableLog == Spec => ImplementsDurableLog
<1>1. Init => FromHistory
  BY DEF Init, FromHistory, Programming
<1>2. Spec => [](Sane /\ FromHistory)
  BY InitSane, SanePreserved, <1>1, FromHistoryPreserved, PTL DEF Spec
<1>3. QED
  BY <1>2, DurableInit, DurableStep, PTL
     DEF Spec, ImplementsDurableLog, Durable!Spec
=============================================================================
