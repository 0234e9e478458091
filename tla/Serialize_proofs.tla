---------------------------- MODULE Serialize_proofs ----------------------------
(***************************************************************************)
(* Keys without a NUL survive the way through serialize.h, however many    *)
(* they are and however long, and the cutting never runs past the end.     *)
(***************************************************************************)
EXTENDS Serialize, SequenceTheorems, TLAPS

\* No key holds a NUL.
NulFree ==
    \A keys \in KeyVectors : \A k \in DOMAIN keys : \A j \in DOMAIN keys[k] :
        keys[k][j] # NUL

\* Keys of an input are sequences of characters.
LEMMA InputType ==
    ASSUME TypeOK
    PROVE  /\ input \in Seq(Seq(Char))
           /\ \A k \in 1..Len(input) : input[k] \in Seq(Char)
<1>1. input \in Seq(Seq(Char))
  <2>1. <<>> \in Seq(Seq(Char))
    BY EmptySeq
  <2> QED BY <2>1, KeyVectorsAssumption DEF TypeOK
<1>2. \A k \in 1..Len(input) : input[k] \in Seq(Char)
  BY <1>1, ElementOfSeq
<1> QED BY <1>1, <1>2

\* Characters are characters or NUL.
LEMMA KeyWithNul ==
    ASSUME NEW key \in Seq(Char)
    PROVE  /\ key \in Seq(Char \cup {NUL}) /\ Len(key) \in Nat
           /\ Append(key, NUL) \in Seq(Char \cup {NUL})
           /\ Len(Append(key, NUL)) = Len(key) + 1
           /\ \A j \in 1..Len(key) : Append(key, NUL)[j] = key[j]
           /\ Append(key, NUL)[Len(key) + 1] = NUL
<1>1. key \in Seq(Char \cup {NUL})
  BY SeqMonotonic, Char \subseteq Char \cup {NUL}
<1> QED BY <1>1

\* A new call has written nothing.
LEMMA StartKeeps == ASSUME IInv, Start PROVE IInv'
<1>1. TypeOK'
  BY KeyVectorsAssumption DEF IInv, TypeOK, Start
<1>2. \E starts \in [1..(done' + 1) -> 1..(Len(serialized_key') + 1)] :
          Layout(starts)' /\ Cut(starts)'
  <2> DEFINE starts == [k \in 1..1 |-> 1]
  <2>1. done' = 0 /\ serialized_key' = <<>> /\ phase' = "serialize"
    BY DEF Start
  <2>2. starts \in [1..(done' + 1) -> 1..(Len(serialized_key') + 1)]
    BY <2>1
  <2>3. Layout(starts)'
    BY <2>1 DEF Layout
  <2>4. Cut(starts)'
    BY <2>1 DEF Cut
  <2> HIDE DEF starts
  <2> QED BY <2>2, <2>3, <2>4
<1>3. KeysArrive'
  BY DEF Start, KeysArrive
<1> QED BY <1>1, <1>2, <1>3 DEF IInv

\* A key written goes to the end, and moves none that was written before.
LEMMA SerializeKeyKeeps == ASSUME IInv, SerializeKey PROVE IInv'
<1> DEFINE key == input[done + 1]
           run == Append(key, NUL)
<1>1. /\ TypeOK /\ done < Len(input) /\ done' = done + 1
      /\ serialized_key' = serialized_key \o run
      /\ phase = "serialize" /\ UNCHANGED <<phase, calls, input, begin, output_keys>>
  BY DEF SerializeKey, IInv
<1>2. key \in Seq(Char) /\ done \in Nat /\ Len(input) \in Nat /\ done' \in 1..Len(input)
  <2>1. done \in Nat /\ Len(input) \in Nat
    BY <1>1, InputType, LenProperties DEF TypeOK
  <2>2. done' \in 1..Len(input)
    BY <1>1, <2>1
  <2> QED BY <2>1, <2>2, <1>1, InputType
<1>3. /\ run \in Seq(Char \cup {NUL}) /\ Len(run) = Len(key) + 1 /\ Len(key) \in Nat
      /\ \A j \in 1..Len(key) : run[j] = key[j]
      /\ run[Len(key) + 1] = NUL
  BY <1>2, KeyWithNul
<1>4. serialized_key \in Seq(Char \cup {NUL}) /\ Len(serialized_key) \in Nat
  BY <1>1, LenProperties DEF TypeOK
<1>5. /\ serialized_key' \in Seq(Char \cup {NUL})
      /\ Len(serialized_key') = Len(serialized_key) + Len(key) + 1
      /\ \A k \in 1..Len(serialized_key) : serialized_key'[k] = serialized_key[k]
      /\ \A j \in 1..(Len(key) + 1) : serialized_key'[Len(serialized_key) + j] = run[j]
  <2> HIDE DEF key, run
  <2>1. /\ serialized_key' \in Seq(Char \cup {NUL})
        /\ Len(serialized_key') = Len(serialized_key) + Len(run)
        /\ \A i \in 1..(Len(serialized_key) + Len(run)) : serialized_key'[i] =
              IF i <= Len(serialized_key) THEN serialized_key[i]
              ELSE run[i - Len(serialized_key)]
    <3>1. serialized_key' = serialized_key \o run
      BY <1>1
    <3>2. run \in Seq(Char \cup {NUL})
      BY <1>3
    <3> QED BY <3>1, <3>2, <1>4, ConcatProperties
  <2>2. /\ Len(serialized_key') = Len(serialized_key) + Len(key) + 1
        /\ \A k \in 1..Len(serialized_key) : serialized_key'[k] = serialized_key[k]
    BY <2>1, <1>3, <1>4
  <2>3. ASSUME NEW j \in 1..(Len(key) + 1)
        PROVE  serialized_key'[Len(serialized_key) + j] = run[j]
    <3>1. /\ Len(serialized_key) + j \in 1..(Len(serialized_key) + Len(run))
          /\ ~(Len(serialized_key) + j <= Len(serialized_key))
          /\ Len(serialized_key) + j - Len(serialized_key) = j
      BY <1>3, <1>4
    <3> QED BY <3>1, <2>1
  <2> QED BY <2>1, <2>2, <2>3
<1> HIDE DEF key, run
<1>6. TypeOK'
  BY <1>1, <1>2, <1>5 DEF TypeOK, key, run
<1>7. PICK starts \in [1..(done + 1) -> 1..(Len(serialized_key) + 1)] : Layout(starts)
  BY DEF IInv
<1>8. \E s \in [1..(done' + 1) -> 1..(Len(serialized_key') + 1)] :
          Layout(s)' /\ Cut(s)'
  <2>1. PICK s \in [1..(done' + 1) -> 1..(Len(serialized_key') + 1)] :
            s = [k \in 1..(done + 2) |->
                    IF k <= done + 1 THEN starts[k] ELSE Len(serialized_key') + 1]
    <3> DEFINE s == [k \in 1..(done + 2) |->
                        IF k <= done + 1 THEN starts[k] ELSE Len(serialized_key') + 1]
    <3>1. \A k \in 1..(done + 2) : s[k] \in 1..(Len(serialized_key') + 1)
      BY <1>2, <1>3, <1>4, <1>5, <1>7
    <3>2. done' + 1 = done + 2
      BY <1>1, <1>2
    <3>3. s \in [1..(done' + 1) -> 1..(Len(serialized_key') + 1)]
      BY <3>1, <3>2
    <3> QED BY <3>3
  <2>0. PICK m \in Nat : m = Len(serialized_key)
    BY <1>4
  <2>2. ASSUME NEW k \in 1..done'
        PROVE  s[k + 1] = s[k] + Len(input[k]) + 1 /\ LiesAt(k, s[k])'
    <3>1. CASE k <= done
      <4>1. s[k] = starts[k] /\ s[k + 1] = starts[k + 1] /\ k \in 1..done
        BY <3>1, <1>2, <2>1
      <4>2. starts[k + 1] = starts[k] + Len(input[k]) + 1 /\ LiesAt(k, starts[k])
        BY <4>1, <1>7 DEF Layout
      <4>3. starts[k] \in Nat \ {0} /\ input[k] \in Seq(Char) /\ Len(input[k]) \in Nat
        <5>1. k \in 1..(done + 1) /\ k \in 1..Len(input) /\ TypeOK
          BY <4>1, <1>1, <1>2
        <5>2. starts[k] \in Nat \ {0}
          BY <5>1, <1>4, <1>7
        <5> QED BY <5>1, <5>2, InputType, LenProperties
      <4>4. LiesAt(k, starts[k])'
        <5> DEFINE n == Len(input[k])
        <5>1. /\ starts[k] + n <= Len(serialized_key)
              /\ \A j \in 1..n : serialized_key[starts[k] + j - 1] = input[k][j]
              /\ serialized_key[starts[k] + n] = NUL
          BY <4>2 DEF LiesAt
        <5>2. n \in Nat
          BY <4>3
        <5> HIDE DEF n
        <5>3. \A j \in 1..n : starts[k] + j - 1 \in 1..Len(serialized_key)
          BY SMTT(60), <5>1, <5>2, <4>3, <1>4
        <5>4. starts[k] + n \in 1..Len(serialized_key)
          BY <5>1, <5>2, <4>3, <1>4
        <5>5. starts[k] + n <= Len(serialized_key')
          BY <5>4, <1>3, <1>4, <1>5
        <5> QED BY <5>1, <5>3, <5>4, <5>5, <1>1, <1>5 DEF LiesAt, n
      <4> QED BY <4>1, <4>2, <4>4
    <3>2. CASE k = done + 1
      <4>1. s[k] = m + 1 /\ s[k + 1] = Len(serialized_key') + 1
        BY <3>2, <1>2, <1>7, <2>1, <2>0 DEF Layout
      <4>2. s[k + 1] = s[k] + Len(input[k]) + 1
        <5>1. input[k] = key
          BY <3>2 DEF key
        <5>2. Len(serialized_key') = m + Len(key) + 1 /\ Len(key) \in Nat
          BY <1>3, <1>5, <2>0
        <5> QED BY <4>1, <5>1, <5>2, <2>0
      <4>3. LiesAt(k, m + 1)'
        <5>1. \A j \in 1..Len(key) : serialized_key'[m + 1 + j - 1] = key[j]
          <6> SUFFICES ASSUME NEW j \in 1..Len(key)
                       PROVE  serialized_key'[m + 1 + j - 1] = key[j]
            OBVIOUS
          <6>1. m + 1 + j - 1 = m + j /\ j \in 1..(Len(key) + 1)
            BY <1>3, <2>0
          <6> QED BY <6>1, <1>3, <1>5, <2>0
        <5>2. serialized_key'[m + 1 + Len(key)] = NUL
          <6>1. m + 1 + Len(key) = m + (Len(key) + 1) /\ Len(key) + 1 \in 1..(Len(key) + 1)
            BY <1>3, <2>0
          <6> QED BY <6>1, <1>3, <1>5, <2>0
        <5>3. m + 1 + Len(key) <= Len(serialized_key')
          BY <1>3, <2>0, <1>5
        <5>4. input'[k] = key
          BY <3>2, <1>1 DEF key
        <5> QED BY <5>1, <5>2, <5>3, <5>4 DEF LiesAt
      <4> QED BY <4>1, <4>2, <4>3
    <3> QED BY <3>1, <3>2, <1>1, <1>2
  <2>3. s[1] = 1 /\ s[done' + 1] = Len(serialized_key') + 1
    BY <1>1, <1>2, <1>7, <2>1 DEF Layout
  <2>4. Layout(s)'
    <3>1. \A k \in 1..done' : s[k + 1] = s[k] + Len(input'[k]) + 1 /\ LiesAt(k, s[k])'
      BY <2>2, <1>1
    <3> QED BY <2>3, <3>1 DEF Layout
  <2>5. Cut(s)'
    BY <1>1 DEF Cut
  <2> QED BY <2>1, <2>4, <2>5
<1>9. KeysArrive'
  BY <1>1 DEF KeysArrive
<1> QED BY <1>6, <1>8, <1>9 DEF IInv

LEMMA TransferKeeps == ASSUME IInv, Transfer PROVE IInv'
<1>1. TypeOK'
  BY DEF IInv, TypeOK, Transfer
<1>2. \E starts \in [1..(done' + 1) -> 1..(Len(serialized_key') + 1)] :
          Layout(starts)' /\ Cut(starts)'
  <2>1. PICK starts \in [1..(done + 1) -> 1..(Len(serialized_key) + 1)] : Layout(starts)
    BY DEF IInv
  <2>2. /\ UNCHANGED <<input, done, serialized_key>> /\ done = Len(input)
        /\ begin' = 1 /\ output_keys' = <<>> /\ done \in Nat
    BY DEF Transfer, IInv, TypeOK
  <2>3. Layout(starts)'
    BY <2>1, <2>2 DEF Layout, LiesAt
  <2>4. Cut(starts)'
    BY <2>1, <2>2 DEF Layout, Cut
  <2> QED BY <2>1, <2>2, <2>3, <2>4
<1>3. KeysArrive'
  BY DEF Transfer, KeysArrive
<1> QED BY <1>1, <1>2, <1>3 DEF IInv

-----------------------------------------------------------------------------
(* The sender's next cut.                                                  *)

\* While the sender is not through, the next key lies ahead of it, and ends at
\* the first NUL.
LEMMA NextKey ==
    ASSUME NulFree, TypeOK, phase = "deserialize", begin <= Len(serialized_key),
           NEW starts \in [1..(done + 1) -> 1..(Len(serialized_key) + 1)],
           Layout(starts), Cut(starts)
    PROVE  LET k == Len(output_keys) + 1 IN
           /\ k \in 1..done
           /\ LiesAt(k, begin)
           /\ starts[k + 1] = begin + Len(input[k]) + 1
           /\ input[k] \in Seq(Char)
           /\ EndsAt(begin + Len(input[k]))
           /\ \A e : EndsAt(e) => e = begin + Len(input[k])
<1> DEFINE k == Len(output_keys) + 1
<1>1. /\ serialized_key \in Seq(Char \cup {NUL}) /\ Len(output_keys) \in Nat
      /\ Len(input) \in Nat /\ done \in Nat /\ begin \in Nat \ {0}
  BY KeyVectorsAssumption DEF TypeOK
<1>2. done = Len(input) /\ Len(output_keys) <= done /\ begin = starts[k]
  BY DEF Cut
<1>3. k \in 1..done
  <2>1. Len(output_keys) # done
    BY <1>1, <1>2 DEF Layout
  <2> QED BY <2>1, <1>1, <1>2
<1>4. LiesAt(k, begin) /\ starts[k + 1] = begin + Len(input[k]) + 1
  BY <1>2, <1>3 DEF Layout
<1>5. input[k] \in Seq(Char)
  BY <1>2, <1>3, InputType
<1>6. \A j \in 1..Len(input[k]) : input[k][j] # NUL
  <2>1. input \in KeyVectors
    <3>1. input # <<>>
      BY <1>2, <1>3
    <3> QED BY <3>1 DEF TypeOK
  <2>2. k \in DOMAIN input /\ DOMAIN input[k] = 1..Len(input[k])
    BY <1>2, <1>3, <1>5, InputType
  <2> QED BY <2>1, <2>2 DEF NulFree
<1>7. \A i \in begin..(begin + Len(input[k]) - 1) : serialized_key[i] # NUL
  <2> SUFFICES ASSUME NEW i \in begin..(begin + Len(input[k]) - 1)
               PROVE  serialized_key[i] # NUL
    OBVIOUS
  <2>1. i - begin + 1 \in 1..Len(input[k]) /\ begin + (i - begin + 1) - 1 = i
    BY <1>1, <1>5
  <2>2. serialized_key[i] = input[k][i - begin + 1]
    BY <2>1, <1>4 DEF LiesAt
  <2> QED BY <2>1, <2>2, <1>6
<1>8. EndsAt(begin + Len(input[k]))
  BY SMTT(60), <1>1, <1>4, <1>5, <1>7 DEF EndsAt, LiesAt
<1>9. ASSUME NEW e, EndsAt(e) PROVE e = begin + Len(input[k])
  <2>1. e \in begin..Len(serialized_key) /\ serialized_key[e] = NUL
        /\ \A i \in begin..(e - 1) : serialized_key[i] # NUL
    BY <1>9 DEF EndsAt
  <2>2. /\ serialized_key[begin + Len(input[k])] = NUL
        /\ begin + Len(input[k]) <= Len(serialized_key)
    BY <1>4 DEF LiesAt
  <2> QED BY SMTT(60), <2>1, <2>2, <1>1, <1>5, <1>7
<1> QED BY <1>3, <1>4, <1>5, <1>8, <1>9

\* What is cut out is the key.
LEMMA CutOut ==
    ASSUME NEW k, LiesAt(k, begin), input[k] \in Seq(Char),
           serialized_key \in Seq(Char \cup {NUL}), begin \in Nat \ {0}
    PROVE  SubSeq(serialized_key, begin, begin + Len(input[k]) - 1) = input[k]
<1> DEFINE n == Len(input[k])
           sub == SubSeq(serialized_key, begin, begin + n - 1)
<1>1. n \in Nat /\ begin + n <= Len(serialized_key) /\ Len(serialized_key) \in Nat
  BY LenProperties DEF LiesAt
<1>2. \A j \in 1..n : serialized_key[begin + j - 1] = input[k][j]
  BY DEF LiesAt
<1>3. input[k] \in Seq(Char \cup {NUL}) /\ Len(input[k]) = n
  BY KeyWithNul
<1> HIDE DEF n
<1>4. \A i \in begin..(begin + n - 1) : serialized_key[i] \in Char \cup {NUL}
  BY <1>1, ElementOfSeq
<1>5. /\ begin \in Int /\ begin + n - 1 \in Int /\ (begin + n - 1) - begin + 1 = n
      /\ (IF begin <= begin + n - 1 THEN (begin + n - 1) - begin + 1 ELSE 0) = n
  BY <1>1
<1>6. /\ sub \in Seq(Char \cup {NUL}) /\ Len(sub) = n
      /\ \A j \in 1..n : sub[j] = serialized_key[begin + j - 1]
  BY <1>4, <1>5, SubSeqProperties
<1> HIDE DEF sub
<1>7. \A j \in 1..Len(sub) : sub[j] = input[k][j]
  BY <1>2, <1>6
<1>8. sub = input[k]
  BY <1>3, <1>6, <1>7, SeqEqual
<1> QED BY <1>8 DEF sub, n

LEMMA DeserializeKeyKeeps == ASSUME NulFree, IInv, DeserializeKey PROVE IInv'
<1> DEFINE k == Len(output_keys) + 1
<1>1. PICK starts \in [1..(done + 1) -> 1..(Len(serialized_key) + 1)] :
          Layout(starts) /\ Cut(starts)
  BY DEF IInv
<1>2. /\ TypeOK /\ phase = "deserialize" /\ begin <= Len(serialized_key)
      /\ UNCHANGED <<phase, calls, input, done, serialized_key>>
  BY DEF IInv, DeserializeKey
<1>3. /\ k \in 1..done /\ LiesAt(k, begin) /\ input[k] \in Seq(Char)
      /\ starts[k + 1] = begin + Len(input[k]) + 1
      /\ \A e : EndsAt(e) => e = begin + Len(input[k])
  BY <1>1, <1>2, NextKey
<1>4. PICK e : /\ EndsAt(e)
               /\ output_keys' = Append(output_keys, SubSeq(serialized_key, begin, e - 1))
               /\ begin' = e + 1
  BY DEF DeserializeKey
<1>5. e = begin + Len(input[k])
  BY <1>3, <1>4
<1>6. output_keys' = Append(output_keys, input[k]) /\ begin' = starts[k + 1]
  <2>1. serialized_key \in Seq(Char \cup {NUL}) /\ begin \in Nat \ {0}
    BY <1>2 DEF TypeOK
  <2>2. SubSeq(serialized_key, begin, begin + Len(input[k]) - 1) = input[k]
    BY <2>1, <1>3, CutOut
  <2>3. Len(input[k]) \in Nat /\ begin \in Nat
    BY <2>1, <1>3, KeyWithNul
  <2>4. e - 1 = begin + Len(input[k]) - 1 /\ e + 1 = begin + Len(input[k]) + 1
    BY <2>3, <1>5
  <2> QED BY <2>2, <2>4, <1>3, <1>4
<1>7. /\ output_keys \in Seq(Seq(Char \cup {NUL})) /\ begin \in Nat
      /\ input[k] \in Seq(Char \cup {NUL}) /\ Len(input[k]) \in Nat
      /\ Len(output_keys) \in Nat /\ done \in Nat
  <2>1. /\ output_keys \in Seq(Seq(Char \cup {NUL})) /\ begin \in Nat
        /\ done \in Nat
    BY <1>2, InputType DEF TypeOK
  <2>2. Len(output_keys) \in Nat
    BY <2>1
  <2>3. input[k] \in Seq(Char \cup {NUL}) /\ Len(input[k]) \in Nat
    BY <1>3, KeyWithNul
  <2> QED
    BY <2>1, <2>2, <2>3
<1>8. /\ output_keys' \in Seq(Seq(Char \cup {NUL})) /\ Len(output_keys') = k
      /\ output_keys'[k] = input[k]
      /\ \A j \in 1..Len(output_keys) : output_keys'[j] = output_keys[j]
  BY <1>6, <1>7
<1> HIDE DEF k
<1>9. TypeOK'
  BY SMTT(60), <1>2, <1>3, <1>6, <1>7, <1>8 DEF TypeOK
<1>10. Layout(starts)'
  BY <1>1, <1>2 DEF Layout, LiesAt
<1>11. Cut(starts)'
  <2>1. done = Len(input) /\ \A j \in 1..Len(output_keys) : output_keys[j] = input[j]
    BY <1>1, <1>2 DEF Cut
  <2>2. \A j \in 1..k : output_keys'[j] = input[j]
    <3>1. k = Len(output_keys) + 1
      BY DEF k
    <3>2. \A j \in 1..k : j = k \/ j \in 1..Len(output_keys)
      BY <3>1, <1>7
    <3> QED BY <2>1, <3>2, <1>8
  <2> QED BY <2>1, <2>2, <1>2, <1>3, <1>6, <1>7, <1>8 DEF Cut
<1>12. KeysArrive'
  BY <1>2 DEF KeysArrive
<1> QED BY <1>1, <1>2, <1>9, <1>10, <1>11, <1>12 DEF IInv

\* The sender is through with the characters when it is through with the keys.
LEMMA ReturnKeeps == ASSUME IInv, Return PROVE IInv'
<1>1. PICK starts \in [1..(done + 1) -> 1..(Len(serialized_key) + 1)] :
          Layout(starts) /\ Cut(starts)
  BY DEF IInv
<1>2. /\ TypeOK /\ phase = "deserialize" /\ begin > Len(serialized_key) /\ phase' = "idle"
      /\ UNCHANGED <<calls, input, done, serialized_key, begin, output_keys>>
  BY DEF IInv, Return
<1>3. /\ done = Len(input) /\ Len(output_keys) <= done
      /\ begin = starts[Len(output_keys) + 1]
      /\ \A k \in 1..Len(output_keys) : output_keys[k] = input[k]
  BY <1>1, <1>2 DEF Cut
<1>4. /\ done \in Nat /\ Len(serialized_key) \in Nat /\ Len(output_keys) \in Nat
      /\ input \in Seq(Seq(Char)) /\ output_keys \in Seq(Seq(Char \cup {NUL}))
  BY <1>2, InputType DEF TypeOK
<1>5. Len(output_keys) = done
  <2> SUFFICES ASSUME Len(output_keys) < done PROVE FALSE
    BY <1>3, <1>4
  <2> DEFINE k == Len(output_keys) + 1
  <2>1. k \in 1..done /\ k + 1 \in 1..(done + 1)
    BY <1>4
  <2>2. starts[k + 1] = begin + Len(input[k]) + 1
    BY <2>1, <1>1, <1>3 DEF Layout
  <2>3. starts[k + 1] <= Len(serialized_key) + 1
    BY <2>1, <1>1, <1>4
  <2>4. Len(input[k]) \in Nat /\ begin \in Nat
    BY <2>1, <1>2, <1>3, <1>4, InputType DEF TypeOK
  <2> QED BY <2>2, <2>3, <2>4, <1>2, <1>4
<1>6. output_keys = input
  <2>1. Seq(Char) \subseteq Seq(Char \cup {NUL})
    BY KeyWithNul
  <2>2. input \in Seq(Seq(Char \cup {NUL}))
    BY <2>1, <1>4, SeqMonotonic
  <2>3. Len(output_keys) = Len(input) /\ \A k \in 1..Len(output_keys) : output_keys[k] = input[k]
    BY <1>3, <1>5
  <2> QED BY <2>2, <2>3, <1>4, SeqEqual
<1>7. TypeOK'
  BY <1>2 DEF TypeOK
<1>8. Layout(starts)' /\ Cut(starts)'
  BY <1>1, <1>2 DEF Layout, LiesAt, Cut
<1>9. KeysArrive'
  BY <1>2, <1>6 DEF KeysArrive
<1> QED BY <1>1, <1>2, <1>7, <1>8, <1>9 DEF IInv

-----------------------------------------------------------------------------
LEMMA InitIInv == ASSUME Init PROVE IInv
<1>1. TypeOK
  BY DEF Init, TypeOK
<1> DEFINE starts == [k \in 1..1 |-> 1]
<1>2. /\ starts \in [1..(done + 1) -> 1..(Len(serialized_key) + 1)]
      /\ Layout(starts) /\ Cut(starts)
  BY DEF Init, Layout, Cut
<1> HIDE DEF starts
<1>3. KeysArrive
  BY DEF Init, KeysArrive
<1> QED BY <1>1, <1>2, <1>3 DEF IInv

LEMMA StutterKeeps == ASSUME IInv, UNCHANGED vars PROVE IInv'
<1>1. PICK starts \in [1..(done + 1) -> 1..(Len(serialized_key) + 1)] :
          Layout(starts) /\ Cut(starts)
  BY DEF IInv
<1>2. /\ TypeOK /\ KeysArrive
      /\ UNCHANGED <<phase, calls, input, done, serialized_key, begin, output_keys>>
  BY DEF IInv, vars
<1>3. TypeOK' /\ Layout(starts)' /\ Cut(starts)' /\ KeysArrive'
  BY <1>1, <1>2 DEF TypeOK, Layout, LiesAt, Cut, KeysArrive
<1> QED BY <1>1, <1>2, <1>3 DEF IInv

\* The keys written and cut are laid end to end, for inputs of any size without
\* a NUL in a key.
THEOREM LaidOut == ASSUME NulFree PROVE Spec => []IInv
<1>1. Init => IInv
  BY InitIInv
<1>2. IInv /\ [Next]_vars => IInv'
  BY StartKeeps, SerializeKeyKeeps, TransferKeeps, DeserializeKeyKeeps, ReturnKeeps,
     StutterKeeps DEF Next
<1> QED BY <1>1, <1>2, PTL DEF Spec

\* serialize.h hands over the keys as they are, if none holds a NUL.
THEOREM KeysRoundTrip == ASSUME NulFree PROVE Spec => []KeysArrive
<1>1. IInv => KeysArrive
  BY DEF IInv
<1> QED BY <1>1, LaidOut, PTL

\* deserialize_string_from_char never reads past the characters it got.
THEOREM CutsInBounds == ASSUME NulFree PROVE Spec => []InBounds
<1>1. IInv => InBounds
  <2> SUFFICES ASSUME IInv, phase = "deserialize", begin <= Len(serialized_key)
               PROVE  \E e \in 1..Len(serialized_key) : EndsAt(e)
    BY DEF InBounds
  <2>1. PICK starts \in [1..(done + 1) -> 1..(Len(serialized_key) + 1)] :
            Layout(starts) /\ Cut(starts)
    BY DEF IInv
  <2>2. EndsAt(begin + Len(input[Len(output_keys) + 1]))
    BY <2>1, NextKey DEF IInv
  <2>3. begin + Len(input[Len(output_keys) + 1]) \in 1..Len(serialized_key)
    BY SMTT(60), <2>2 DEF EndsAt, IInv, TypeOK
  <2> QED BY <2>2, <2>3
<1> QED BY <1>1, LaidOut, PTL
=============================================================================
