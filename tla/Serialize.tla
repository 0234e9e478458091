------------------------------- MODULE Serialize -------------------------------
(***************************************************************************)
(* util/serialize.h, the way psi/kkrt_psi.cpp uses it: the receiver of     *)
(* KKRT-PSI turns the common keys into one run of characters, each key     *)
(* followed by a NUL, and the sender cuts the run at the NULs into the     *)
(* vector its caller passed.  A caller may pass the same vector again.     *)
(***************************************************************************)
EXTENDS Integers, Sequences, FiniteSets

CONSTANTS
    Char,       \* characters a key is made of
    NUL,        \* the character 0
    KeyVectors, \* vectors of keys that may be the intersection
    MaxCalls    \* bound on the calls

ASSUME KeyVectorsAssumption == KeyVectors \subseteq Seq(Seq(Char))
ASSUME SerializeBoundsAssumption == MaxCalls \in Nat

VARIABLES
    phase,          \* "idle", "serialize" or "deserialize"
    calls,          \* number of calls so far
    input,          \* of the receiver: the common keys
    done,           \* of the receiver: how many keys it has written
    serialized_key, \* the run of characters
    begin,          \* of the sender: where the next key begins
    output_keys     \* of the sender: its caller's vector

vars == <<phase, calls, input, done, serialized_key, begin, output_keys>>

Init ==
    /\ phase = "idle"
    /\ calls = 0
    /\ input = <<>>
    /\ done = 0
    /\ serialized_key = <<>>
    /\ begin = 1
    /\ output_keys = <<>>

\* The receiver has found the common keys.
Start ==
    /\ phase = "idle" /\ calls < MaxCalls
    /\ phase' = "serialize"
    /\ calls' = calls + 1
    /\ input' \in KeyVectors
    /\ done' = 0
    /\ serialized_key' = <<>>
    /\ UNCHANGED <<begin, output_keys>>

\* Mutant of SerializeKey: the NUL separates keys and does not end the last.
SerializeKeySeparated ==
    /\ phase = "serialize" /\ done < Len(input)
    /\ done' = done + 1
    /\ serialized_key' = serialized_key \o (IF done' = Len(input) THEN input[done']
                                            ELSE Append(input[done'], NUL))
    /\ UNCHANGED <<phase, calls, input, begin, output_keys>>

\* One round of the loop of serialize_string_to_char.
SerializeKey ==
    /\ phase = "serialize" /\ done < Len(input)
    /\ done' = done + 1
    /\ serialized_key' = serialized_key \o Append(input[done'], NUL)
    /\ UNCHANGED <<phase, calls, input, begin, output_keys>>

\* Mutant of Transfer: the sender's vector is not cleared.
TransferNoClear ==
    /\ phase = "serialize" /\ done = Len(input)
    /\ phase' = "deserialize"
    /\ begin' = 1
    /\ UNCHANGED <<calls, input, done, serialized_key, output_keys>>

\* The number of characters and then the characters go to the sender.
Transfer ==
    /\ phase = "serialize" /\ done = Len(input)
    /\ phase' = "deserialize"
    /\ begin' = 1
    /\ output_keys' = <<>>
    /\ UNCHANGED <<calls, input, done, serialized_key>>

\* e is the first NUL from `begin` on.
EndsAt(e) ==
    /\ e \in begin..Len(serialized_key)
    /\ serialized_key[e] = NUL
    /\ \A k \in begin..(e - 1) : serialized_key[k] # NUL

\* Mutant of DeserializeKey: the next key begins at the NUL of this one.
DeserializeKeyAtNul ==
    /\ phase = "deserialize" /\ begin <= Len(serialized_key)
    /\ \E e \in 1..Len(serialized_key) :
          /\ EndsAt(e)
          /\ output_keys' = Append(output_keys, SubSeq(serialized_key, begin, e - 1))
          /\ begin' = e
    /\ UNCHANGED <<phase, calls, input, done, serialized_key>>

\* One round of the loop of deserialize_string_from_char.
DeserializeKey ==
    /\ phase = "deserialize" /\ begin <= Len(serialized_key)
    /\ \E e \in 1..Len(serialized_key) :
          /\ EndsAt(e)
          /\ output_keys' = Append(output_keys, SubSeq(serialized_key, begin, e - 1))
          /\ begin' = e + 1
    /\ UNCHANGED <<phase, calls, input, done, serialized_key>>

Return ==
    /\ phase = "deserialize" /\ begin > Len(serialized_key)
    /\ phase' = "idle"
    /\ UNCHANGED <<calls, input, done, serialized_key, begin, output_keys>>

Next == Start \/ SerializeKey \/ Transfer \/ DeserializeKey \/ Return

Spec == Init /\ [][Next]_vars

\* With no way to stop but this, a deadlock is a run of characters that the
\* loop reads past the end of.
Terminated == phase = "idle" /\ calls = MaxCalls /\ UNCHANGED vars

TerminatingSpec == Init /\ [][Next \/ Terminated]_vars

-----------------------------------------------------------------------------
(* Properties.                                                             *)

\* While the sender cuts, a NUL is ahead: the inner loop, which looks for one
\* without a bound, stays within the characters.
InBounds ==
    phase = "deserialize" /\ begin <= Len(serialized_key) =>
        \E e \in 1..Len(serialized_key) : EndsAt(e)

\* When a call has ended, the sender has the keys the receiver found
\* (kkrt_psi.h:99: "The intersection corresponding to input keys.").
KeysArrive == phase = "idle" => output_keys = input

-----------------------------------------------------------------------------
(* The inductive invariant: keys are laid end to end, and the cuts follow  *)
(* them.                                                                   *)

\* The key k of the input is in the run, from `start` on.
LiesAt(k, start) ==
    /\ start + Len(input[k]) <= Len(serialized_key)
    /\ \A j \in 1..Len(input[k]) : serialized_key[start + j - 1] = input[k][j]
    /\ serialized_key[start + Len(input[k])] = NUL

\* Where the written keys begin, and, last, where the next one would.
Layout(starts) ==
    /\ starts[1] = 1
    /\ starts[done + 1] = Len(serialized_key) + 1
    /\ \A k \in 1..done : /\ starts[k + 1] = starts[k] + Len(input[k]) + 1
                          /\ LiesAt(k, starts[k])

\* How many keys the sender has cut out.
Cut(starts) ==
    phase = "deserialize" =>
        /\ done = Len(input)
        /\ Len(output_keys) <= done
        /\ begin = starts[Len(output_keys) + 1]
        /\ \A k \in 1..Len(output_keys) : output_keys[k] = input[k]

TypeOK ==
    /\ phase \in {"idle", "serialize", "deserialize"}
    /\ calls \in Nat
    /\ input \in KeyVectors \cup {<<>>}
    /\ done \in 0..Len(input)
    /\ serialized_key \in Seq(Char \cup {NUL})
    /\ begin \in Nat \ {0}
    /\ output_keys \in Seq(Seq(Char \cup {NUL}))

\* The characters written are the keys written, one after the other, and the
\* sender has read the first of them.
IInv ==
    /\ TypeOK
    /\ \E starts \in [1..(done + 1) -> 1..(Len(serialized_key) + 1)] :
          Layout(starts) /\ Cut(starts)
    /\ KeysArrive
=============================================================================
