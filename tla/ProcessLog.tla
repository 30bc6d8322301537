----------------------------- MODULE ProcessLog -----------------------------
(***************************************************************************)
(* How an output stream of a child becomes log messages                    *)
(* (src/internal/master/output.go): a message is a line, or a fragment of  *)
(* a line that is too long, and a fragment never cuts a UTF-8 character    *)
(* whose other part is still to come.                                      *)
(*                                                                         *)
(* A byte is one of its kinds: a newline, another character of one byte,   *)
(* the first byte of a character of two or of three, a continuation.       *)
(*                                                                         *)
(* An operator with the comment "Mutant" is a wrong version of the one     *)
(* after it, which some property must tell from it; no action uses it.     *)
(***************************************************************************)
EXTENDS Naturals, Sequences, SequencesExt

CONSTANTS Size,   \* logFragmentSize
          MaxGiven \* bound on the bytes of a stream

\* A fragment has room for a character and one more byte.
ASSUME SizeAssumption == Size \in Nat /\ Size > 3
ASSUME BoundAssumption == MaxGiven \in Nat

Byte == {"nl", "x", "lead2", "lead3", "cont"}

VARIABLES pending, \* bytes of the message begun
          data,    \* what the Write that is running has still to take
          out,     \* messages sent so far: [text, nl], nl if a newline was trimmed
          given,   \* history: all bytes of the stream
          ended    \* the child has exited and flush has been called

vars == <<pending, data, out, given, ended>>

Init == pending = <<>> /\ data = <<>> /\ out = <<>> /\ given = <<>> /\ ended = FALSE

-----------------------------------------------------------------------------
(* emit: without the newline, if there is one *)
Message(bytes) == IF bytes # <<>> /\ Last(bytes) = "nl"
                  THEN [text |-> Front(bytes), nl |-> TRUE]
                  ELSE [text |-> bytes, nl |-> FALSE]

\* Mutant: a fragment ends anywhere.
FullRuneAlways(bytes) == TRUE

\* utf8.FullRune: not when a first byte lacks some of its continuations; what is not
\* UTF-8 counts as full.
FullRune(bytes) ==
  /\ bytes # <<>>
  /\ bytes # <<"lead2">>
  /\ bytes # <<"lead3">>
  /\ bytes # <<"lead3", "cont">>

\* Where the last character begins, or the first byte.
LastStart(bytes) ==
  Max({1} \cup {n \in DOMAIN bytes : bytes[n] # "cont"})

\* Mutant: the unfinished character is dropped.
FragmentDrops(bytes) ==
  LET last == LastStart(bytes)
  IN IF FullRune(SubSeq(bytes, last, Len(bytes)))
     THEN [message |-> Message(bytes), rest |-> <<>>]
     ELSE [message |-> Message(SubSeq(bytes, 1, last - 1)), rest |-> <<>>]

\* A fragment is full: an unfinished character at its end is left for the next one.
Fragment(bytes) ==
  LET last == LastStart(bytes)
      tail == SubSeq(bytes, last, Len(bytes))
  IN IF FullRune(tail)
     THEN [message |-> Message(bytes), rest |-> <<>>]
     ELSE [message |-> Message(SubSeq(bytes, 1, last - 1)), rest |-> tail]

\* Mutant: what is pending does not count.
TakenFull(begun, more) ==
  LET limit == Min({Len(more), Size})
      newlines == {n \in 1..limit : more[n] = "nl"}
  IN IF newlines = {} THEN limit ELSE Min(newlines)

\* How many bytes of more one round of the loop of Write takes: up to the limit, or
\* to the first newline before it.
Taken(begun, more) ==
  LET limit == Min({Len(more), Size - Len(begun)})
      newlines == {n \in 1..limit : more[n] = "nl"}
  IN IF newlines = {} THEN limit ELSE Min(newlines)

-----------------------------------------------------------------------------
(* Write and flush, under one mutex *)

Write(bytes) ==
  /\ ~ended
  /\ data = <<>>
  /\ data' = bytes
  /\ given' = given \o bytes
  /\ UNCHANGED <<pending, out, ended>>

\* One round of the loop of Write: the bytes of a line, those before the end of what was
\* written, or those before the limit.
Round ==
  LET n == Taken(pending, data)
      bytes == pending \o SubSeq(data, 1, n)
  IN /\ data # <<>>
     /\ data' = SubSeq(data, n + 1, Len(data))
     /\ \/ /\ Last(bytes) = "nl"
           /\ pending' = <<>>
           /\ out' = Append(out, Message(bytes))
        \/ /\ Last(bytes) # "nl"
           /\ Len(bytes) # Size
           /\ pending' = bytes
           /\ UNCHANGED out
        \/ /\ Last(bytes) # "nl"
           /\ Len(bytes) = Size
           /\ pending' = Fragment(bytes).rest
           /\ out' = Append(out, Fragment(bytes).message)
     /\ UNCHANGED <<given, ended>>

\* flush, after the child's exit
Flush ==
  /\ ~ended
  /\ data = <<>>
  /\ ended' = TRUE
  /\ out' = IF pending # <<>> THEN Append(out, Message(pending)) ELSE out
  /\ pending' = <<>>
  /\ UNCHANGED <<data, given>>

Next == \/ \E n \in 1..(MaxGiven - Len(given)) : \E bytes \in [1..n -> Byte] : Write(bytes)
        \/ Round
        \/ Flush

Spec == Init /\ [][Next]_vars

-----------------------------------------------------------------------------
(* Properties *)

\* No byte is lost, doubled or moved: the messages, their newlines put back, what is
\* pending and what is still to be taken are the stream.
Original(m) == IF m.nl THEN Append(m.text, "nl") ELSE m.text
Said == FlattenSeq([n \in DOMAIN out |-> Original(out[n])])
NothingLost == Said \o pending \o data = given

\* The reference: a stream taken byte by byte.
Accept(state, byte) ==
  LET bytes == Append(state.pending, byte)
  IN IF byte = "nl"
     THEN [pending |-> <<>>, out |-> Append(state.out, Message(bytes))]
     ELSE IF Len(bytes) < Size THEN [pending |-> bytes, out |-> state.out]
     ELSE [pending |-> Fragment(bytes).rest,
           out |-> Append(state.out, Fragment(bytes).message)]

After(stream) ==
  LET state[n \in 0..Len(stream)] ==
        IF n = 0 THEN [pending |-> <<>>, out |-> <<>>] ELSE Accept(state[n - 1], stream[n])
  IN state[Len(stream)]

\* How the kernel cuts the stream into writes does not show: the messages are those of
\* its bytes one by one, at any time.
CutsDoNotShow ==
  ~ended => After(SubSeq(given, 1, Len(given) - Len(data))) = [pending |-> pending, out |-> out]

\* UTF-8, as far as it goes: every first byte has its continuations, but for the last
\* character, and there are no others.
Continuations == [nl |-> 0, x |-> 0, lead2 |-> 1, lead3 |-> 2]
Unicode(s) ==
  /\ s # <<>> => s[1] # "cont"
  /\ \A n \in DOMAIN s : s[n] # "cont" =>
       LET after == n + Continuations[s[n]]
       IN /\ \A k \in DOMAIN s : k \in (n + 1)..after => s[k] = "cont"
          /\ after + 1 \in DOMAIN s => s[after + 1] # "cont"
Whole(s) == Unicode(Append(s, "x"))

\* A long line is sent in bounded pieces (docs/master.md:852), and no piece splits a
\* character: a message is at most a fragment long, less is held back, and when the stream
\* is UTF-8 so is every message, the last one, cut short by the child's exit, excepted.
PiecesSound ==
  /\ \A n \in DOMAIN out : Len(out[n].text) <= Size
  /\ Len(pending) < Size
  /\ Unicode(given) => \A n \in DOMAIN out : Whole(out[n].text) \/ (ended /\ n = Len(out))

-----------------------------------------------------------------------------
(* Why they hold: the parts of an inductive invariant *)

Text == [text : Seq(Byte), nl : BOOLEAN]

\* What is pending is the beginning of a line.
StreamInv ==
  /\ pending \in Seq(Byte) /\ data \in Seq(Byte) /\ given \in Seq(Byte)
  /\ out \in Seq(Text)
  /\ ended \in BOOLEAN
  /\ \A n \in DOMAIN pending : pending[n] # "nl"
  /\ ended => pending = <<>> /\ data = <<>>

\* What has been sent ends with a character.
CutInv == ~ended /\ Unicode(given) => Whole(Said)

LogInv == StreamInv /\ NothingLost /\ CutsDoNotShow /\ CutInv /\ PiecesSound

=============================================================================
