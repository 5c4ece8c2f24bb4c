------------------------------- MODULE Reply -------------------------------
(***************************************************************************)
(* The inside of handle_ai_message (bot.py) between its first provider     *)
(* call and the reply: an answer too long for an IRC line is sent back for *)
(* a rewrite, twice at most, and cut to size (irc.py) if it still is.      *)
(*                                                                         *)
(* A text is the sequence of its characters, each the number of its bytes  *)
(* in UTF-8.  provider.chat is one step; OpenRouterChat.tla is its inside. *)
(***************************************************************************)
EXTENDS Integers, Sequences, SequencesExt

CONSTANTS MaxConciseRetries, \* MAX_CONCISE_RETRIES, 2
          SafeBytes,         \* IRC_SAFE_BYTES, 450
          Suffix,            \* the ellipsis of limit_utf8
          Answers,           \* texts the provider may return, <<>> among them
          Noisy              \* whether the caller passed a noisy_callback

ASSUME RetriesAssumption == MaxConciseRetries \in Nat
ASSUME TextAssumption == SafeBytes \in Nat /\ Suffix \in Seq(1..4) /\ Answers \subseteq Seq(1..4)
ASSUME NoisyAssumption == Noisy \in BOOLEAN

VARIABLES pc,
          answers,   \* what provider.chat returned, in order; the last is response
          retries,   \* concise_retries
          reply      \* the text saved and returned, NoReply before

vars == <<pc, answers, retries, reply>>

----------------------------------------------------------------------------
(* Texts and their bytes: a byte is the width of the character it leads, or *)
(* 0 inside one.                                                            *)

Encoded(text) ==
    FlattenSeq([i \in 1..Len(text) |-> [k \in 1..text[i] |-> IF k = 1 THEN text[i] ELSE 0]])

Bytes(text) == Len(Encoded(text))

\* decode with errors="ignore" drops a character cut off at the end: kept[i] is
\* what the first i bytes leave.
Decoded(bytes) ==
    LET kept[i \in 0..Len(bytes)] ==
            IF i = 0 THEN <<>>
            ELSE IF bytes[i] > 0 /\ i + bytes[i] - 1 <= Len(bytes)
                 THEN Append(kept[i - 1], bytes[i])
                 ELSE kept[i - 1]
    IN kept[Len(bytes)]

LimitUtf8ByCharacter(text, max) ==                         \* mutant
    IF Bytes(text) <= max THEN text
    ELSE SubSeq(text, 1, max - Len(Suffix)) \o Suffix

LimitUtf8(text, max) ==
    IF Bytes(text) <= max THEN text
    ELSE IF Bytes(Suffix) > max THEN Decoded(SubSeq(Encoded(text), 1, max))
    ELSE Decoded(SubSeq(Encoded(text), 1, max - Bytes(Suffix))) \o Suffix

----------------------------------------------------------------------------
NoReply == <<0>>

Response == Last(answers)
TooLong(text) == Bytes(text) > SafeBytes

Init == pc = "chat" /\ answers = <<>> /\ retries = 0 /\ reply = NoReply

\* provider.chat returns a text that is not blank, ...
Chat ==
    /\ pc = "chat"
    /\ \E text \in Answers \ {<<>>} : answers' = Append(answers, text)
    /\ pc' = "measure"
    /\ UNCHANGED <<retries, reply>>

\* ... or raises, or returns a blank one: the message ends in an error, also
\* when an earlier answer could have been cut.
ChatFails ==
    /\ pc = "chat"
    /\ pc' = "error"
    /\ UNCHANGED <<answers, retries, reply>>

MayRewriteFitting == retries < MaxConciseRetries           \* mutant

\* The condition of the concise loop.
MayRewrite == TooLong(Response) /\ retries < MaxConciseRetries

\* The draft and a reminder of the limit go back to the provider; the notice
\* about it may fail.
Rewrite ==
    /\ pc = "measure" /\ MayRewrite
    /\ retries' = retries + 1
    /\ \/ pc' = "chat"
       \/ Noisy /\ pc' = "error"
    /\ UNCHANGED <<answers, reply>>

\* What is left too long is cut; the result is saved and said.
Finish ==
    /\ pc = "measure" /\ ~MayRewrite
    /\ reply' = LimitUtf8(Response, SafeBytes)
    /\ pc' = "done"
    /\ UNCHANGED <<answers, retries>>

Next == Chat \/ ChatFails \/ Rewrite \/ Finish

Spec == Init /\ [][Next]_vars

----------------------------------------------------------------------------
(* Properties *)

\* The tail a cut text ends in: the ellipsis if there is room for it.
CutTail(max) == IF Bytes(Suffix) > max THEN <<>> ELSE Suffix

\* limit_utf8 against its definition: a text that fits is untouched, and one
\* that does not is cut between two characters to the longest prefix that fits
\* together with the tail.
LimitKeepsLongestPrefix ==
    answers = <<>> =>
        \A text \in Answers : \A max \in 0..SafeBytes :
            IF Bytes(text) <= max THEN LimitUtf8(text, max) = text
            ELSE \E k \in 0..(Len(text) - 1) :
                    /\ LimitUtf8(text, max) = SubSeq(text, 1, k) \o CutTail(max)
                    /\ Bytes(SubSeq(text, 1, k) \o CutTail(max)) <= max
                    /\ Bytes(SubSeq(text, 1, k + 1) \o CutTail(max)) > max

\* The reply is the first answer that fits an IRC line, whole; only when the
\* answer and every rewrite were too long is it the last of them, cut, and it
\* always fits.
ReplyIsFirstThatFits ==
    pc = "done" =>
        /\ ~TooLong(reply)
        /\ \A i \in 1..(Len(answers) - 1) : TooLong(answers[i])
        /\ IF TooLong(Response)
           THEN Len(answers) = MaxConciseRetries + 1 /\ reply = LimitUtf8(Response, SafeBytes)
           ELSE reply = Response

----------------------------------------------------------------------------
(* The inductive invariant *)

TypeOK ==
    /\ pc \in {"chat", "measure", "done", "error"}
    /\ answers \in Seq(Answers)
    /\ retries \in 0..MaxConciseRetries

\* There is one answer per rewrite, and the one in hand.
CountInv ==
    /\ pc = "chat" => Len(answers) = retries
    /\ pc \in {"measure", "done"} => Len(answers) = retries + 1

\* Only an answer that is too long is followed by another one.
RewrittenInv ==
    \A i \in DOMAIN answers : i < Len(answers) \/ pc = "chat" => TooLong(answers[i])

ReplyInv == pc = "done" => ~MayRewrite /\ reply = LimitUtf8(Response, SafeBytes)

Inv == TypeOK /\ CountInv /\ RewrittenInv /\ ReplyInv
=============================================================================
