------------------------------- MODULE LineStream ------------------------------
(***************************************************************************)
(* What a client's bytes mean to the server, without buffers, pointers and *)
(* reads: one stream, to which bytes are added at any time, even between   *)
(* the CR and the LF of a line ending.  Its lines depend on the bytes      *)
(* alone.  A line ends with LF, before which one CR belongs to the ending; *)
(* with its ending it has MaxLength characters or fewer, and a longer one  *)
(* ends the connection.                                                    *)
(*                                                                         *)
(* One thing depends on when the bytes come: a NUL hides all that has      *)
(* arrived behind it.                                                      *)
(***************************************************************************)
EXTENDS Naturals, Sequences

CONSTANTS
    Text,       \* the characters that mean nothing here
    CR, LF, NUL,
    MaxLength   \* the longest line, with its ending

VARIABLES
    input,      \* what has arrived and has not been looked at
    rest,       \* the line that has not ended yet
    line,       \* the last line that was handled
    ended       \* "no", "too long", or "closed" for any other reason

vars == <<input, rest, line, ended>>

\* The length of the line ending the input begins with; 0 if it does not.
EndingOf(s) ==
    IF s # <<>> /\ s[1] = LF THEN 1
    ELSE IF Len(s) > 1 /\ s[1] = CR /\ s[2] = LF THEN 2 ELSE 0

EndsInCR(s) == s # <<>> /\ s[Len(s)] = CR

\* A line whose LF has come, without the CR that was taken before it.
Stripped(s) == IF EndsInCR(s) THEN SubSeq(s, 1, Len(s) - 1) ELSE s

Init == input = <<>> /\ rest = <<>> /\ line = <<>> /\ ended = "no"

Arrive ==
    /\ ended = "no"
    /\ input' \in Seq(Text \cup {CR, LF, NUL})
    /\ Len(input) <= Len(input') /\ SubSeq(input', 1, Len(input)) = input
    /\ UNCHANGED <<rest, line, ended>>

Take ==
    /\ ended = "no"
    /\ input # <<>> /\ input[1] \notin {LF, NUL}
    /\ rest' = Append(rest, input[1])
    /\ input' = Tail(input)
    /\ UNCHANGED <<line, ended>>

\* A line is handled whole; it may close the connection, and then nothing behind
\* it is looked at.
Handle(text, ending) ==
    /\ ended = "no"
    /\ Len(rest) + ending <= MaxLength
    /\ line' = text
    /\ rest' = <<>>
    /\ \/ ended' = "no" /\ input' = SubSeq(input, ending + 1, Len(input))
       \/ ended' = "closed" /\ input' = <<>>

\* Whether the CR of the ending has been taken or not, the line is the same.
EndLine ==
    \/ EndingOf(input) = 1 /\ Handle(Stripped(rest), 1)
    \/ EndingOf(input) = 2 /\ Handle(rest, 2)

TooLong ==
    /\ ended = "no"
    /\ Len(rest) + EndingOf(input) > MaxLength \/ Len(rest) >= MaxLength
    /\ ended' = "too long"
    /\ input' = <<>> /\ rest' = <<>>
    /\ UNCHANGED line

Hide ==
    /\ ended = "no"
    /\ input # <<>> /\ input[1] = NUL
    /\ Len(rest) < MaxLength
    /\ input' = <<>>
    /\ UNCHANGED <<rest, line, ended>>

Fail ==
    /\ ended = "no"
    /\ ended' = "closed"
    /\ input' = <<>> /\ rest' = <<>>
    /\ UNCHANGED line

Next == Arrive \/ Take \/ EndLine \/ TooLong \/ Hide \/ Fail

(***************************************************************************)
(* What is not allowed: the two ways in which the server is known to go    *)
(* wrong.                                                                  *)
(***************************************************************************)
\* The CR of a line ending is handled as the last character of the line.
KeepCR ==
    /\ EndsInCR(rest)
    /\ EndingOf(input) = 1
    /\ Handle(rest, 1)

\* The line that has not ended is mixed up.  It keeps its length and holds no
\* character that it did not hold.
Garble ==
    /\ ended = "no"
    /\ input # <<>> => input[1] = NUL
    /\ Len(rest) < MaxLength
    /\ rest' \in [1..Len(rest) -> {rest[i] : i \in 1..Len(rest)}]
    /\ input' = <<>>
    /\ UNCHANGED <<line, ended>>

================================================================================
