-------------------------------- MODULE Encoding -------------------------------
(***************************************************************************)
(* How the fingerprint of a request (crates/winvibe-core/src/approval/     *)
(* fingerprint.rs) delimits the texts it is made of: the quotes of strings *)
(* in canonical JSON, and the lengths before what is hashed.               *)
(*                                                                         *)
(* A text is the sequence of its bytes in UTF-8, so its length is that of  *)
(* the code.  The characters that are escaped are single bytes below 128,  *)
(* which no other character contains.                                      *)
(***************************************************************************)
EXTENDS Naturals, Sequences, SequencesExt

Text == Seq(Nat)

Tab == 9   Newline == 10   Return == 13   DoubleQuote == 34   Backslash == 92

--------------------------------------------------------------------------------
(* The strings of write_canonical *)

HexDigit(n) == IF n < 10 THEN 48 + n ELSE 87 + n

\* mutant of Escape: a backslash is copied
EscapeNotBackslash(c) ==
  CASE c = DoubleQuote -> <<Backslash, c>>
    [] c = Newline     -> <<Backslash, 110>>
    [] OTHER           -> <<c>>

Escape(c) ==
  CASE c \in {DoubleQuote, Backslash} -> <<Backslash, c>>
    [] c = Newline -> <<Backslash, 110>>
    [] c = Return  -> <<Backslash, 114>>
    [] c = Tab     -> <<Backslash, 116>>
    [] c < 32 /\ c \notin {Newline, Return, Tab} ->
         <<Backslash, 117, 48, 48, HexDigit(c \div 16), HexDigit(c % 16)>>
    [] OTHER       -> <<c>>

Quoted(text) ==
  <<DoubleQuote>> \o FlattenSeq([i \in DOMAIN text |-> Escape(text[i])]) \o <<DoubleQuote>>

--------------------------------------------------------------------------------
(* What compute_fingerprint hashes *)

(* (n as u32).to_be_bytes() *)
BigEndian(n) ==
  <<(n \div 16777216) % 256, (n \div 65536) % 256, (n \div 256) % 256, n % 256>>

WithLength(text) == BigEndian(Len(text)) \o text

(* The prefix winvibe-fp and the version are the same for all and left out. *)
Frame(session, tool, input) == WithLength(session) \o WithLength(tool) \o WithLength(input)
================================================================================
