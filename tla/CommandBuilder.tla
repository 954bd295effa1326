---------------------------- MODULE CommandBuilder ----------------------------
(***************************************************************************)
(* What CommandBuilder of include/launch_cpp/safety/command_builder.hpp    *)
(* does to an argument of a command.  A string is a sequence of classes of *)
(* characters: "dollar" is also a back-quote, "plain" all that has no      *)
(* meaning to a shell here.                                                *)
(***************************************************************************)
EXTENDS Sequences, SequencesExt

Chars == {"plain", "space", "quote", "backslash", "dollar"}

needs_quoting(str) == \E i \in DOMAIN str : str[i] # "plain"

\* Mutant of escape_argument: a backslash is left as it is.
escape_quotes(arg) ==
  IF ~needs_quoting(arg) THEN arg
  ELSE LET escaped == [i \in DOMAIN arg |-> IF arg[i] = "quote" THEN <<"backslash", arg[i]>>
                                            ELSE <<arg[i]>>]
       IN  <<"quote">> \o FlattenSeq(escaped) \o <<"quote">>

escape_argument(arg) ==
  IF ~needs_quoting(arg) THEN arg
  ELSE LET escaped == [i \in DOMAIN arg |->
                         IF arg[i] \in {"quote", "backslash"} THEN <<"backslash", arg[i]>>
                         ELSE <<arg[i]>>]
       IN  <<"quote">> \o FlattenSeq(escaped) \o <<"quote">>

=============================================================================
