----------------------------- MODULE MCWordCount ---------------------------
(* An instance of WordCount for TLC: two inputs with words in common, capital *)
(* letters, an empty first token, and three words that occur equally often.   *)
EXTENDS WordCount, TLC

MCAlphabet == <<"and", "the", "war", "was">>
MCTokens   == {"", "the", "The", "war", "War", "and", "was"}
MCLower    == [t \in MCTokens |-> CASE t = "The" -> "the" [] t = "War" -> "war" [] OTHER -> t]
MCInputs   == << << <<"", "The", "was">>, <<"war", "the">> >>,
                 << <<"and">>, <<"War", "the", "was", "and">> >> >>
MCKey      == "and" :> 0 @@ "the" :> 0 @@ "war" :> 1 @@ "was" :> 1
===========================================================================
