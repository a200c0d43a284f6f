--------------------------- MODULE MCPanelAliases ---------------------------
(***************************************************************************)
(* A small instance of PanelAliases: one channel with a row that forces    *)
(* its name and one without rows yet; names that differ in case or blanks, *)
(* an upstream that lists a name twice, one that hides a name, and         *)
(* providers in two spellings, without a listing, a channel or a name.     *)
(***************************************************************************)
EXTENDS PanelAliases, TLC

MCTexts == {"", "m", "m ", "n", "N", "c-m", "C-M", "c-n", "d-m", "d-n"}
MCSpellings == {"", "c", "C", "d", "x"}
MCLower == [c \in MCSpellings |-> IF c = "C" THEN "c" ELSE c]
MCTrim == [t \in MCTexts |-> IF t = "m " THEN "m" ELSE t]
MCFold == [t \in MCTexts |-> CASE t = "N" -> "n" [] t = "C-M" -> "c-m" [] OTHER -> t]
MCPrefixed == [c \in MCSpellings |-> [t \in MCTexts |->
                 CASE c = "c" /\ t = "m" -> "c-m" [] c = "c" /\ t = "n" -> "c-n"
                   [] c = "d" /\ t = "m" -> "d-m" [] c = "d" /\ t = "n" -> "d-n"
                   [] OTHER -> t]]

MCChannels == <<"c", "d">>
Forced == Row("m", "c-m", "forced")
MCTables == {[ch \in {"c"} |-> <<Forced>>]}

Offering(models, hidden) == [models |-> models, hidden |-> hidden, origin |-> ""]
MCUpstreams == {
    [p \in {"C", "x", ""} |-> IF p = "C" THEN Offering(<<"m ", "n", "n", "">>, <<"N">>)
                                         ELSE Offering(<<>>, <<"m">>)],
    [p \in {"c", "C", "d"} |-> IF p = "c" THEN Offering(<<"n">>, <<"m">>)
                               ELSE IF p = "C" THEN Offering(<<>>, <<>>)
                               ELSE Offering(<<"m", "c-m">>, <<>>)]}

MCSymmetry == Permutations(Savers)

MCTyping == {<<"c", "alias", "C-M">>, <<"c", "alias", "m ">>,
             <<"d", "alias", "">>}
MCNewRows == {<<"c", "n", "c-n">>, <<"d", "m", "d-m">>}
MCElsewhere == {<<"c", <<Forced, Row("n", "d-n", "forced")>> >>}
=============================================================================
