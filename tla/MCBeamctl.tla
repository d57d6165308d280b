----------------------------- MODULE MCBeamctl ------------------------------
(***************************************************************************)
(* A small instance of Attach and Beamctl for TLC.                         *)
(***************************************************************************)
EXTENDS Attach, TLC

\* The service "s"; one whose name begins with a %hh and decodes to it; and the bootstrap
\* service, whose name begins with "s".
S == <<1, 2>>
T == <<20, 2>>
BO == <<1, 2, 1>>
SmallNames == {S, T, BO}

\* Of a URL: the characters 10 to 14, 20 for the %hh of the character 1, and the words of
\* the routes.
SmallDecoded == 20 :> 1
SmallWords ==
    "service" :> 30 @@ "Stop" :> 31 @@ "Restart" :> 32 @@ "Freeze" :> 33 @@ "Thaw" :> 34
      @@ "Show" :> 35 @@ "Notify" :> 36

\* Nothing; the beginning of "s" and of the bootstrap service; the name "s", with which the
\* latter begins, too; the beginning of one name, with a %hh; "s?x", "s/restart?", "x/../s"
\* and "s ".
SmallArguments ==
    {<<>>, <<1>>, S, <<20>>,
     S \o <<10, 9>>, S \o <<11, 32, 10>>, <<9, 11, 12, 12, 11>> \o S, S \o <<14>>}
SmallNew == {S, T}

SmallSelectors == {1 :> "x" @@ 2 :> "x"}
SmallLabels == {<<>>, 1 :> "x" @@ 2 :> "x", 1 :> "y" @@ 2 :> "x"}

\* A plain name goes through the URL as it is.
ASSUME PlainNamesArrive ==
    \A n \in Names \cup Arguments, op \in Operations :
        Plain(n) => Routed(op, Normalised(Segments(PathText(op, n)))) = {[op |-> op, name |-> n]}
=============================================================================
