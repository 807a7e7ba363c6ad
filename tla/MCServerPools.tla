------------------------------ MODULE MCServerPools ------------------------------
(***************************************************************************)
(* What the server backends do, in one run: a behaviour is of the pools of *)
(* ServerPools, which is extended, or writes a text that SqlText           *)
(* translates and splits, chosen at the start; the other stands still.     *)
(* Three calls share a pool of one, which a body that calls again          *)
(* exhausts; or two calls a pool of two.                                   *)
(***************************************************************************)
EXTENDS ServerPools, TLC

CONSTANT Third     \* the call that stays away from a pool of two

VARIABLES side, dialect, pieces, text, length

\* Pieces that meet in strings, in line comments and in block comments.
Common == {{<<"'">>, <<";">>, <<"?">>, <<"a">>, <<" ">>},
           {<<"-">>, <<"\n">>, <<";">>, <<"?">>, <<"a">>},
           {<<"/">>, <<"*">>, <<";">>, <<"?">>, <<"a">>}}
\* And those only one dialect has a use for.
MCAlphabet == [sqlite |-> Common \cup {{<<"\"">>, <<"'">>, <<"?">>}},
               postgresql |-> Common \cup
                   {{<<"$", "$">>, <<"$">>, <<"$", "a", "$">>, <<"'">>, <<" ", "?">>}},
               mysql |-> {{<<"backtick">>, <<"#">>, <<"\n">>, <<"?">>, <<"a">>, <<";">>},
                          {<<"%">>, <<"'">>, <<"?">>, <<"s">>}}]

Sql == INSTANCE SqlText WITH Alphabet <- MCAlphabet, MaxPieces <- 5

sqlVars == <<dialect, pieces, text, length>>

ServersInit ==
    /\ Init
    /\ \/ side = "pools" /\ dialect = "sqlite" /\ pieces = {} /\ text = <<>> /\ length = 0
       \/ side = "text" /\ backend = "postgresql" /\ Sql!Init

ServersNext ==
    /\ UNCHANGED side
    /\ \/ side = "pools" /\ Next /\ (size = 2 => pc'[Third] = "idle") /\ UNCHANGED sqlVars
       \/ side = "text" /\ Sql!Next /\ UNCHANGED vars

ServersSpec == ServersInit /\ [][ServersNext]_<<side, vars, sqlVars>> /\ (side = "pools" => Fairness)
-----------------------------------------------------------------------------
\* SqlText: a driver finds in a translated text what was written.
DriverReadsWhatWasWritten == Sql!DriverReadsWhatWasWritten
\* SqlText: the statements cut from a script are its server's, and stand alone.
StatementsStandAlone == Sql!StatementsStandAlone
=============================================================================
