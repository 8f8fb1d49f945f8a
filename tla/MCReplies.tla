------------------------------ MODULE MCReplies ------------------------------
(* Two interactions: two commands or mentions, or a wizard and its form;   *)
(* and what a user may type into one, from plain words to a pasted URL.    *)
EXTENDS Replies

CONSTANTS i1, i2

MCWords == {"word", "a", "5432", "3306", "6543", "neon"}
MCNumbers == {"5432", "3306", "6543"}

Blanks == {<<>>, <<"blank">>}

MCHosts ==
  {<<"blank">>, <<"blank", "word">>, <<"a", "neon">>, <<"word", ":", "6543">>,
   <<"word", "/", "a", "?", "word">>, <<"word", "?", "a">>, <<"a", "@", "word">>,
   <<"/", "word">>, <<"word", "#", "a">>,
   <<"word", ":", "/", "/", "a", ":", "a", "@", "word", "/", "a">>}

MCPorts == Blanks \cup {<<"blank", "6543">>, <<"word">>, <<"6543", "blank", "3306">>}

MCNames ==
  {<<"blank">>, <<"blank", "word", "blank">>, <<"word", "blank", "a">>,
   <<"a", "?", "word">>, <<"a", "@", "word">>, <<"/", "word">>, <<"a", ":", "word">>}

MCSecrets ==
  Blanks \cup {<<"blank", "word">>, <<"a", "blank", "word">>,
               <<"a", "@", ":", "/", "?", "#", "%", "+">>}

MCPaths == Blanks \cup {<<"word">>, <<"/", "word">>, <<"word", "?", "a">>, <<"a", "@", ":">>}

(* Plain asks for no more than it must: no other form leads where it       *)
(* should.                                                                 *)
ASSUME PlainIsNeeded ==
  \A f \in Forms :
    /\ Assembles(f) /\ Usable(f)
    /\ Explorer(Dsn(f), Token(f)) = [target |-> Named(f), token |-> Token(f)]
    => Plain(f)
===============================================================================
