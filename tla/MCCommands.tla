---------------------------- MODULE MCCommands ----------------------------
(* Lines with every placing of slashes, dots and blanks that the commands tell
   apart, over one letter; a second one where a file meets a directory. *)
EXTENDS Commands

names == {<<"a">>, <<"a", "/">>, <<"a", "/", "/">>, <<"/", "a">>, <<"a", "/", "/", "a">>}
dots == {<<".">>, <<".", ".">>, <<".", ".", "/">>}
blanks == {<<" ", "a", " ">>, <<" ">>, <<"/">>, <<"/", "/">>}

MCLines ==
  {<<"cd">>, <<"ls">>, <<"ls", " ", "a">>, <<" ", "ls", " ">>, <<"pwd">>, <<" ">>, <<">", "a">>}
  \cup {<<w, " ">> \o s : w \in {"cd"}, s \in names \cup dots \cup blanks}
  \cup {<<w, " ">> \o s : w \in {"mkdir"}, s \in names \cup {<<".", ".">>, <<" ", "a">>}}
  \cup {<<"touch", " ", "a", ">">>, <<"touch", " ", "/", "a">>, <<"touch", " ", "a", "/">>,
        <<"cat", " ", " ", "a", " ">>, <<"cat", " ", "/", "a">>, <<"cat", " ", ".">>}
  \cup {<<"echo", " ", "a">> \o s :
          s \in {<<>>, <<">">>, <<" ", ">", " ", "b", " ">>, <<">", ">", " ", "a">>, <<">", "/">>,
                 <<">", "b", ">", ">", "a">>}}

=============================================================================
