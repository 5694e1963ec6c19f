------------------------------ MODULE MCNclPath ------------------------------
(* Code lists that meet every branch of ReadNCL and of AppendCode.         *)
EXTENDS NclPathProps

\* A text from its words, one string a character.
Code3(a) == <<"0", " ", "0", " ">> \o a
Tag(id, elements) == <<"[">> \o Zs(id) \o <<"]">> \o elements \o <<"[/">> \o Zs(id) \o <<"]">>
Plain1 == <<Code3(<<"0">>)>>
Bodies == {
  <<Code3(<<"0", " ", "g">>), <<"1", " ", "0", " ", "g", " ", "g">>,
    <<"2", " ", "0", " ", "0", ".">>, <<"g", "g", "g", "g">>, Code3(<<".">>), <<"0", "0">>>>,
  <<<<"1", " ", "g", " ", "0">>, <<"1", " ", "0">>, <<"2", " ", "0", " ", "g">>, <<"2", " ", "0", "0">>>>,
  <<<<"/*", "g">>, Code3(<<"0">>), <<"*/">>, Code3(<<"1">>)>>,
  <<<<"g", "*/">>, <<"/*", "g", "*/">>, Code3(<<"0">>)>>,
  <<Code3(<<"0", "/*">>), Code3(<<"1">>)>>, <<Code3(<<"0">>), <<"g", "g", "g", "/*">>>>,
  <<Code3(<<"0">>), <<"/*", "g", "/*", "*/", "g">>, <<"g", "*/">>>>,
  <<Code3(<<"Z">>), Tag(1, <<"1", "=", "g", ";", "2", "=", "g">>)>>,
  <<Code3(<<"Z", "Z">>), Tag(2, <<"0", "1", "=", "[", ";", "1", "0", "0", "=", "g", ";", "1", "=", "g">>),
    <<"0", " ", "Z", "Z", " ", "Z">>>>,
  <<Code3(<<"Z", "Z", "Z">>), Tag(3, <<"1", "0", "0", "=", "g", ";", "2", "0", "0", "=">>), <<"g", "/*">>>>,
  <<Code3(<<"Z", "Z", "Z">>), Tag(3, <<";", "1", "0", "0", "=">>)>>,
  <<Code3(<<"Z", "Z", "Z", "Z">>), Tag(4, <<"=">>)>>, <<Code3(<<"Z", "Z">>), Tag(2, <<>>)>>,
  <<Code3(<<"Z">>), <<"[", "Z", "]", "1", "=", "g">>>>,
  <<Code3(<<"Z">>), Code3(<<"Z", "Z">>), Tag(1, <<"1", "=">>), Tag(2, <<"2", "2", "=", "g">>)>>,
  <<Code3(<<"Z">>), <<"[", "Z", "]", "1", "=", "[", "Z", "Z", "]", "=", ";", "1", "[/", "Z", "]">>>>,
  <<Code3(<<"Z", "Z">>), Tag(2, <<"1", "=", "2", "=", "g", ";", "g", ";", ";">>)>>,
  <<Code3(<<"0">>), <<"g", "#", "g">>, <<"{", "g">>>>}

\* Short lists of every order of the two forms, with every kind of name, and
\* single codes with every body.
Names == {<<"g">>, <<"1", "g">>, <<"g", "#", "g">>}
Block(olds, names, marks, bodies) == [old : olds, name : names, mark : marks, body : bodies]
Small == Block(BOOLEAN, Names, {"0", "1"}, {Plain1})
Lists ==
  {<<>>} \cup {<<a>> : a \in Block(BOOLEAN, {<<"g">>, <<"{">>}, {"1"}, Bodies)}
    \cup {<<a>> : a \in Small} \cup {<<a, b>> : a, b \in Small}
    \cup {<<a, b, c>> : a, b, c \in Block(BOOLEAN, {<<"g">>, <<"1", "g">>}, {"1"}, {Plain1})}

\* Names of one to three words: those of a title, a title id, and what looks like a
\* version and is one, or is not.
TitleID == <<"g", "g", "g", "g", "0", "0", "0", "0", "0">>
Words == {<<"g", "g">>, <<"0", "0">>, <<"v">>, <<"v", "0">>, TitleID, <<"g">> \o TitleID,
          <<"0", "0", ".", "0", "0">>, <<"v", "0", "0", ".", "0", "0">>,
          <<"v", "0", ".", "0", "0">>, <<"v", "0", ".", "0">>, <<"0", "0", ".", "0", "0", ".">>,
          <<"g", "v", "0", "0", ".", "0", "0">>}
FileNames == UNION {[1 .. n -> Words] : n \in 1 .. 3}

AllFiles == [words : {<<<<"g">>>>}, blocks : Lists, eol : Ends]
             \cup [words : FileNames, blocks : {<<>>}, eol : {<<"\n">>}]
\* (TLC evaluates AllFiles once, and what a configuration puts in the place of a
\* constant every time.)
MCFiles == AllFiles
MCBehind == {<<>>, <<"\n">>, <<"0">>}
=============================================================================
