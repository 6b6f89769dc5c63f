----------------------------- MODULE MCPostScreens -----------------------------
(* PostScreens with the answers that tell its cases apart.                      *)
(* The records name their fields in the order in which the module names them    *)
(* first, the order TLC keeps them in: its workers share these values.          *)
EXTENDS PostScreens, TLC

Photo(sizes) == [sizes |-> sizes, typed |-> TRUE]
Video == [sizes |-> Nil, typed |-> TRUE]
Untyped == [sizes |-> {"m", "x"}, typed |-> FALSE]

Attachments == {
  Nil, <<Photo({"s"})>>, <<Photo({"p", "w"}), Video>>, <<Video>>,
  <<Photo({"m", "x", "z"}), Photo({"o", "q"})>>, <<Photo({"?"})>>, <<Photo({"x"}), Untyped>>}

Item(text, attachments, from, whole) ==
  [text |-> text, attachments |-> attachments, from |-> from, whole |-> whole]

Answer(items, whole) == [whole |-> whole, items |-> items, profiles |-> {1}, groups |-> {2}]

\* Every text and every list of attachments on its own; long and short together; an
\* item, and a list beside the items, that do not decode; an author no one knows.
MCNewsAnswers ==
  {Answer(<<Item(text, <<Photo({"x"})>>, -2, TRUE)>>, TRUE) : text \in {0, 20, 143, 144, 300}}
  \cup {Answer(<<Item(144, a, 1, TRUE)>>, TRUE) : a \in Attachments}
  \cup {Answer(<<Item(300, Nil, 1, TRUE), Item(20, <<Photo({"x"})>>, from, whole)>>, TRUE) :
     from \in {-2, 2}, whole \in BOOLEAN}
  \cup {Answer(<<Item(20, Nil, 1, TRUE)>>, FALSE)}

Reply(text, from, whole) == [text |-> text, from |-> from, whole |-> whole]
Replies == {
  Nil,
  [whole |-> TRUE, items |-> <<>>, count |-> 0],
  [whole |-> TRUE, items |-> <<Reply(0, 1, TRUE), Reply(18, -2, TRUE), Reply(0, -2, TRUE)>>, count |-> 3],
  [whole |-> TRUE, items |-> <<Reply(36, 1, TRUE), Reply(0, 3, TRUE)>>, count |-> 5],
  [whole |-> TRUE, items |-> <<Reply(18, 1, FALSE)>>, count |-> 1]}

Comment(text, from, replies, whole) ==
  [text |-> text, from |-> from, whole |-> whole, thread |-> replies]

MCCommentAnswers ==
  {Answer(<<Comment(0, -2, t, TRUE)>>, TRUE) : t \in Replies}
  \cup {Answer(<<Comment(18, 1, Nil, TRUE), Comment(0, from, Nil, whole), Comment(36, 1, Nil, TRUE)>>, TRUE) :
     from \in {-2, -1}, whole \in BOOLEAN}
=============================================================================
