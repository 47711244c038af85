------------------------------- MODULE MCViewer -------------------------------
(* A thread of a long message, with an empty line, words that share a line *)
(* only in the wider window and one that is wider than the narrow one, and *)
(* of a short message.                                                     *)
EXTENDS Viewer

LongMessage == << <<2, 2, 2>>, << >>, <<1, 4>> >>

MCThreads == {<< LongMessage, << <<1>> >> >>}
MCOthers  == {<< <<2, 1>> >>}

=============================================================================
