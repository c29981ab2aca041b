---------------------------- MODULE MCTokenizer ----------------------------
(* Instances of TokenPipeline: all short texts over families of characters *)
(* each of which holds what can meet in a token.                           *)
EXTENDS TokenPipeline

Texts(S, n) == UNION {[1..k -> S] : k \in 0..n}

FilesAll ==
  UNION {Texts({"+", "-", ">", "=", "&"}, 4), Texts({"<", ">", "=", "BS", "LF"}, 5),
         Texts({"/", "*", "LF", "BS", "a"}, 5), Texts({"sq", "BS", "LF", "e"}, 5),
         Texts({"#", "include", "<", ">", "LF", "sp"}, 5), Texts({"dq", "include", "LF", "#"}, 5),
         Texts({"1", ".", "a", "CR", "LF", "BS"}, 4), Texts({"dq", "BS", "e", "sp"}, 5),
         Texts({"(", "^", "!", "%", "_", "int"}, 3), Texts({"dq", "e"}, 6), Texts({"|", "#", "@", "sp"}, 3)}
=============================================================================
