--------------------------------- MODULE Url ---------------------------------
(***************************************************************************)
(* Urls as SimpleREST parses them (url_parser.cpp, url.cpp).  A url is     *)
(* what its text consists of: the words between the slashes of its path,   *)
(* and the key=value pairs of its query.  A word that begins with a colon  *)
(* is in Params; it stands for itself in a received url and for a path     *)
(* parameter in a registered one.                                          *)
(***************************************************************************)
EXTENDS Naturals, Sequences

CONSTANTS
  Params,  \* words that begin with a colon
  Empty    \* the empty string

(* What a url's parts are: a parameter has an id and no value. *)
PathParameter(id) == [type |-> "PARAMETER", id |-> id, value |-> Empty]
PathString(value) == [type |-> "STRING", id |-> Empty, value |-> value]

(* "/" has no parts, like the empty path. *)
ParsePath(url, disableIds) ==
  [i \in DOMAIN url.path |->
     IF ~disableIds /\ url.path[i] \in Params
     THEN PathParameter(url.path[i])
     ELSE PathString(url.path[i])]

(* The groups of the query's regular expression: the first pair, and the   *)
(* last of the pairs after it; a group that matched nothing is empty.      *)
Groups(pairs) ==
  CASE pairs = <<>>    -> <<>>
    [] Len(pairs) = 1  -> <<pairs[1], <<Empty, Empty>>>>
    [] Len(pairs) >= 2 -> <<pairs[1], pairs[Len(pairs)]>>

(* Mutant of ParseQuery: what follows '=' is stored under itself. *)
ParseQueryValues(pairs) ==
  LET groups == Groups(pairs)
  IN  [v \in {groups[i][2] : i \in DOMAIN groups} |-> v]

(* The text after '=' becomes the key, the text before it the value; of    *)
(* two groups with the same text after '=' the later one stays.            *)
ParseQuery(pairs) ==
  LET groups   == Groups(pairs)
      Last(v)  == CHOOSE i \in DOMAIN groups :
                    /\ groups[i][2] = v
                    /\ \A j \in DOMAIN groups : groups[j][2] = v => j <= i
  IN  [v \in {groups[i][2] : i \in DOMAIN groups} |-> groups[Last(v)][1]]

(* The path and query of struct Url, from a text that matches the regular  *)
(* expression; for another ReducedUrlParser::parse throws.                 *)
Parse(text) == [path |-> text.path, query |-> ParseQuery(text.query)]
=============================================================================
