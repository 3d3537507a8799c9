--------------------------- MODULE KnowledgeBasesMC ---------------------------
(* Knowledge bases for TLC: a page, and a batch of its near twin, a file that shares
   a chunk with that one, and the page's exact twin. *)
EXTENDS KnowledgeBases

Upload(k, fs, page) == [base |-> k, files |-> fs, url |-> page]
UploadsTried == <<Upload("0", <<<<"x">>>>, TRUE),
                  Upload("k", <<<<"x", "z">>, <<"z">>, <<"x">>>>, FALSE)>>
NearTried(a, b) == {a, b} = {<<"x">>, <<"x", "z">>}
==============================================================================
