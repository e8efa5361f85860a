---------------------------- MODULE MCDraftStore ----------------------------
(* DraftStore on three scopes: two versions of a page, and an unversioned  *)
(* draft of another path.                                                  *)
EXTENDS DraftStore, TLC

DraftScopes == [path : {"p"}, version : {1, 2}, generation : {1}]
               \cup [path : {"q"}, version : {0}, generation : {1}]
=============================================================================
