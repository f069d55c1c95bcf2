---------------------------- MODULE MCModelsPage ----------------------------
(* One model of every kind of download; the page asks for it in every order. *)
EXTENDS ModelsPage, TLC

MCKinds == {"file", "directory", "moonshine"}
=============================================================================
