------------------------------ MODULE MCClient ------------------------------
(***************************************************************************)
(* Instances of Client for TLC.                                            *)
(***************************************************************************)
EXTENDS Client, TLC

CONSTANTS text, archive, storage, noname, model, any, p

\* A text and an archive the service can sign a URL for, and a name in the storage.
MCFiles == {text, archive, storage}
MCArchives == {archive}
MCListed == {text, archive}

MCModels == {noname, model}

\* A text with a bar in the first input, or no tag; a model that was saved with a bar in
\* one of its inputs, and one of four pieces that others save.
MCEdits == {<<1, <<any, p>>>>, <<1, <<>>>>}
MCSaved == (model :> <<any, p, any, any, any>>) @@ (noname :> <<>>)
MCOthers == {<<model, <<p, any, any, any>>>>}
=============================================================================
