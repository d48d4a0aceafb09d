---------------------------- MODULE MCJobPipeline ----------------------------
(* Small instances of JobPipeline for TLC. *)
EXTENDS JobPipeline, TLC

CONSTANTS d1, d2, h1, h2, safe, virus, png, pdf

F(d, h, t, e) == [dev |-> d, content |-> <<h, t>>, ext |-> e]

(* "virus" contents are infected under every head *)
MCInfected == Heads \X {virus}

(* A clean image *)
MCOneImage == {F(d1, h1, safe, png)}

(* One image, clean or infected *)
MCImages == {F(d1, h1, virus, png), F(d1, h1, safe, png)}

(* A clean document *)
MCOneDocument == {F(d1, h1, safe, pdf)}

(* One document, clean or infected *)
MCDocuments == {F(d1, h1, virus, pdf), F(d1, h1, safe, pdf)}

(* Nothing tells workers or requests apart *)
MCSymmetry == Permutations(Scanners) \cup Permutations(Requests)

(* Once its scan task is out, a handler does nothing that others can see:  *)
(* it reports and answers.  States that differ only in that are one state, *)
(* where no property is about the answer.                                  *)
MCView ==
    <<[r \in Requests |-> IF scanQ[r].state = "none" THEN request[r] ELSE "event"],
      upload, scanner, imager, shared>>

(* Two files that differ only in their first 2048 bytes *)
MCTwoHeads == {F(d1, h1, safe, pdf), F(d1, h2, safe, pdf)}

=============================================================================
