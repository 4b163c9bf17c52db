-------------------------- MODULE MCContentPipeline --------------------------
(***************************************************************************)
(* Instances of ContentPipeline for TLC: two chunks, posted as one document*)
(* or as two, in either order.                                             *)
(***************************************************************************)
EXTENDS ContentPipelineProperties, TLC

CONSTANTS q1, q2, r1, e1

MCPayloads    == {<<{1, 2}>>, <<{2}, {1}>>}
MCMentionedIn == <<<<e1>>, <<>>>>

\* Every message of up to 5 characters.
MCTexts  == BoundedSeq({"a", "b", " ", NL}, 5)
MCHeader == <<"h">>
MCChars  == {"a", "b", "h", " ", NL}
=============================================================================
