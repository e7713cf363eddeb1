------------------------ MODULE MCDocumentExtraction -------------------------
(* Two calls: one of an official page and an attachment, one of either; a     *)
(* redirect may lead to a host that is not admitted or not public.            *)
EXTENDS DocumentExtraction

MCCall == {"c1", "c2"}
MCUri == {"page", "attachment", "elsewhere", "inside"}
MCTargets == [c1 |-> {{"page", "attachment", "elsewhere"}},
              c2 |-> {{}, {"page"}}]
MCSampling == {"c2"}
MCAllowed == {"page", "attachment", "inside"}
MCPublic == {"page", "attachment", "elsewhere"}
=============================================================================
