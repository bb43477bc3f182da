------------------------- MODULE MCMetal3Deployment -------------------------
(* A small instance of Metal3Deployment for TLC: two templates, the        *)
(* current selector and one outdated one.                                  *)
EXTENDS Metal3Deployment

CONSTANTS t1, t2, legacy, current

MCTemplates == {t1, t2}
MCSelectors == {legacy, current}
=============================================================================
