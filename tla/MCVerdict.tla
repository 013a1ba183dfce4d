----------------------------- MODULE MCVerdict -----------------------------
EXTENDS Verdict

Plain == [archive |-> "fine", sig |-> "none", scaffold |-> FALSE, recorded |-> FALSE,
          cached |-> FALSE, heur |-> "none", signer |-> "none"]

\* What malware and what Windows files look like.
SomeContents == {
  Plain,
  [Plain EXCEPT !.sig = "whole"],
  [Plain EXCEPT !.sig = "section"],
  [Plain EXCEPT !.sig = "pattern", !.signer = "microsoft"],
  [Plain EXCEPT !.sig = "whole", !.signer = "microsoft"],
  [Plain EXCEPT !.sig = "whole", !.recorded = TRUE],
  [Plain EXCEPT !.cached = TRUE, !.signer = "microsoft"],
  [Plain EXCEPT !.scaffold = TRUE, !.sig = "whole"],
  [Plain EXCEPT !.sig = "section", !.cached = TRUE],
  [Plain EXCEPT !.heur = "heur"],
  [Plain EXCEPT !.heur = "heur", !.signer = "microsoft"],
  [Plain EXCEPT !.heur = "pua", !.signer = "other"],
  [Plain EXCEPT !.archive = "bomb"],
  [Plain EXCEPT !.archive = "odd", !.signer = "microsoft"]}
=============================================================================
