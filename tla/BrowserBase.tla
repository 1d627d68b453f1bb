----------------------------- MODULE BrowserBase -----------------------------
(* What the parts of the browser workspace have in common: one value for   *)
(* everything that TypeScript writes as "", null or undefined.             *)
CONSTANT Empty  \* an absent parameter, no filter, nothing loaded, no answer
==============================================================================
