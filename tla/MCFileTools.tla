----------------------------- MODULE MCFileTools -----------------------------
(* Instances of FileTools for TLC: files of one or two tokens.              *)
EXTENDS FileTools

CONSTANTS x, y

OneText == {<<x, x>>}
Replacements == {<<y>>, <<x, y>>}
WrittenTexts == {<<y>>, <<y, x, x>>}
=============================================================================
