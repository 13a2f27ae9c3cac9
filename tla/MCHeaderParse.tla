--------------------------- MODULE MCHeaderParse ---------------------------
(* Request lines of any token but "type", which is read as any word there, *)
(* and "HTTP/0.9", which is read as "HTTP/1.1" is; then header lines that  *)
(* are or are not a Content-Type too wide to copy.                         *)
EXTENDS HeaderParse

AllTokens == Tokens \ {"type", "HTTP/0.9"}
LineBreaks == {"CR", "LF", "type", "wide"}
=============================================================================
