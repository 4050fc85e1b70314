-------------------------- MODULE MCMultipartForm --------------------------
(* Small instances of MultipartForm for TLC. *)
EXTENDS MultipartForm

Part(name, filename, ctype, encoding, content) ==
    [name |-> name, filename |-> filename, ctype |-> ctype,
     encoding |-> encoding, content |-> content, breaks |-> {1}]

\* Inputs of a form, files of every kind that create_object tells apart, bytes
\* that look like the end of a line or of the form.
Parts == {
    Part("a", "", "", "", <<>>),
    Part("a", "", "", "", <<45, 45>>),
    Part("b", "", "text/css", "quoted_printable", <<0, 77>>),
    Part("c", "f", "application/octet-stream", "", <<13, 10>>),
    Part("c", "f", "image/gif", "base64", <<255, 0, 7, 1>>),
    Part("d", "g", "image/png", "", <<77>>),
    Part("d", "h", "text/html", "", <<60, 58, 10>>)}

Mixed(n) == UNION {[1..k -> Parts] : k \in 0..n}

\* All contents of up to four bytes, in both encodings, with some line breaks.
SomeBytes == {0, 61, 77, 255}
Contents == UNION {[1..n -> SomeBytes] : n \in 0..4}
EncodedForms ==
    {<<[name |-> "a", filename |-> "f", ctype |-> "text/xml",
        encoding |-> encoding, content |-> content, breaks |-> breaks]>> :
        encoding \in {"base64", "quoted_printable"}, content \in Contents,
        breaks \in {{}, {1}, {1, 2, 3}}}

MCForms == Mixed(3) \cup EncodedForms
MCPairs == Mixed(2)
=============================================================================
