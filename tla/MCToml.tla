------------------------------- MODULE MCToml -------------------------------
EXTENDS Toml

\* Long texts of headers alone, and short ones of everything.
Headers == {"NEWLINE", "LBRACKET", "RBRACKET", "DOT"}
Values  == {"NEWLINE", "EQUAL", "COMMA", "LBRACKET", "RBRACKET", "LBRACE", "RBRACE"}
MCTexts == {[marks |-> Headers, left |-> 10], [marks |-> Headers \cup Values, left |-> 5]}
=============================================================================
