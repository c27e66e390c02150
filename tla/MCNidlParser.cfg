\* Every sequence of tokens, of any length; the states are the places in the
\* parser and in the grammar.
SPECIFICATION FairSpec
INVARIANTS
  AcceptedIsGrammatical
  RejectedIsUngrammatical
PROPERTY
  ParsingEnds
