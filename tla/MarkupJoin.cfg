SPECIFICATION Spec
CONSTANTS
  plain = plain
  bold = bold
  italic = italic
  Users = {1, 2, 3}
  Owner = 1
  Inside = {1, 2}
  Symbols = {1, 2, 3, 4, 5}
  Breaks = {1, 3, 5}
  InitialText = {2, 3, 4}
  Paragraphs = {1, 2, 3, 4, 5}
  InitialPars = {1, 3}
  ParOf <- MCParOf
  Author <- MCAuthor
  Formats <- MCFormats
  Plain = plain
  Ranges <- MCRanges
  Mixes <- MCMixes
  MaxClock = 3
SYMMETRY Alike
INVARIANT ParagraphsAreThere
CHECK_DEADLOCK FALSE
