CONSTANTS
  Words <- MCWords
  Sources <- MCSources
  Masks <- MCMasks
  Dsts <- MCDsts
  Places <- MCPlaces
  A8Target = TRUE
SPECIFICATION RenderSpec
INVARIANT RenderEquation
