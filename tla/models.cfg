SPECIFICATION Spec
INVARIANTS ExpressionsSound UpgradesKeep SearchAgrees ScreenAgrees
           ImportedIsExported TermsAgree SessionSerial
PROPERTIES FormShowsInstance ClicksDecide
CHECK_DEADLOCK FALSE
