SPECIFICATION OtaSpec
CONSTANT Images = {"url1", "url2"}
INVARIANTS OtaTypeOK ReadyImageVerified ConfirmedIsStored TrialSlotExplained
PROPERTY AbSpec
